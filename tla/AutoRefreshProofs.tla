------------------------- MODULE AutoRefreshProofs -------------------------
(***************************************************************************)
(* No credential is lost by the refresh loop, and no reschedule waits with *)
(* the loop asleep: for any number of credentials, workers and callers,    *)
(* and any capacity of the jobs channel.                                   *)
(*                                                                         *)
(* The invariant says of every credential by itself that it is Kept: what  *)
(* is in the queue is in time unless the loop is still to look at it, even *)
(* for a credential that is not to be refreshed at present, because a      *)
(* result may change that without telling the loop.                        *)
(***************************************************************************)
EXTENDS AutoRefresh, FiniteSetTheorems, SequenceTheorems, TLAPS

InHand == {"due", "pend", "again", "send"}

(* What the place of the loop says about what it has in hand.              *)
Structure ==
    /\ loop.due # <<>> <=> loop.at \in InHand
    /\ loop.batch # {} => loop.at = "apply"
    /\ loop.at = "send" => Head(loop.due) \in dirty
    /\ loop.at \in {"rebuild", "idle"} => loop.lag = 0
    /\ loop.at = "rebuild" => DOMAIN queue = {}
    /\ \A g \in Workers \cup Callers : task[g].at \in {"mark", "wake"} => task[g].calls # 0

Kept(c) ==
    /\ c \in DOMAIN queue => Coming(c) \/ InTime(c)
    /\ loop.at # "rebuild" /\ Schedulable(auths[c]) /\ c \notin forgotten
          => Coming(c) \/ c \in DOMAIN queue

IInv ==
    /\ TypeOK
    /\ Structure
    /\ \A c \in Credentials : Kept(c)
    /\ NoMissedWake

-----------------------------------------------------------------------------
(* Instants.                                                               *)

LEMMA InstantsCorrect ==
    /\ Past \in Instants /\ Lifetime \in Instants
    /\ PendingHold \in Instants /\ FailureHold \in Instants
    /\ IneffectiveHold \in Instants
    /\ Instants \subseteq Int
    /\ \A i \in Instants : Earlier(i) \in Instants
    /\ \A i, j \in Instants : i <= j => Earlier(i) <= Earlier(j)
    /\ \A i \in Instants : i <= Interval => Earlier(i) <= Interval
  BY AutoRefreshAssumption DEF Past, Instants, Earlier

LEMMA NextCheckCorrect ==
    ASSUME NEW a \in Auths, NEW lag \in 0 .. Lag
    PROVE  /\ NextCheck(a, lag) \in Instants
           /\ \/ NextCheck(a, lag) <= Interval
              \/ NextCheck(a, lag) <= a.nextRefreshAfter
              \/ NextCheck(a, lag) <= a.expires
           /\ -lag + Interval \in Instants /\ -lag + Interval <= Interval
           /\ -lag + PendingHold \in Instants
  BY AutoRefreshAssumption DEF Auths, NextCheck, Instants, Past

-----------------------------------------------------------------------------
(* Ways to keep a credential.                                              *)

(* The loop is to look at it.                                              *)
LEMMA KeptIfComing == ASSUME NEW c, Coming(c)' PROVE Kept(c)'
  BY DEF Kept

(* Nothing that concerns it has changed.                                   *)
LEMMA KeptIfUntouched ==
    ASSUME NEW c, Kept(c),
           Coming(c) => Coming(c)',
           auths'[c] = auths[c],
           c \in DOMAIN queue' <=> c \in DOMAIN queue,
           c \in DOMAIN queue => queue'[c] = queue[c],
           c \in forgotten' <=> c \in forgotten,
           loop.at = "rebuild" => loop'.at = "rebuild"
    PROVE  Kept(c)'
  BY DEF Kept, InTime

(* It was put into the queue, in time, or needs no refresh.                *)
LEMMA KeptIfRescheduled ==
    ASSUME NEW c,
           \/ c \in DOMAIN queue' /\ InTime(c)'
           \/ c \notin DOMAIN queue' /\ ~Schedulable(auths[c])'
    PROVE  Kept(c)'
  BY DEF Kept

-----------------------------------------------------------------------------
(* What the loop's operations on the queue do.                             *)

(* The queue changes for c alone, and keeps its type.                      *)
OnlyQueued(c) ==
    /\ DOMAIN queue' \subseteq Credentials
    /\ queue' \in [DOMAIN queue' -> Instants]
    /\ forgotten' \subseteq Credentials
    /\ \A x \in Credentials \ {c} :
          /\ x \in DOMAIN queue' <=> x \in DOMAIN queue
          /\ x \in DOMAIN queue => queue'[x] = queue[x]
          /\ x \in forgotten' <=> x \in forgotten

LEMMA UpsertCorrect ==
    ASSUME TypeOK, NEW c \in Credentials, NEW at \in Instants, Upsert(c, at)
    PROVE  /\ OnlyQueued(c)
           /\ c \in DOMAIN queue' /\ queue'[c] = at
<1>1. queue' = [x \in DOMAIN queue \cup {c} |-> IF x = c THEN at ELSE queue[x]]
  BY DEF Upsert, With
<1>2. DOMAIN queue' = DOMAIN queue \cup {c}
  BY <1>1
<1>3. queue' \in [DOMAIN queue' -> Instants]
  BY <1>1, <1>2 DEF TypeOK
<1>4. ASSUME NEW x \in DOMAIN queue, x # c PROVE queue'[x] = queue[x]
  BY <1>1, <1>4
<1>5. forgotten' = forgotten \ {c} /\ queue'[c] = at
  BY <1>1 DEF Upsert
<1> QED BY <1>2, <1>3, <1>4, <1>5 DEF OnlyQueued, TypeOK

LEMMA RemoveCorrect ==
    ASSUME TypeOK, NEW c \in Credentials, Remove(c)
    PROVE  OnlyQueued(c) /\ c \notin DOMAIN queue'
<1>1. queue' = [x \in DOMAIN queue \ {c} |-> queue[x]] /\ forgotten' = forgotten
  BY DEF Remove, Without
<1>2. DOMAIN queue' = DOMAIN queue \ {c}
  BY <1>1
<1>3. queue' \in [DOMAIN queue' -> Instants]
  BY <1>1, <1>2 DEF TypeOK
<1>4. ASSUME NEW x \in DOMAIN queue, x # c PROVE queue'[x] = queue[x]
  BY <1>1, <1>4
<1> QED BY <1>1, <1>2, <1>3, <1>4 DEF OnlyQueued, TypeOK

LEMMA RescheduleCorrect ==
    ASSUME TypeOK, NEW c \in Credentials, Reschedule(c), auths' = auths
    PROVE  OnlyQueued(c) /\ Kept(c)'
<1>1. auths[c] \in Auths /\ loop.lag \in 0 .. Lag
  BY DEF TypeOK, Loops
<1>2. CASE Schedulable(auths[c])
  <2>1. Upsert(c, NextCheck(auths[c], loop.lag))
    BY <1>2 DEF Reschedule
  <2>2. OnlyQueued(c) /\ c \in DOMAIN queue' /\ queue'[c] = NextCheck(auths[c], loop.lag)
    BY <1>1, <2>1, NextCheckCorrect, UpsertCorrect
  <2>3. InTime(c)'
    BY <1>1, <2>2, NextCheckCorrect DEF InTime
  <2> QED BY <2>2, <2>3, KeptIfRescheduled
<1>3. CASE ~Schedulable(auths[c])
  <2>1. OnlyQueued(c) /\ c \notin DOMAIN queue'
    BY <1>3, RemoveCorrect DEF Reschedule
  <2> QED BY <1>3, <2>1, KeptIfRescheduled DEF Schedulable
<1> QED BY <1>2, <1>3

(* The loop's list loses its head and nothing else.                        *)
Listed(x) == \E i \in DOMAIN loop.due : loop.due[i] = x

LEMMA GoOnCorrect ==
    ASSUME TypeOK, Structure, loop.at \in InHand, GoOn
    PROVE  /\ loop' \in Loops
           /\ loop'.batch = loop.batch /\ loop'.lag = loop.lag
           /\ loop'.at = "drain" \/ loop'.at = "due"
           /\ loop'.due # <<>> <=> loop'.at = "due"
           /\ \A x : Listed(x) /\ x # Head(loop.due) => Listed(x)'
           /\ Head(loop.due) \in Credentials
<1>1. loop \in Loops /\ loop.due \in Seq(Credentials) /\ loop.due # <<>>
  BY DEF TypeOK, Structure, Loops
<1>2. loop' = [loop EXCEPT !.at = IF Len(loop.due) = 1 THEN "drain" ELSE "due",
                           !.due = Tail(loop.due)]
  BY DEF GoOn
<1>3. /\ Tail(loop.due) \in Seq(Credentials) /\ Head(loop.due) \in Credentials
      /\ Tail(loop.due) # <<>> <=> Len(loop.due) # 1
  <2>1. Tail(loop.due) \in Seq(Credentials) /\ Len(Tail(loop.due)) = Len(loop.due) - 1
    BY <1>1
  <2>2. Tail(loop.due) = <<>> <=> Len(Tail(loop.due)) = 0
    BY <2>1, EmptySeq
  <2>3. Len(loop.due) \in Nat /\ Len(loop.due) # 0
    BY <1>1, EmptySeq
  <2>4. Head(loop.due) \in Credentials
    BY <1>1, <2>3
  <2> QED BY <2>1, <2>2, <2>3, <2>4
<1>4. /\ loop'.at = (IF Len(loop.due) = 1 THEN "drain" ELSE "due")
      /\ loop'.due = Tail(loop.due)
      /\ loop'.batch = loop.batch /\ loop'.lag = loop.lag
  BY <1>1, <1>2 DEF Loops
<1>5. loop' \in Loops
  BY <1>1, <1>2, <1>3 DEF Loops
<1>6. ASSUME NEW x, Listed(x), x # Head(loop.due) PROVE Listed(x)'
  <2>1. PICK i \in DOMAIN loop.due : loop.due[i] = x
    BY <1>6 DEF Listed
  <2>2. i \in 1 .. Len(loop.due) /\ i # 1
    BY <1>1, <1>6, <2>1
  <2>3. i - 1 \in DOMAIN Tail(loop.due) /\ Tail(loop.due)[i - 1] = x
    BY <1>1, <2>1, <2>2
  <2> QED BY <1>4, <2>3 DEF Listed
<1> QED BY <1>3, <1>4, <1>5, <1>6

-----------------------------------------------------------------------------
(* The steps of the loop.                                                  *)

LEMMA RebuildPreserves == ASSUME IInv, Rebuild PROVE IInv'
<1>1. TypeOK /\ Structure /\ NoMissedWake
  BY DEF IInv
<1>2. /\ loop.at = "rebuild" /\ loop' = Resting /\ forgotten' = {}
      /\ UNCHANGED <<auths, executor, dirty, wake, jobs, task, changes>>
      /\ DOMAIN queue' = {x \in Credentials : Schedulable(auths[x])}
      /\ \A c \in DOMAIN queue' : queue'[c] = NextCheck(auths[c], 0)
      /\ queue' = [c \in DOMAIN queue' |-> NextCheck(auths[c], 0)]
  BY DEF Rebuild
<1>3. ASSUME NEW c \in Credentials
      PROVE  /\ NextCheck(auths[c], 0) \in Instants
             /\ \/ NextCheck(auths[c], 0) <= Interval
                \/ NextCheck(auths[c], 0) <= auths[c].nextRefreshAfter
                \/ NextCheck(auths[c], 0) <= auths[c].expires
  <2>1. auths[c] \in Auths /\ 0 \in 0 .. Lag
    BY <1>1, AutoRefreshAssumption DEF TypeOK
  <2> QED BY <2>1, NextCheckCorrect
<1>4. TypeOK'
  <2>1. queue' \in [DOMAIN queue' -> Instants] /\ DOMAIN queue' \subseteq Credentials
    BY <1>2, <1>3
  <2>2. loop' \in Loops
    BY <1>2, AutoRefreshAssumption, EmptySeq DEF Resting, Loops
  <2> QED BY <1>1, <1>2, <2>1, <2>2 DEF TypeOK
<1>5. Structure'
  BY <1>1, <1>2 DEF Structure, Resting, InHand
<1>6. ASSUME NEW c \in Credentials PROVE Kept(c)'
  <2>1. CASE Schedulable(auths[c])
    <3>1. c \in DOMAIN queue' /\ InTime(c)'
      BY <1>2, <1>3, <2>1 DEF InTime
    <3> QED BY <3>1, KeptIfRescheduled
  <2>2. CASE ~Schedulable(auths[c])
    BY <1>2, <2>2, KeptIfRescheduled DEF Schedulable
  <2> QED BY <2>1, <2>2
<1>7. NoMissedWake'
  BY <1>1, <1>2 DEF NoMissedWake
<1> QED BY <1>4, <1>5, <1>6, <1>7 DEF IInv

LEMMA ReceiveWakePreserves == ASSUME IInv, ReceiveWake PROVE IInv'
<1>1. TypeOK /\ Structure /\ NoMissedWake
  BY DEF IInv
<1>2. /\ loop.at = "idle" /\ wake' = FALSE /\ loop' = [loop EXCEPT !.at = "drain"]
      /\ UNCHANGED <<auths, executor, queue, dirty, jobs, task, changes, forgotten>>
  BY DEF ReceiveWake
<1>3. /\ loop' \in Loops /\ loop'.at = "drain" /\ loop'.due = loop.due
      /\ loop'.batch = loop.batch /\ loop'.lag = loop.lag
  BY <1>1, <1>2 DEF TypeOK, Loops
<1>4. TypeOK'
  BY <1>1, <1>2, <1>3 DEF TypeOK
<1>5. Structure'
  BY <1>1, <1>2, <1>3 DEF Structure, InHand
<1>6. ASSUME NEW c \in Credentials PROVE Kept(c)'
  <2>1. Coming(c) => Coming(c)'
    BY <1>2, <1>3 DEF Coming
  <2>2. Kept(c)
    BY DEF IInv
  <2> QED BY <1>2, <2>1, <2>2, KeptIfUntouched
<1>7. NoMissedWake'
  BY <1>3 DEF NoMissedWake
<1> QED BY <1>4, <1>5, <1>6, <1>7 DEF IInv

LEMMA DueOrdersCorrect ==
    ASSUME TypeOK, Due # {}, NEW order \in DueOrders
    PROVE  /\ order \in Seq(Credentials) /\ order # <<>>
           /\ \A c \in Due : \E i \in DOMAIN order : order[i] = c
<1>1. Due \subseteq Credentials
  BY DEF Due, TypeOK
<1>2. Cardinality(Due) \in Nat
  BY <1>1, AutoRefreshAssumption, FS_Subset, FS_CardinalityType
<1>3. order \in [1 .. Cardinality(Due) -> Due]
  BY DEF DueOrders
<1>4. order \in Seq(Credentials)
  BY <1>1, <1>2, <1>3
<1>5. \A c \in Due : \E i \in DOMAIN order : order[i] = c
  BY DEF DueOrders
<1>6. PICK c \in Due : TRUE
  OBVIOUS
<1>7. DOMAIN order # {}
  BY <1>5, <1>6
<1> QED BY <1>4, <1>5, <1>7, EmptySeq

LEMMA FireTimerPreserves == ASSUME IInv, FireTimer PROVE IInv'
<1>1. TypeOK /\ Structure
  BY DEF IInv
<1>2. PICK order \in DueOrders : loop' = [loop EXCEPT !.at = "due", !.due = order]
  BY DEF FireTimer
<1>3. /\ loop.at = "idle" /\ Due # {}
      /\ queue' = [x \in DOMAIN queue \ Due |-> queue[x]]
      /\ UNCHANGED <<auths, executor, dirty, wake, jobs, task, changes, forgotten>>
  BY DEF FireTimer, Without
<1>4. /\ order \in Seq(Credentials) /\ order # <<>>
      /\ \A c \in Due : \E i \in DOMAIN order : order[i] = c
  BY <1>1, <1>3, DueOrdersCorrect
<1>5. /\ loop' \in Loops /\ loop'.at = "due" /\ loop'.due = order
      /\ loop'.batch = loop.batch /\ loop'.lag = loop.lag
  BY <1>1, <1>2, <1>4 DEF TypeOK, Loops
<1>6. TypeOK'
  <2>1. DOMAIN queue' \subseteq Credentials /\ queue' \in [DOMAIN queue' -> Instants]
    BY <1>1, <1>3 DEF TypeOK
  <2> QED BY <1>1, <1>3, <1>5, <2>1 DEF TypeOK
<1>7. Structure'
  BY <1>1, <1>3, <1>4, <1>5 DEF Structure, InHand
<1>8. ASSUME NEW c \in Credentials PROVE Kept(c)'
  <2>1. CASE c \in Due
    BY <1>4, <1>5, <2>1, KeptIfComing DEF Coming
  <2>2. CASE c \notin Due
    <3>1. ~Listed(c)
      <4>1. loop.due = <<>>
        BY <1>1, <1>3 DEF Structure, InHand
      <4> QED BY <4>1 DEF Listed
    <3>2. Coming(c) => Coming(c)'
      BY <1>3, <1>5, <3>1 DEF Coming, Listed
    <3>3. /\ c \in DOMAIN queue' <=> c \in DOMAIN queue
          /\ c \in DOMAIN queue => queue'[c] = queue[c]
      BY <1>3, <2>2
    <3>4. Kept(c)
      BY DEF IInv
    <3> QED BY <1>3, <3>2, <3>3, <3>4, KeptIfUntouched
  <2> QED BY <2>1, <2>2
<1>9. NoMissedWake'
  BY <1>5 DEF NoMissedWake
<1> QED BY <1>6, <1>7, <1>8, <1>9 DEF IInv

LEMMA DrainDirtyPreserves == ASSUME IInv, DrainDirty PROVE IInv'
<1>1. TypeOK /\ Structure
  BY DEF IInv
<1>2. /\ loop.at = "drain" /\ dirty' = {}
      /\ loop' = IF dirty = {} THEN Resting ELSE [loop EXCEPT !.at = "apply", !.batch = dirty]
      /\ UNCHANGED <<auths, executor, queue, wake, jobs, task, changes, forgotten>>
  BY DEF DrainDirty
<1>3. /\ loop' \in Loops
      /\ loop'.at = IF dirty = {} THEN "idle" ELSE "apply"
      /\ loop'.due = <<>> /\ loop'.batch = dirty
      /\ dirty = {} => loop'.lag = 0
  <2>1. loop.due = <<>> /\ loop \in Loops
    BY <1>1, <1>2 DEF TypeOK, Structure, InHand
  <2>2. CASE dirty = {}
    BY <1>2, <2>2, AutoRefreshAssumption, EmptySeq DEF Resting, Loops
  <2>3. CASE dirty # {}
    BY <1>1, <1>2, <2>1, <2>3 DEF TypeOK, Loops
  <2> QED BY <2>2, <2>3
<1>4. TypeOK'
  BY <1>1, <1>2, <1>3 DEF TypeOK
<1>5. Structure'
  BY <1>1, <1>2, <1>3 DEF Structure, InHand
<1>6. ASSUME NEW c \in Credentials PROVE Kept(c)'
  <2>1. ~Listed(c) /\ loop.batch = {}
    BY <1>1, <1>2 DEF Structure, InHand, Listed
  <2>2. Coming(c) => Coming(c)'
    BY <1>2, <1>3, <2>1 DEF Coming, Listed
  <2>3. Kept(c)
    BY DEF IInv
  <2> QED BY <1>2, <2>2, <2>3, KeptIfUntouched
<1>7. NoMissedWake'
  BY <1>2 DEF NoMissedWake
<1> QED BY <1>4, <1>5, <1>6, <1>7 DEF IInv

LEMMA ApplyDirtyPreserves ==
    ASSUME IInv, NEW c \in Credentials, ApplyDirty(c) PROVE IInv'
<1>1. TypeOK /\ Structure /\ NoMissedWake
  BY DEF IInv
<1>2. /\ loop.at = "apply" /\ c \in loop.batch /\ Reschedule(c)
      /\ loop' = IF loop.batch = {c} THEN Resting ELSE [loop EXCEPT !.batch = @ \ {c}]
      /\ UNCHANGED <<auths, executor, dirty, wake, jobs, task, changes>>
  BY DEF ApplyDirty
<1>3. OnlyQueued(c) /\ Kept(c)'
  BY <1>1, <1>2, RescheduleCorrect
<1>4. /\ loop' \in Loops
      /\ loop'.at = (IF loop.batch = {c} THEN "idle" ELSE "apply")
      /\ loop'.due = <<>> /\ loop'.batch = loop.batch \ {c}
      /\ loop.batch = {c} => loop'.lag = 0
  <2>1. loop.due = <<>> /\ loop \in Loops
    BY <1>1, <1>2 DEF TypeOK, Structure, InHand
  <2>2. CASE loop.batch = {c}
    BY <1>2, <2>2, AutoRefreshAssumption, EmptySeq DEF Resting, Loops
  <2>3. CASE loop.batch # {c}
    BY <1>2, <2>1, <2>3 DEF Loops
  <2> QED BY <2>2, <2>3
<1>5. TypeOK'
  BY <1>1, <1>2, <1>3, <1>4 DEF TypeOK, OnlyQueued
<1>6. Structure'
  BY <1>1, <1>2, <1>4 DEF Structure, InHand
<1>7. ASSUME NEW x \in Credentials \ {c} PROVE Kept(x)'
  <2>1. ~Listed(x)
    BY <1>1, <1>2 DEF Structure, InHand, Listed
  <2>2. Coming(x) => Coming(x)'
    BY <1>2, <1>4, <2>1 DEF Coming, Listed
  <2>3. Kept(x)
    BY DEF IInv
  <2> QED BY <1>2, <1>3, <2>2, <2>3, KeptIfUntouched DEF OnlyQueued
<1>8. NoMissedWake'
  BY <1>1, <1>2, <1>4 DEF NoMissedWake
<1> QED BY <1>3, <1>5, <1>6, <1>7, <1>8 DEF IInv

(* The loop has done with the first of its list, which is now kept, and    *)
(* goes on.                                                                *)
LEMMA GoOnPreserves ==
    ASSUME IInv, loop.at \in InHand, GoOn,
           NEW c, c = Head(loop.due), Kept(c)', OnlyQueued(c),
           UNCHANGED <<auths, executor, dirty, wake, task, changes>>,
           jobs' \in Seq(Credentials), Len(jobs') <= JobBuffer
    PROVE  IInv'
<1>1. TypeOK /\ Structure
  BY DEF IInv
<1>2. /\ loop' \in Loops
      /\ loop'.batch = loop.batch /\ loop'.lag = loop.lag
      /\ loop'.at = "drain" \/ loop'.at = "due"
      /\ loop'.due # <<>> <=> loop'.at = "due"
      /\ \A x : Listed(x) /\ x # Head(loop.due) => Listed(x)'
      /\ c \in Credentials
  BY <1>1, GoOnCorrect
<1>3. TypeOK'
  BY <1>1, <1>2 DEF TypeOK, OnlyQueued
<1>4. Structure'
  BY <1>1, <1>2 DEF Structure, InHand
<1>5. ASSUME NEW x \in Credentials \ {c} PROVE Kept(x)'
  <2>1. Listed(x) => Listed(x)'
    BY <1>2
  <2>2. Coming(x) => Coming(x)'
    BY <1>2, <2>1 DEF Coming, Listed
  <2>3. Kept(x)
    BY DEF IInv
  <2>4. loop.at # "rebuild"
    BY DEF InHand
  <2> QED BY <2>2, <2>3, <2>4, KeptIfUntouched DEF OnlyQueued
<1>6. NoMissedWake'
  BY <1>2 DEF NoMissedWake
<1> QED BY <1>3, <1>4, <1>5, <1>6 DEF IInv

LEMMA LookPreserves ==
    ASSUME IInv, NEW c \in Credentials, Look(c) PROVE IInv'
<1>1. TypeOK /\ Structure
  BY DEF IInv
<1>2. /\ loop.at = "due" /\ c = Head(loop.due)
      /\ UNCHANGED <<auths, executor, dirty, wake, jobs, task, changes>>
  BY DEF Look
<1>3. jobs' \in Seq(Credentials) /\ Len(jobs') <= JobBuffer /\ loop.at \in InHand
  BY <1>1, <1>2 DEF TypeOK, InHand
<1>4. CASE ~ShouldRefresh(auths[c], loop.lag)
  <2>1. Reschedule(c) /\ GoOn
    BY <1>4 DEF Look
  <2>2. OnlyQueued(c) /\ Kept(c)'
    BY <1>1, <1>2, <2>1, RescheduleCorrect
  <2> QED BY <1>2, <1>3, <2>1, <2>2, GoOnPreserves
<1>5. CASE ShouldRefresh(auths[c], loop.lag) /\ ~executor
  <2>1. Upsert(c, Now + Interval) /\ GoOn
    BY <1>5 DEF Look
  <2>2. Now + Interval \in Instants /\ Now + Interval <= Interval
    <3>1. auths[c] \in Auths /\ loop.lag \in 0 .. Lag
      BY <1>1 DEF TypeOK, Loops
    <3> QED BY <3>1, NextCheckCorrect DEF Now
  <2>3. OnlyQueued(c) /\ c \in DOMAIN queue' /\ queue'[c] = Now + Interval
    BY <1>1, <2>1, <2>2, UpsertCorrect
  <2>4. Kept(c)'
    BY <2>2, <2>3, KeptIfRescheduled DEF InTime
  <2> QED BY <1>2, <1>3, <2>1, <2>3, <2>4, GoOnPreserves
<1>6. CASE ShouldRefresh(auths[c], loop.lag) /\ executor
  <2>1. loop' = [loop EXCEPT !.at = "pend"] /\ UNCHANGED <<queue, forgotten>>
    BY <1>6 DEF Look
  <2>2. /\ loop' \in Loops /\ loop'.at = "pend" /\ loop'.due = loop.due
        /\ loop'.batch = loop.batch /\ loop'.lag = loop.lag
    BY <1>1, <2>1 DEF TypeOK, Loops
  <2>3. TypeOK'
    BY <1>1, <1>2, <2>1, <2>2 DEF TypeOK
  <2>4. Structure'
    BY <1>1, <1>2, <2>1, <2>2 DEF Structure, InHand
  <2>5. ASSUME NEW x \in Credentials PROVE Kept(x)'
    <3>1. Coming(x) => Coming(x)'
      BY <1>2, <2>2 DEF Coming
    <3>2. Kept(x)
      BY DEF IInv
    <3> QED BY <1>2, <2>1, <3>1, <3>2, KeptIfUntouched
  <2>6. NoMissedWake'
    BY <2>2 DEF NoMissedWake
  <2> QED BY <2>3, <2>4, <2>5, <2>6 DEF IInv
<1> QED BY <1>4, <1>5, <1>6

LEMMA LookAgainPreserves ==
    ASSUME IInv, NEW c \in Credentials, LookAgain(c) PROVE IInv'
<1>1. /\ TypeOK /\ loop.at = "again" /\ c = Head(loop.due)
      /\ Reschedule(c) /\ GoOn
      /\ UNCHANGED <<auths, executor, dirty, wake, jobs, task, changes>>
  BY DEF IInv, LookAgain
<1>2. OnlyQueued(c) /\ Kept(c)'
  BY <1>1, RescheduleCorrect
<1>3. jobs' \in Seq(Credentials) /\ Len(jobs') <= JobBuffer /\ loop.at \in InHand
  BY <1>1 DEF TypeOK, InHand
<1> QED BY <1>1, <1>2, <1>3, GoOnPreserves

LEMMA SendPreserves ==
    ASSUME IInv, NEW c \in Credentials, Send(c) PROVE IInv'
<1>1. /\ TypeOK /\ Structure /\ loop.at = "send" /\ c = Head(loop.due)
      /\ Len(jobs) < JobBuffer /\ jobs' = Append(jobs, c) /\ GoOn
      /\ UNCHANGED <<auths, executor, queue, dirty, wake, task, changes, forgotten>>
  BY DEF IInv, Send
<1>2. jobs' \in Seq(Credentials) /\ Len(jobs') <= JobBuffer /\ loop.at \in InHand
  BY <1>1, AutoRefreshAssumption DEF TypeOK, InHand
<1>3. c \in dirty'
  BY <1>1 DEF Structure
<1>4. Kept(c)'
  BY <1>3, KeptIfComing DEF Coming
<1>5. OnlyQueued(c)
  BY <1>1 DEF OnlyQueued, TypeOK
<1> QED BY <1>1, <1>2, <1>4, <1>5, GoOnPreserves

LEMMA MarkPendingPreserves ==
    ASSUME IInv, NEW c \in Credentials, MarkPending(c) PROVE IInv'
<1>1. TypeOK /\ Structure
  BY DEF IInv
<1>2. /\ loop.at = "pend" /\ c = Head(loop.due)
      /\ UNCHANGED <<executor, queue, jobs, task, changes, forgotten>>
  BY DEF MarkPending
<1>3. Listed(c) /\ loop.due # <<>>
  <2>1. loop.due \in Seq(Credentials) /\ loop.due # <<>>
    BY <1>1, <1>2 DEF TypeOK, Structure, InHand, Loops
  <2>2. 1 \in DOMAIN loop.due /\ loop.due[1] = c
    BY <1>2, <2>1, EmptySeq, HeadTailProperties
  <2> QED BY <2>1, <2>2 DEF Listed
<1>4. /\ loop' \in Loops
      /\ loop'.at = "again" \/ loop'.at = "send"
      /\ loop'.due = loop.due /\ loop'.batch = loop.batch /\ loop'.lag = loop.lag
      /\ loop'.at = "send" => c \in dirty'
      /\ dirty \subseteq dirty' /\ dirty' \subseteq Credentials /\ wake' \in BOOLEAN
      /\ auths' \in [Credentials -> Auths]
      /\ \A x \in Credentials \ {c} : auths'[x] = auths[x]
  <2>1. CASE auths[c].nextRefreshAfter > Now
    <3>1. /\ loop' = [loop EXCEPT !.at = "again"]
          /\ UNCHANGED <<auths, dirty, wake>>
      BY <2>1 DEF MarkPending
    <3> QED BY <1>1, <3>1 DEF TypeOK, Loops
  <2>2. CASE ~(auths[c].nextRefreshAfter > Now)
    <3>1. /\ auths' = [auths EXCEPT ![c].nextRefreshAfter = Now + PendingHold]
          /\ dirty' = dirty \cup {c} /\ wake' = TRUE
          /\ loop' = [loop EXCEPT !.at = "send"]
      BY <2>2 DEF MarkPending
    <3>2. Now + PendingHold \in Instants
      <4>1. auths[c] \in Auths /\ loop.lag \in 0 .. Lag
        BY <1>1 DEF TypeOK, Loops
      <4> QED BY <4>1, NextCheckCorrect DEF Now
    <3>3. auths' \in [Credentials -> Auths]
      BY <1>1, <3>1, <3>2 DEF TypeOK, Auths
    <3>4. \A x \in Credentials \ {c} : auths'[x] = auths[x]
      BY <1>1, <3>1 DEF TypeOK
    <3>5. /\ loop' \in Loops /\ loop'.at = "send"
          /\ loop'.due = loop.due /\ loop'.batch = loop.batch /\ loop'.lag = loop.lag
      BY <1>1, <3>1 DEF TypeOK, Loops
    <3> QED BY <1>1, <3>1, <3>3, <3>4, <3>5 DEF TypeOK
  <2> QED BY <2>1, <2>2
<1>5. TypeOK'
  BY <1>1, <1>2, <1>4 DEF TypeOK
<1>6. Structure'
  <2>1. loop'.at = "send" => Head(loop'.due) \in dirty'
    BY <1>2, <1>4
  <2>2. loop'.at \in InHand /\ loop'.due # <<>> /\ loop'.batch = {}
    BY <1>1, <1>2, <1>3, <1>4 DEF Structure, InHand
  <2>3. loop'.at # "rebuild" /\ loop'.at # "idle"
    BY <1>4
  <2>4. task' = task
    BY <1>2
  <2> QED BY <1>1, <2>1, <2>2, <2>3, <2>4 DEF Structure
<1>7. Kept(c)'
  BY <1>3, <1>4, KeptIfComing DEF Coming, Listed
<1>8. ASSUME NEW x \in Credentials \ {c} PROVE Kept(x)'
  <2>1. Coming(x) => Coming(x)'
    BY <1>2, <1>4 DEF Coming
  <2>2. Kept(x)
    BY DEF IInv
  <2> QED BY <1>2, <1>4, <2>1, <2>2, KeptIfUntouched
<1>9. NoMissedWake'
  BY <1>4 DEF NoMissedWake
<1> QED BY <1>5, <1>6, <1>7, <1>8, <1>9 DEF IInv

-----------------------------------------------------------------------------
(* The steps of the workers and of the callers.                            *)

(* They leave the queue and the loop alone, and see to what they change.   *)
LEMMA OthersPreserve ==
    ASSUME IInv, TypeOK', NoMissedWake',
           UNCHANGED <<queue, loop, forgotten>>, dirty \subseteq dirty',
           \A g \in Workers \cup Callers :
              task'[g].at \in {"mark", "wake"} => task'[g].calls # 0,
           \A c \in Credentials :
              Coming(c)' \/ (auths'[c] = auths[c] /\ (Coming(c) => Coming(c)'))
    PROVE  IInv'
<1>1. Structure'
  BY DEF IInv, Structure
<1>2. ASSUME NEW c \in Credentials PROVE Kept(c)'
  <2>1. CASE Coming(c)'
    BY <2>1, KeptIfComing
  <2>2. CASE ~Coming(c)'
    <3>1. auths'[c] = auths[c] /\ (Coming(c) => Coming(c)')
      BY <2>2
    <3>2. Kept(c)
      BY DEF IInv
    <3> QED BY <3>1, <3>2, KeptIfUntouched
  <2> QED BY <2>1, <2>2
<1> QED BY <1>1, <1>2 DEF IInv

(* What one goroutine does to its task keeps the tasks of the others.      *)
LEMMA TaskCorrect ==
    ASSUME TypeOK, NEW g \in Workers \cup Callers, NEW t \in CallsLeft,
           task' = [task EXCEPT ![g] = t]
    PROVE  /\ task' \in [Workers \cup Callers -> CallsLeft]
           /\ task'[g] = t
           /\ \A h \in (Workers \cup Callers) \ {g} : task'[h] = task[h]
  BY DEF TypeOK

(* A goroutine that was not telling the loop of anything has changed a     *)
(* credential, and is about to tell the loop of it.                        *)
LEMMA ThenPreserves ==
    ASSUME IInv, NEW g \in Workers \cup Callers, NEW c \in Credentials, NEW n \in {1, 2},
           task[g].at # "mark", task[g].at # "wake", Then(g, c, n),
           UNCHANGED <<executor, queue, dirty, wake, loop, forgotten>>,
           auths' \in [Credentials -> Auths],
           \A x \in Credentials \ {c} : auths'[x] = auths[x],
           jobs' \in Seq(Credentials), Len(jobs') <= JobBuffer,
           changes' \in 0 .. MaxChanges
    PROVE  IInv'
<1>1. TypeOK /\ Structure /\ NoMissedWake
  BY DEF IInv
<1> DEFINE t == [at |-> "mark", auth |-> {c}, calls |-> n]
<1>2. t \in CallsLeft /\ task' = [task EXCEPT ![g] = t]
  BY DEF CallsLeft, Then
<1>3. /\ task' \in [Workers \cup Callers -> CallsLeft] /\ task'[g] = t
      /\ \A h \in (Workers \cup Callers) \ {g} : task'[h] = task[h]
  <2> HIDE DEF t
  <2> QED BY <1>1, <1>2, TaskCorrect
<1>4. TypeOK'
  BY <1>1, <1>3 DEF TypeOK
<1>5. Coming(c)'
  BY <1>3 DEF Coming
<1>6. ASSUME NEW x \in Credentials PROVE Coming(x) => Coming(x)'
  BY <1>3 DEF Coming
<1>7. NoMissedWake'
  BY <1>1, <1>3 DEF NoMissedWake
<1>8. ASSUME NEW h \in Workers \cup Callers, task'[h].at \in {"mark", "wake"}
      PROVE  task'[h].calls # 0
  BY <1>1, <1>3, <1>8 DEF Structure
<1> QED BY <1>4, <1>5, <1>6, <1>7, <1>8, OthersPreserve

LEMMA TakePreserves == ASSUME IInv, NEW w \in Workers, Take(w) PROVE IInv'
<1>1. TypeOK /\ Structure /\ NoMissedWake
  BY DEF IInv
<1> DEFINE c == Head(jobs)
<1>2. /\ task[w].at = "idle" /\ jobs # <<>> /\ jobs' = Tail(jobs)
      /\ UNCHANGED <<auths, executor, queue, dirty, wake, loop, changes, forgotten>>
  BY DEF Take
<1>3. jobs \in Seq(Credentials) /\ Len(jobs) <= JobBuffer
  BY <1>1 DEF TypeOK
<1>4. c \in Credentials /\ jobs' \in Seq(Credentials) /\ Len(jobs') = Len(jobs) - 1
  BY <1>2, <1>3, EmptySeq, HeadTailProperties
<1>5. Len(jobs') <= JobBuffer
  BY <1>3, <1>4, AutoRefreshAssumption
<1>6. auths' \in [Credentials -> Auths] /\ changes' \in 0 .. MaxChanges
  BY <1>1, <1>2 DEF TypeOK
<1>7. CASE ~executor
  <2>1. Then(w, c, 1)
    BY <1>7 DEF Take
  <2> HIDE DEF c
  <2> QED BY <1>2, <1>4, <1>5, <1>6, <2>1, ThenPreserves
<1>8. CASE executor
  <2> DEFINE t == [at |-> "refresh", auth |-> {c}, calls |-> 0]
  <2>1. t \in CallsLeft /\ task' = [task EXCEPT ![w] = t]
    BY <1>4, <1>8 DEF CallsLeft, Take
  <2>2. /\ task' \in [Workers \cup Callers -> CallsLeft] /\ task'[w] = t
        /\ \A h \in (Workers \cup Callers) \ {w} : task'[h] = task[h]
    <3> HIDE DEF t
    <3> QED BY <1>1, <2>1, TaskCorrect
  <2>3. TypeOK'
    BY <1>1, <1>2, <1>4, <1>5, <2>2 DEF TypeOK
  <2>4. ASSUME NEW x \in Credentials PROVE Coming(x) => Coming(x)'
    BY <1>2, <2>2 DEF Coming
  <2>5. NoMissedWake'
    BY <1>1, <1>2, <2>2 DEF NoMissedWake
  <2>6. ASSUME NEW h \in Workers \cup Callers, task'[h].at \in {"mark", "wake"}
        PROVE  task'[h].calls # 0
    BY <1>1, <2>2, <2>6 DEF Structure
  <2> QED BY <1>2, <2>3, <2>4, <2>5, <2>6, OthersPreserve
<1> QED BY <1>7, <1>8

LEMMA AnswerPreserves == ASSUME IInv, NEW w \in Workers, Answer(w) PROVE IInv'
<1>1. TypeOK
  BY DEF IInv
<1>2. /\ task[w].at = "refresh"
      /\ UNCHANGED <<executor, queue, dirty, wake, loop, jobs, changes, forgotten>>
  BY DEF Answer
<1>3. PICK c \in task[w].auth :
          \/ /\ \E a \in Refreshed(auths[c]) \cup RefreshFailed(auths[c]) :
                   auths' = [auths EXCEPT ![c] = a]
             /\ Then(w, c, 2)
          \/ UNCHANGED auths /\ Then(w, c, 1)
  BY DEF Answer
<1>4. c \in Credentials
  BY <1>1 DEF TypeOK, CallsLeft
<1>5. /\ jobs' \in Seq(Credentials) /\ Len(jobs') <= JobBuffer
      /\ changes' \in 0 .. MaxChanges
  BY <1>1, <1>2 DEF TypeOK
<1>6. Refreshed(auths[c]) \cup RefreshFailed(auths[c]) \subseteq Auths
  BY <1>1, <1>4, InstantsCorrect DEF TypeOK, Refreshed, RefreshFailed, Auths
<1>7. CASE UNCHANGED auths /\ Then(w, c, 1)
  <2>1. auths' \in [Credentials -> Auths]
    BY <1>1, <1>7 DEF TypeOK
  <2> QED BY <1>2, <1>4, <1>5, <1>7, <2>1, ThenPreserves
<1>8. CASE /\ \E a \in Refreshed(auths[c]) \cup RefreshFailed(auths[c]) :
                 auths' = [auths EXCEPT ![c] = a]
           /\ Then(w, c, 2)
  <2>1. /\ auths' \in [Credentials -> Auths]
        /\ \A x \in Credentials \ {c} : auths'[x] = auths[x]
    BY <1>1, <1>6, <1>8 DEF TypeOK
  <2> QED BY <1>2, <1>4, <1>5, <1>8, <2>1, ThenPreserves
<1> QED BY <1>3, <1>7, <1>8

LEMMA ChangePreserves ==
    ASSUME IInv, NEW u \in Callers, NEW c \in Credentials, Change(u, c) PROVE IInv'
<1>1. TypeOK
  BY DEF IInv
<1>2. /\ task[u].at = "idle" /\ changes < MaxChanges /\ changes' = changes + 1
      /\ Then(u, c, 1)
      /\ UNCHANGED <<executor, queue, dirty, wake, loop, jobs, forgotten>>
  BY DEF Change
<1>3. changes' \in 0 .. MaxChanges
  BY <1>1, <1>2, AutoRefreshAssumption DEF TypeOK
<1>4. jobs' \in Seq(Credentials) /\ Len(jobs') <= JobBuffer
  BY <1>1, <1>2 DEF TypeOK
<1>5. /\ auths' \in [Credentials -> Auths]
      /\ \A x \in Credentials \ {c} : auths'[x] = auths[x]
  <2>1. CASE UNCHANGED auths
    BY <1>1, <2>1 DEF TypeOK
  <2>2. CASE \E e \in {Past, Lifetime}, n \in {Past, auths[c].nextRefreshAfter} :
                auths' = [auths EXCEPT ![c] = [known |-> TRUE, unauthorized |-> FALSE,
                                               nextRefreshAfter |-> n, expires |-> e]]
    <3>1. PICK e \in {Past, Lifetime}, n \in {Past, auths[c].nextRefreshAfter} :
             auths' = [auths EXCEPT ![c] = [known |-> TRUE, unauthorized |-> FALSE,
                                            nextRefreshAfter |-> n, expires |-> e]]
      BY <2>2
    <3>2. e \in Instants /\ n \in Instants
      BY <1>1, InstantsCorrect DEF TypeOK, Auths
    <3>3. [known |-> TRUE, unauthorized |-> FALSE, nextRefreshAfter |-> n, expires |-> e]
             \in Auths
      BY <3>2 DEF Auths
    <3> QED BY <1>1, <3>1, <3>3 DEF TypeOK
  <2> QED BY <2>1, <2>2 DEF Change
<1> QED BY <1>2, <1>3, <1>4, <1>5, ThenPreserves

LEMMA MarkDirtyPreserves ==
    ASSUME IInv, NEW g \in Workers \cup Callers, MarkDirty(g) PROVE IInv'
<1>1. TypeOK /\ Structure /\ NoMissedWake
  BY DEF IInv
<1>2. /\ task[g].at = "mark" /\ dirty' = dirty \cup task[g].auth
      /\ task' = [task EXCEPT ![g].at = "wake"]
      /\ UNCHANGED <<auths, executor, queue, wake, loop, jobs, changes, forgotten>>
  BY DEF MarkDirty
<1> DEFINE t == [task[g] EXCEPT !.at = "wake"]
<1>3. /\ t \in CallsLeft /\ t.at = "wake" /\ t.calls = task[g].calls
      /\ task[g].auth \subseteq Credentials
  BY <1>1 DEF TypeOK, CallsLeft
<1>4. task' = [task EXCEPT ![g] = t]
  BY <1>1, <1>2 DEF TypeOK
<1>5. /\ task' \in [Workers \cup Callers -> CallsLeft] /\ task'[g] = t
      /\ \A h \in (Workers \cup Callers) \ {g} : task'[h] = task[h]
  <2> HIDE DEF t
  <2> QED BY <1>1, <1>3, <1>4, TaskCorrect
<1>6. task'[g].at = "wake" /\ task'[g].calls = task[g].calls
  BY <1>3, <1>5
<1> HIDE DEF t
<1>7. TypeOK'
  BY <1>1, <1>2, <1>3, <1>5 DEF TypeOK
<1>8. ASSUME NEW x \in Credentials, Coming(x) PROVE Coming(x)'
  <2>1. CASE \E h \in Workers \cup Callers : task[h].at = "mark" /\ x \in task[h].auth
    <3>1. PICK h \in Workers \cup Callers : task[h].at = "mark" /\ x \in task[h].auth
      BY <2>1
    <3>2. CASE h = g
      BY <1>2, <3>1, <3>2 DEF Coming
    <3>3. CASE h # g
      BY <1>5, <3>1, <3>3 DEF Coming
    <3> QED BY <3>2, <3>3
  <2>2. CASE x \in dirty \cup loop.batch
    BY <1>2, <2>2 DEF Coming
  <2>3. CASE \E i \in DOMAIN loop.due : loop.due[i] = x
    BY <1>2, <2>3 DEF Coming
  <2> QED BY <1>8, <2>1, <2>2, <2>3 DEF Coming
<1>9. NoMissedWake'
  BY <1>6 DEF NoMissedWake
<1>10. ASSUME NEW h \in Workers \cup Callers, task'[h].at \in {"mark", "wake"}
       PROVE  task'[h].calls # 0
  <2>1. CASE h = g
    BY <1>1, <1>2, <1>6, <2>1 DEF Structure
  <2>2. CASE h # g
    BY <1>1, <1>5, <1>10, <2>2 DEF Structure
  <2> QED BY <2>1, <2>2
<1> QED BY <1>2, <1>7, <1>8, <1>9, <1>10, OthersPreserve

LEMMA SendWakePreserves ==
    ASSUME IInv, NEW g \in Workers \cup Callers, SendWake(g) PROVE IInv'
<1>1. TypeOK /\ Structure
  BY DEF IInv
<1> DEFINE t == Called(task[g])
<1>2. /\ task[g].at = "wake" /\ wake' = TRUE
      /\ task' = [task EXCEPT ![g] = t]
      /\ UNCHANGED <<auths, executor, queue, dirty, loop, jobs, changes, forgotten>>
  BY DEF SendWake
<1>3. t \in CallsLeft /\ (t.at \in {"mark", "wake"} => t.calls # 0)
  <2>1. task[g] \in CallsLeft /\ task[g].calls \in {1, 2}
    BY <1>1, <1>2 DEF TypeOK, Structure, CallsLeft
  <2>2. CASE task[g].calls = 1
    BY <2>2 DEF Called, Free, CallsLeft
  <2>3. CASE task[g].calls = 2
    BY <2>1, <2>3 DEF Called, CallsLeft
  <2> QED BY <2>1, <2>2, <2>3
<1>4. /\ task' \in [Workers \cup Callers -> CallsLeft] /\ task'[g] = t
      /\ \A h \in (Workers \cup Callers) \ {g} : task'[h] = task[h]
  <2> HIDE DEF t
  <2> QED BY <1>1, <1>2, <1>3, TaskCorrect
<1> HIDE DEF t
<1>5. TypeOK'
  BY <1>1, <1>2, <1>4 DEF TypeOK
<1>6. ASSUME NEW x \in Credentials PROVE Coming(x) => Coming(x)'
  BY <1>2, <1>4 DEF Coming
<1>7. NoMissedWake'
  BY <1>2 DEF NoMissedWake
<1>8. ASSUME NEW h \in Workers \cup Callers, task'[h].at \in {"mark", "wake"}
      PROVE  task'[h].calls # 0
  BY <1>1, <1>3, <1>4, <1>8 DEF Structure
<1> QED BY <1>2, <1>5, <1>6, <1>7, <1>8, OthersPreserve

LEMMA RegisterExecutorPreserves == ASSUME IInv, RegisterExecutor PROVE IInv'
<1>1. TypeOK /\ Structure /\ NoMissedWake
  BY DEF IInv
<1>2. /\ executor' = TRUE
      /\ UNCHANGED <<auths, queue, dirty, wake, loop, jobs, task, changes, forgotten>>
  BY DEF RegisterExecutor
<1>3. TypeOK'
  BY <1>1, <1>2 DEF TypeOK
<1>4. NoMissedWake'
  BY <1>1, <1>2 DEF NoMissedWake
<1>5. ASSUME NEW x \in Credentials PROVE Coming(x) => Coming(x)'
  BY <1>2 DEF Coming
<1>6. ASSUME NEW h \in Workers \cup Callers, task'[h].at \in {"mark", "wake"}
      PROVE  task'[h].calls # 0
  BY <1>1, <1>2, <1>6 DEF Structure
<1> QED BY <1>2, <1>3, <1>4, <1>5, <1>6, OthersPreserve

-----------------------------------------------------------------------------
(* Time passes for everything that waits for an instant.                   *)
LEMMA TickPreserves == ASSUME IInv, Tick PROVE IInv'
<1>1. TypeOK /\ Structure /\ NoMissedWake
  BY DEF IInv
<1>2. /\ InRound => loop.lag < Lag
      /\ auths' = [c \in Credentials |->
                     [auths[c] EXCEPT !.nextRefreshAfter = Earlier(auths[c].nextRefreshAfter),
                                      !.expires = Earlier(auths[c].expires)]]
      /\ queue' = [c \in DOMAIN queue |-> Earlier(queue[c])]
      /\ loop' = [loop EXCEPT !.lag = IF InRound THEN loop.lag + 1 ELSE loop.lag]
      /\ UNCHANGED <<executor, dirty, wake, jobs, task, changes, forgotten>>
  BY DEF Tick
<1>3. ASSUME NEW c \in Credentials
      PROVE  /\ auths'[c] \in Auths
             /\ auths'[c].known = auths[c].known
             /\ auths'[c].unauthorized = auths[c].unauthorized
             /\ auths'[c].nextRefreshAfter = Earlier(auths[c].nextRefreshAfter)
             /\ auths'[c].expires = Earlier(auths[c].expires)
             /\ auths[c].nextRefreshAfter \in Instants /\ auths[c].expires \in Instants
  <2>1. auths[c] \in Auths
    BY <1>1 DEF TypeOK
  <2>2. auths'[c] = [auths[c] EXCEPT !.nextRefreshAfter = Earlier(auths[c].nextRefreshAfter),
                                     !.expires = Earlier(auths[c].expires)]
    BY <1>2
  <2>3. /\ auths[c].nextRefreshAfter \in Instants /\ auths[c].expires \in Instants
        /\ auths[c].known \in BOOLEAN /\ auths[c].unauthorized \in BOOLEAN
    BY <2>1 DEF Auths
  <2>4. /\ Earlier(auths[c].nextRefreshAfter) \in Instants
        /\ Earlier(auths[c].expires) \in Instants
    BY <2>3, InstantsCorrect
  <2> HIDE DEF Earlier
  <2> QED BY <2>1, <2>2, <2>3, <2>4 DEF Auths
<1>4. /\ DOMAIN queue' = DOMAIN queue
      /\ \A c \in DOMAIN queue : queue'[c] = Earlier(queue[c]) /\ queue[c] \in Instants
      /\ queue' \in [DOMAIN queue' -> Instants]
  BY <1>1, <1>2, InstantsCorrect DEF TypeOK
<1>5. /\ loop' \in Loops /\ loop'.at = loop.at /\ loop'.due = loop.due
      /\ loop'.batch = loop.batch
      /\ loop.at \in {"rebuild", "idle"} => loop'.lag = loop.lag
  <2>1. loop \in Loops /\ loop.lag \in 0 .. Lag
    BY <1>1 DEF TypeOK, Loops
  <2>2. (IF InRound THEN loop.lag + 1 ELSE loop.lag) \in 0 .. Lag
    <3>1. CASE InRound
      <4>1. loop.lag < Lag
        BY <1>2, <3>1
      <4> QED BY <2>1, <3>1, <4>1, AutoRefreshAssumption
    <3>2. CASE ~InRound
      BY <2>1, <3>2
    <3> QED BY <3>1, <3>2
  <2> QED BY <1>2, <2>1, <2>2 DEF Loops, InRound
<1>6. TypeOK'
  <2>1. auths' \in [Credentials -> Auths]
    BY <1>2, <1>3
  <2> QED BY <1>1, <1>2, <1>4, <1>5, <2>1 DEF TypeOK
<1>7. Structure'
  <2>1. dirty' = dirty /\ task' = task
    BY <1>2
  <2>2. loop.at \in {"rebuild", "idle"} => loop'.lag = 0
    BY <1>1, <1>5 DEF Structure
  <2>3. loop'.at = "rebuild" => DOMAIN queue' = {}
    BY <1>1, <1>4, <1>5 DEF Structure
  <2>4. /\ loop'.due # <<>> <=> loop'.at \in InHand
        /\ loop'.batch # {} => loop'.at = "apply"
        /\ loop'.at = "send" => Head(loop'.due) \in dirty'
    BY <1>1, <1>5, <2>1 DEF Structure
  <2>5. ASSUME NEW g \in Workers \cup Callers, task'[g].at \in {"mark", "wake"}
        PROVE  task'[g].calls # 0
    BY <1>1, <2>1, <2>5 DEF Structure
  <2> QED BY <1>5, <2>2, <2>3, <2>4, <2>5 DEF Structure
<1>8. ASSUME NEW c \in Credentials PROVE Kept(c)'
  <2>1. Coming(c) => Coming(c)'
    BY <1>2, <1>5 DEF Coming
  <2>2. c \in DOMAIN queue /\ InTime(c) => InTime(c)'
    BY <1>3, <1>4, InstantsCorrect DEF InTime
  <2>3. Schedulable(auths[c])' => Schedulable(auths[c])
    BY <1>3 DEF Schedulable
  <2>4. Kept(c)
    BY DEF IInv
  <2> QED BY <1>2, <1>4, <1>5, <2>1, <2>2, <2>3, <2>4 DEF Kept
<1>9. NoMissedWake'
  BY <1>1, <1>2, <1>5 DEF NoMissedWake
<1> QED BY <1>6, <1>7, <1>8, <1>9 DEF IInv

(* A result changes the error of a credential and tells nobody.  What is   *)
(* in the queue stays there in time; what is not needs no refresh until    *)
(* its error is cleared, and from then on counts as forgotten.             *)
LEMMA ReportResultPreserves ==
    ASSUME IInv, NEW c \in Credentials, ReportResult(c) PROVE IInv'
<1>1. TypeOK /\ Structure /\ NoMissedWake
  BY DEF IInv
<1>2. /\ changes < MaxChanges /\ changes' = changes + 1
      /\ auths' = [auths EXCEPT ![c].unauthorized = ~auths[c].unauthorized]
      /\ forgotten' = (IF auths[c].unauthorized /\ c \notin DOMAIN queue
                       THEN forgotten \cup {c} ELSE forgotten)
      /\ UNCHANGED <<executor, queue, dirty, wake, loop, jobs, task>>
  BY DEF ReportResult
<1>3. auths[c] \in Auths /\ auths \in [Credentials -> Auths]
  BY <1>1 DEF TypeOK
<1>4. /\ auths' \in [Credentials -> Auths]
      /\ auths'[c].unauthorized <=> ~auths[c].unauthorized
      /\ auths'[c].nextRefreshAfter = auths[c].nextRefreshAfter
      /\ auths'[c].expires = auths[c].expires
      /\ \A x \in Credentials \ {c} : auths'[x] = auths[x]
  BY <1>2, <1>3 DEF Auths
<1>5. TypeOK'
  BY <1>1, <1>2, <1>4, AutoRefreshAssumption DEF TypeOK
<1>6. Structure'
  BY <1>1, <1>2 DEF Structure
<1>7. ASSUME NEW x \in Credentials PROVE Coming(x) <=> Coming(x)'
  BY <1>2 DEF Coming
<1>8. ASSUME NEW x \in Credentials \ {c} PROVE Kept(x)'
  <2>1. Kept(x)
    BY DEF IInv
  <2>2. Coming(x) => Coming(x)'
    BY <1>7
  <2>3. x \in forgotten' <=> x \in forgotten
    BY <1>2
  <2> QED BY <1>2, <1>4, <2>1, <2>2, <2>3, KeptIfUntouched
<1>9. Kept(c)'
  <2>1. Kept(c)
    BY DEF IInv
  <2>2. c \in DOMAIN queue' => Coming(c)' \/ InTime(c)'
    BY <1>2, <1>4, <1>7, <2>1 DEF Kept, InTime
  <2>3. Schedulable(auths[c])' => auths[c].unauthorized
    BY <1>4 DEF Schedulable
  <2>4. Schedulable(auths[c])' /\ c \notin forgotten' => c \in DOMAIN queue'
    BY <1>2, <2>3
  <2> QED BY <2>2, <2>4 DEF Kept
<1>10. NoMissedWake'
  BY <1>1, <1>2 DEF NoMissedWake
<1> QED BY <1>5, <1>6, <1>8, <1>9, <1>10 DEF IInv

-----------------------------------------------------------------------------
LEMMA InitEstablishes == ASSUME Init PROVE IInv
<1>1. loop = [at |-> "rebuild", due |-> <<>>, batch |-> {}, lag |-> 0]
  BY DEF Init, Resting
<1>2. /\ dirty = {} /\ wake = FALSE /\ jobs = <<>> /\ changes = 0 /\ forgotten = {}
      /\ executor \in BOOLEAN
  BY DEF Init
<1>3. DOMAIN queue = {} /\ queue \in [DOMAIN queue -> Instants]
  BY DEF Init
<1>4. task = [g \in Workers \cup Callers |-> Free]
  BY DEF Init
<1>5. auths \in [Credentials -> Auths]
  <2> DEFINE A == {[known |-> k, unauthorized |-> FALSE, nextRefreshAfter |-> Past,
                    expires |-> e] : k \in BOOLEAN, e \in {Past, Lifetime}}
  <2>1. auths \in [Credentials -> A]
    BY DEF Init
  <2>2. ASSUME NEW a \in A PROVE a \in Auths
    <3>1. PICK k \in BOOLEAN, e \in {Past, Lifetime} :
             a = [known |-> k, unauthorized |-> FALSE, nextRefreshAfter |-> Past,
                  expires |-> e]
      OBVIOUS
    <3>2. e \in Instants /\ Past \in Instants
      BY InstantsCorrect
    <3> QED BY <3>1, <3>2 DEF Auths
  <2> HIDE DEF A
  <2> QED BY <2>1, <2>2
<1>6. loop \in Loops
  BY <1>1, AutoRefreshAssumption, EmptySeq DEF Loops
<1>7. task \in [Workers \cup Callers -> CallsLeft]
  <2>1. Free \in CallsLeft
    BY DEF Free, CallsLeft
  <2> QED BY <1>4, <2>1
<1>8. jobs \in Seq(Credentials) /\ Len(jobs) <= JobBuffer
  BY <1>2, AutoRefreshAssumption, EmptySeq
<1>9. changes \in 0 .. MaxChanges
  BY <1>2, AutoRefreshAssumption
<1>10. TypeOK
  BY <1>2, <1>3, <1>5, <1>6, <1>7, <1>8, <1>9 DEF TypeOK
<1>11. Structure
  <2>1. \A g \in Workers \cup Callers : task[g].at = "idle"
    BY <1>4 DEF Free
  <2>2. /\ loop.at = "rebuild" /\ loop.due = <<>> /\ loop.batch = {} /\ loop.lag = 0
    BY <1>1
  <2> QED BY <1>3, <2>1, <2>2 DEF Structure, InHand
<1>12. ASSUME NEW c \in Credentials PROVE Kept(c)
  BY <1>1, <1>3 DEF Kept
<1>13. NoMissedWake
  BY <1>2 DEF NoMissedWake
<1> QED BY <1>10, <1>11, <1>12, <1>13 DEF IInv

LEMMA StutterPreserves == ASSUME IInv, UNCHANGED vars PROVE IInv'
<1>1. TypeOK' /\ Structure' /\ NoMissedWake'
  BY DEF IInv, vars, TypeOK, Structure, NoMissedWake
<1>2. ASSUME NEW c \in Credentials PROVE Kept(c)'
  <2>1. Kept(c) /\ (Coming(c) => Coming(c)')
    BY DEF IInv, vars, Coming
  <2> QED BY <2>1, KeptIfUntouched DEF vars
<1> QED BY <1>1, <1>2 DEF IInv

LEMMA NextPreserves == ASSUME IInv, [Next]_vars PROVE IInv'
<1>1. CASE LoopStep
  BY <1>1, RebuildPreserves, ReceiveWakePreserves, FireTimerPreserves, DrainDirtyPreserves,
     LookPreserves, MarkPendingPreserves, LookAgainPreserves, SendPreserves,
     ApplyDirtyPreserves DEF LoopStep
<1>2. CASE Tick
  BY <1>2, TickPreserves
<1>3. CASE RegisterExecutor
  BY <1>3, RegisterExecutorPreserves
<1>4. CASE \E w \in Workers : Take(w) \/ Answer(w)
  BY <1>4, TakePreserves, AnswerPreserves
<1>5. CASE \E g \in Workers \cup Callers : MarkDirty(g) \/ SendWake(g)
  BY <1>5, MarkDirtyPreserves, SendWakePreserves
<1>6. CASE \E u \in Callers, c \in Credentials : Change(u, c)
  BY <1>6, ChangePreserves
<1>7. CASE \E c \in Credentials : ReportResult(c)
  BY <1>7, ReportResultPreserves
<1>8. CASE UNCHANGED vars
  BY <1>8, StutterPreserves
<1> QED BY <1>1, <1>2, <1>3, <1>4, <1>5, <1>6, <1>7, <1>8 DEF Next

-----------------------------------------------------------------------------
(* Every credential is kept, whatever the loop, the workers and the        *)
(* callers are in the middle of.                                           *)
THEOREM AutoRefreshInvariant == Spec => []IInv
<1>1. Init => IInv
  BY InitEstablishes
<1>2. IInv /\ [Next]_vars => IInv'
  BY NextPreserves
<1> QED BY <1>1, <1>2, PTL DEF Spec

(* Every variable keeps its type: no instant leaves its range and the jobs *)
(* channel never holds more than its capacity.                             *)
THEOREM AutoRefreshTypeCorrect == Spec => []TypeOK
<1>1. IInv => TypeOK
  BY DEF IInv
<1> QED BY <1>1, AutoRefreshInvariant, PTL

(* A credential that can be refreshed is in the queue in time, or the loop *)
(* is still to look at it: the two critical sections of handleDueAuth, the *)
(* dirty set and the workers' reschedules never lose one between them.     *)
THEOREM CredentialsNeverLost == Spec => []NeverLost
<1>1. IInv => NeverLost
  BY DEF IInv, Kept, NeverLost
<1> QED BY <1>1, AutoRefreshInvariant, PTL

(* One token in the wake channel is enough: no reschedule stays in the     *)
(* dirty set with the loop asleep and nobody about to wake it.             *)
THEOREM WakesNeverMissed == Spec => []NoMissedWake
<1>1. IInv => NoMissedWake
  BY DEF IInv
<1> QED BY <1>1, AutoRefreshInvariant, PTL
=============================================================================
