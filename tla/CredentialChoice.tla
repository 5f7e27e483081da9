-------------------------- MODULE CredentialChoice --------------------------
(***************************************************************************)
(* What the scheduler of credentials promises to the requests that ask it  *)
(* for one, without its shards, indexes and cursors: selectors that look   *)
(* at every credential each time (selector.go) keep the same promise, and  *)
(* AuthScheduler is shown to implement it.                                 *)
(*                                                                         *)
(* A snapshot holds what the choice depends on.  Its cooldown for a model  *)
(* has two instants: retry, at which isAuthBlockedForModel stops blocking  *)
(* the credential, and recover, which that function reports as the end of  *)
(* the cooldown while it lies ahead.                                       *)
(***************************************************************************)
EXTENDS CredentialRequest

VARIABLES
    auths,      \* the snapshot of each credential that is enabled, or NoCred
    now,
    answer      \* the choice just made

choiceVars == <<auths, now, answer>>

Refusals == {"not_found", "cooldown", "unavailable"}
NoAnswer == [kind |-> "none"]

-----------------------------------------------------------------------------
Supports(c, m) == m \in auths[c].shape.models

(* isAuthBlockedForModel; a snapshot with Disabled set is never kept.      *)
Free(c, m) == ~auths[c].shape.off /\ auths[c].hold[m].retry <= now

(* The cooldown is over by either of its instants.                         *)
SurelyFree(c, m) == Free(c, m) /\ auths[c].hold[m].recover <= now

Candidates(r) ==
    {c \in Wanted(r) : /\ auths[c] # NoCred
                       /\ auths[c].shape.provider \in RouteProviders(r)
                       /\ Supports(c, r.model)}

Better(r, d, c) ==
    LET a == auths[c].shape
        b == auths[d].shape
    IN IF PrefersWebsocket(r) /\ a.ws # b.ws THEN b.ws
                                             ELSE b.priority > a.priority

-----------------------------------------------------------------------------
Init ==
    /\ auths = [c \in Creds |-> NoCred]
    /\ now = 0
    /\ answer = NoAnswer

(* The manager or the service brings other snapshots, or takes some away.  *)
Change ==
    /\ auths' \in [Creds -> Snapshots \cup {NoCred}]
    /\ answer' = NoAnswer
    /\ UNCHANGED now

Tick ==
    /\ now' = now + 1
    /\ answer' = NoAnswer
    /\ UNCHANGED auths

(* A credential is given out only if it is free, and no better one is      *)
(* passed over that surely is.                                             *)
Choose(r, c) ==
    /\ c \in Candidates(r) /\ Free(c, r.model)
    /\ \A d \in Candidates(r) : Better(r, d, c) => ~SurelyFree(d, r.model)
    /\ answer' = [kind |-> "chosen", req |-> r, cred |-> c]
    /\ UNCHANGED <<auths, now>>

(* A request is refused only if no candidate is surely free; it is told of *)
(* a cooldown only if quota cooldowns hold every candidate, and that there *)
(* is none only if there is none.                                          *)
Refuse(r, why) ==
    /\ \A c \in Candidates(r) : ~SurelyFree(c, r.model)
    /\ (why = "not_found") <=> (Candidates(r) = {})
    /\ why = "cooldown" =>
         \A c \in Candidates(r) : ~auths[c].shape.off /\ auths[c].hold[r.model].exceeded
    /\ answer' = [kind |-> "refused", req |-> r, why |-> why]
    /\ UNCHANGED <<auths, now>>

Next ==
    \/ Change
    \/ Tick
    \/ \E r \in Requests :
          \/ \E c \in Creds : Choose(r, c)
          \/ \E why \in Refusals : Refuse(r, why)

Spec == Init /\ [][Next]_choiceVars
=============================================================================
