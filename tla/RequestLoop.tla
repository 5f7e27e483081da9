---------------------------- MODULE RequestLoop ----------------------------
(* One request of one client, from the handler that accepts it to the      *)
(* bytes it is answered with: the rounds and attempts of conductor.go      *)
(* (Execute, ExecuteCount, ExecuteStream), the goroutine that forwards the *)
(* upstream's stream and reports its result (wrapStreamResult), the        *)
(* goroutine that retries a stream that failed before its first payload    *)
(* (sdk/api/handlers ExecuteStreamWithAuthManager) and the HTTP handler    *)
(* that writes the answer (peek loop and ForwardStream). They meet in      *)
(* unbuffered channels and share one context that ends when the client     *)
(* leaves or the HTTP handler is through.                                  *)
(*                                                                         *)
(* Which credential a pick gives, whether it fails, which of a             *)
(* credential's models are blocked and whether a cooldown is worth waiting *)
(* for depend on everything else the server does (AuthScheduler, AuthSync) *)
(* and are open here; so is what the upstream answers.                     *)
EXTENDS Naturals, FiniteSets

CONSTANTS
    Creds,              \* the credentials that serve the request's model
    CreditCreds,        \* those of them the credits fallback may use
    Pool,               \* the number of upstream models of each
    Retries,            \* further rounds each allows (request-retry)
    Limits,             \* the values max-retry-credentials has, 0 for no bound
    MaxBootstrap,       \* streaming.bootstrap-retries
    MaxChunks           \* bound: chunks an upstream sends after the first

None == "none"

ASSUME LoopAssumption ==
    /\ IsFiniteSet(Creds) /\ CreditCreds \subseteq Creds /\ None \notin Creds
    /\ Pool \in [Creds -> Nat]
    /\ Retries \in [Creds -> Nat]
    /\ Limits \subseteq Nat /\ Limits # {}
    /\ MaxBootstrap \in Nat /\ MaxChunks \in Nat

(* Errors by what the code tells apart. "unknown" is the 500 that is the   *)
(* request's own fault, "refused" an error no retry helps against and that *)
(* is not the request's fault, "unavailable" a pick without a credential,  *)
(* "malformed" a payload that is no JSON.                                  *)
Invalid == {"invalid", "unknown"}
UpstreamErrors == {"quota", "server", "refused"} \cup Invalid
Errors == UpstreamErrors \cup {"unavailable", "cancelled", "malformed"}
BootstrapEligible == {"quota", "server", "unknown", "unavailable", "cancelled"}
CreditsEligible == {"quota", "server", "unavailable"}

VARIABLES
    kind,       \* "unary", "count" or "stream"
    stage,      \* where the manager's Execute method is
    loop,       \* its variables
    stream,     \* the stream it returned: "none", "error" or "wrapped"
    fwd,        \* the goroutine of wrapStreamResult
    handler,    \* the goroutine of ExecuteStreamWithAuthManager
    errs, data, \* its channels to the writer
    writer,     \* the HTTP handler
    gone,       \* has the client left?
    ctxDone,    \* has the request's context ended?
    calls,      \* history: upstream calls so far
    mark,       \* history: the result recorded for the last one
    served,     \* history: the calls whose payload the client has
    late,       \* history: credentials attempted after the context ended
    invalid     \* history: has an attempt shown the request to be invalid?

conductor == <<stage, loop>>
channels == <<errs, data>>
history == <<calls, mark, served, late, invalid>>
vars == <<kind, stage, loop, stream, fwd, handler, errs, data, writer, gone, ctxDone,
          calls, mark, served, late, invalid>>

(* The variables of one Execute, which reads its bound once.               *)
NewLoop(limit) ==
    [limit |-> limit, round |-> 0, tried |-> {}, attempted |-> {}, cred |-> None, left |-> 0,
     err |-> None, chunked |-> FALSE, credits |-> FALSE, toTry |-> {}]
Forwarder == [state : {"off", "offer", "read", "done"}, chunk : {"data", "blank", "error"},
              failed : BOOLEAN, left : 0 .. MaxChunks]
NoForwarder == [state |-> "off", chunk |-> "data", failed |-> FALSE, left |-> 0]

Init ==
    /\ kind \in {"unary", "count", "stream"}
    /\ stage = "round" /\ \E limit \in Limits : loop = NewLoop(limit)
    /\ stream = "none" /\ fwd = NoForwarder
    /\ handler = [state |-> "idle", sent |-> FALSE, retries |-> 0]
    /\ errs = None /\ data = "nil"
    /\ writer = "waiting" /\ gone = FALSE /\ ctxDone = FALSE
    /\ calls = 0 /\ mark = None /\ served = {} /\ late = 0 /\ invalid = FALSE

-----------------------------------------------------------------------------
(* What Execute, ExecuteCount and ExecuteStream hand to their caller: the  *)
(* HTTP handler for the first call, the handler's goroutine for a          *)
(* bootstrap retry.                                                        *)

ReturnAnswer ==         \* of a unary call
    /\ stage' = "idle" /\ writer' = "answered" /\ ctxDone' = TRUE
    /\ UNCHANGED <<kind, stream, fwd, handler, channels, gone>>

ReturnStream(s, f) ==
    /\ stage' = "idle" /\ stream' = s /\ fwd' = f
    /\ handler' = [handler EXCEPT !.state = "reading"]
    /\ data' = "open"
    /\ writer' = IF writer = "waiting" THEN "peek" ELSE writer
    /\ UNCHANGED <<kind, errs, gone, ctxDone>>

(* Without a stream there is no goroutine: the error waits in a closed     *)
(* channel and the data channel is nil. A bootstrap retry that fails sends *)
(* the error and closes its channels.                                      *)
ReturnError(e) ==
    /\ stage' = "idle"
    /\ \/ /\ kind # "stream"
          /\ writer' = "failed" /\ ctxDone' = TRUE
          /\ UNCHANGED <<kind, stream, fwd, handler, channels, gone>>
       \/ /\ kind = "stream"
          /\ errs' = e
          /\ handler' = [handler EXCEPT !.state =
                            IF handler.state = "idle" THEN "done" ELSE "closing"]
          /\ writer' = IF writer = "waiting" THEN "peek" ELSE writer
          /\ UNCHANGED <<kind, stream, fwd, data, gone, ctxDone>>

(* A stream that failed before its first payload is returned as a stream   *)
(* of one error.                                                           *)
Return(e, chunked) ==
    IF chunked THEN ReturnStream("error", fwd) ELSE ReturnError(e)

Elsewhere == UNCHANGED <<kind, stream, fwd, handler, channels, writer, gone, ctxDone>>

-----------------------------------------------------------------------------
(* A round (executeMixedOnce, executeCountMixedOnce,                       *)
(* executeStreamMixedOnce).                                                *)

Full == loop.limit > 0 /\ Cardinality(loop.attempted) >= loop.limit

(* A credential whose models are all blocked is tried and not attempted.   *)
Pick(c) ==
    /\ stage = "round" /\ ~Full /\ c \in Creds \ loop.tried
    /\ \E n \in 0 .. Pool[c] :
          IF n = 0
          THEN /\ loop' = [loop EXCEPT !.tried = @ \cup {c}]
               /\ UNCHANGED <<stage, late>>
          ELSE /\ stage' = "ready"
               /\ loop' = [loop EXCEPT !.tried = @ \cup {c}, !.attempted = @ \cup {c},
                                       !.cred = c, !.left = n]
               /\ late' = IF ctxDone THEN late + 1 ELSE late
    /\ UNCHANGED <<calls, mark, served, invalid>> /\ Elsewhere

(* The bound is reached, or the pick fails: the last error, if any.        *)
RoundEnds ==
    /\ stage = "round"
    /\ stage' = "failed"
    /\ loop' = [loop EXCEPT !.err = IF @ = None THEN "unavailable" ELSE @]
    /\ UNCHANGED history /\ Elsewhere

-----------------------------------------------------------------------------
(* One model of one credential: executor.Execute, or executor.ExecuteStream *)
(* and readStreamBootstrap (executeStreamWithModelPool).                   *)

Call ==
    /\ stage = "ready"
    /\ stage' = "call"
    /\ calls' = calls + 1 /\ mark' = None
    /\ UNCHANGED <<loop, served, late, invalid>> /\ Elsewhere

Recorded(r) == mark' = IF mark = None THEN r ELSE "twice"

RoundFails(e) ==
    /\ stage' = "failed"
    /\ loop' = [loop EXCEPT !.err = e, !.chunked = FALSE, !.cred = None, !.left = 0]

(* No model of the credential is left. chunked: the stream failed before   *)
(* its first payload (streamBootstrapError).                               *)
\* Mutant: the end of the context is not looked at before the next pick.
CredentialFailsOn(e, chunked) ==
    IF loop.credits
    THEN /\ stage' = "credits"
         /\ loop' = [loop EXCEPT !.cred = None, !.left = 0]
    ELSE IF e \in Invalid THEN RoundFails(e)
    ELSE /\ stage' = "round"
         /\ loop' = [loop EXCEPT !.err = e, !.chunked = chunked, !.cred = None, !.left = 0]

CredentialFails(e, chunked) ==
    IF loop.credits
    THEN /\ stage' = "credits"
         /\ loop' = [loop EXCEPT !.cred = None, !.left = 0]
    ELSE IF ctxDone /\ kind = "stream" THEN RoundFails("cancelled")
    ELSE IF e \in Invalid THEN RoundFails(e)
    ELSE /\ stage' = "round"
         /\ loop' = [loop EXCEPT !.err = e, !.chunked = chunked, !.cred = None, !.left = 0]

(* The unary credits fallback goes on whatever the error is.               *)
Final(e) == e \in Invalid /\ (kind = "stream" \/ ~loop.credits)

\* Mutant: a request found invalid before the first payload is tried with
\* the next model.
FailureBeforePayload(e, chunked) ==
    /\ Recorded("failure")
    /\ invalid' = (invalid \/ (e \in Invalid /\ ~loop.credits))
    /\ IF (chunked \/ ~Final(e)) /\ loop.left > 1
       THEN /\ stage' = "ready"
            /\ loop' = [loop EXCEPT !.left = @ - 1]
       ELSE CredentialFails(e, chunked)
    /\ UNCHANGED <<calls, served, late>> /\ Elsewhere

\* Mutant: the last model is followed by another.
FailureBeyondLast(e, chunked) ==
    /\ Recorded("failure")
    /\ invalid' = (invalid \/ (e \in Invalid /\ ~loop.credits))
    /\ IF ~Final(e) /\ loop.left > 0
       THEN /\ stage' = "ready"
            /\ loop' = [loop EXCEPT !.left = @ - 1]
       ELSE CredentialFails(e, chunked /\ ~Final(e))
    /\ UNCHANGED <<calls, served, late>> /\ Elsewhere

Failure(e, chunked) ==
    /\ Recorded("failure")
    /\ invalid' = (invalid \/ (e \in Invalid /\ ~loop.credits))
    /\ IF ~Final(e) /\ loop.left > 1
       THEN /\ stage' = "ready"
            /\ loop' = [loop EXCEPT !.left = @ - 1]
       ELSE CredentialFails(e, chunked /\ ~Final(e))
    /\ UNCHANGED <<calls, served, late>> /\ Elsewhere

CallFails(e) ==
    /\ stage = "call"
    /\ ~ctxDone \/ (loop.credits /\ kind # "stream")
    /\ Failure(e, FALSE)

(* What fails after the context has ended is no result of the credential.  *)
CallCancelled ==
    /\ stage \in {"call", "bootstrap"} /\ ctxDone
    /\ ~(loop.credits /\ kind # "stream")
    /\ IF loop.credits THEN CredentialFails("cancelled", FALSE) ELSE RoundFails("cancelled")
    /\ UNCHANGED history /\ Elsewhere

CallSucceeds ==
    /\ stage = "call" /\ kind # "stream"
    /\ Recorded("success")
    /\ served' = {calls}
    /\ ReturnAnswer
    /\ UNCHANGED <<loop, calls, late, invalid>>

StreamOpens ==
    /\ stage = "call" /\ kind = "stream"
    /\ stage' = "bootstrap"
    /\ UNCHANGED <<loop, history>> /\ Elsewhere

BootstrapFails(e) ==
    /\ stage = "bootstrap" /\ ~ctxDone
    /\ Failure(e, TRUE)

(* A stream that closes empty fails as a server does, whether the context  *)
(* has ended or not.                                                       *)
BootstrapEmpty ==
    /\ stage = "bootstrap"
    /\ Failure("server", TRUE)

(* The first payload, or the end of a stream of blank chunks.              *)
BootstrapDone ==
    /\ stage = "bootstrap"
    /\ \/ \E n \in 0 .. MaxChunks :
             ReturnStream("wrapped", [NoForwarder EXCEPT !.state = "offer", !.left = n])
       \/ ReturnStream("wrapped", [NoForwarder EXCEPT !.state = "offer", !.chunk = "blank"])
    /\ UNCHANGED <<loop, history>>

-----------------------------------------------------------------------------
(* Between the rounds (shouldRetryAfterError, waitForCooldown). The wait   *)
(* is that of the closest cooldown, or the one a 429 asked for.            *)

Retry ==
    /\ stage = "failed" /\ loop.err \notin Invalid
    /\ \E c \in Creds : loop.round < Retries[c]
    /\ IF ctxDone
       THEN ReturnError("cancelled") /\ UNCHANGED loop
       ELSE stage' = "waiting" /\ UNCHANGED loop /\ Elsewhere
    /\ UNCHANGED history

\* Mutant: the rounds are not counted.
WaitEndsUncounted ==
    /\ stage = "waiting"
    /\ \/ /\ stage' = "round"
          /\ loop' = NewLoop(loop.limit)
          /\ Elsewhere
       \/ /\ ctxDone
          /\ ReturnError("cancelled")
          /\ UNCHANGED loop
    /\ UNCHANGED history

WaitEnds ==
    /\ stage = "waiting"
    /\ \/ /\ stage' = "round"
          /\ loop' = [NewLoop(loop.limit) EXCEPT !.round = loop.round + 1]
          /\ Elsewhere
       \/ /\ ctxDone
          /\ ReturnError("cancelled")
          /\ UNCHANGED loop
    /\ UNCHANGED history

(* No retry: the credits fallback, which knows no count requests, or the   *)
(* error.                                                                  *)
GiveUp ==
    /\ stage = "failed"
    /\ \/ /\ kind # "count" /\ loop.err \in CreditsEligible /\ CreditCreds # {}
          /\ stage' = "credits"
          /\ loop' = [loop EXCEPT !.credits = TRUE, !.toTry = CreditCreds]
          /\ Elsewhere
       \/ /\ Return(loop.err, loop.chunked)
          /\ UNCHANGED loop
    /\ UNCHANGED history

(* tryAntigravityCreditsExecute and its streaming form.                    *)
TryCredits ==
    /\ stage = "credits" /\ ~ctxDone
    /\ \E c \in loop.toTry :
          /\ loop' = [loop EXCEPT !.toTry = @ \ {c}, !.cred = c, !.left = Pool[c]]
          /\ stage' = IF Pool[c] = 0 THEN "credits" ELSE "ready"
    /\ UNCHANGED history /\ Elsewhere

CreditsFail ==
    /\ stage = "credits" /\ (ctxDone \/ loop.toTry = {})
    /\ Return(loop.err, loop.chunked)
    /\ UNCHANGED <<loop, history>>

-----------------------------------------------------------------------------
(* The forwarding goroutine: it reports the first failure of the upstream  *)
(* when it reads it, and success when the upstream has closed and every    *)
(* chunk was taken.                                                        *)

Nobody == UNCHANGED <<kind, gone, conductor, stream>>

ForwardReads(chunk) ==
    /\ fwd.state = "read" /\ fwd.left > 0
    /\ fwd' = [fwd EXCEPT !.state = "offer", !.chunk = chunk, !.left = @ - 1,
                          !.failed = @ \/ chunk = "error"]
    /\ IF chunk = "error" /\ ~fwd.failed THEN Recorded("failure") ELSE UNCHANGED mark
    /\ UNCHANGED <<handler, channels, writer, ctxDone, calls, served, late, invalid>> /\ Nobody

\* Mutant: the channel is closed before the result is recorded.
ForwardEndsFirst ==
    /\ fwd.state = "read"
    /\ fwd' = [fwd EXCEPT !.state = "done"]
    /\ UNCHANGED <<handler, channels, writer, ctxDone, history>> /\ Nobody

\* Mutant: success is recorded whatever was recorded before.
ForwardEndsWell ==
    /\ fwd.state = "read"
    /\ fwd' = [fwd EXCEPT !.state = "done"]
    /\ Recorded("success")
    /\ UNCHANGED <<handler, channels, writer, ctxDone, calls, served, late, invalid>> /\ Nobody

ForwardEnds ==
    /\ fwd.state = "read"
    /\ fwd' = [fwd EXCEPT !.state = "done"]
    /\ IF fwd.failed THEN UNCHANGED mark ELSE Recorded("success")
    /\ UNCHANGED <<handler, channels, writer, ctxDone, calls, served, late, invalid>> /\ Nobody

ForwardStops ==
    /\ fwd.state = "offer" /\ ctxDone
    /\ fwd' = [fwd EXCEPT !.state = "done"]
    /\ UNCHANGED <<handler, channels, writer, ctxDone, history>> /\ Nobody

-----------------------------------------------------------------------------
(* The handler's goroutine. In a select over a channel and the end of the  *)
(* context either may be taken when both are ready.                        *)

Reading == handler.state = "reading"
Offered(chunk) == stream = "wrapped" /\ fwd.state = "offer" /\ fwd.chunk = chunk
Taken == [fwd EXCEPT !.state = "read"]

(* A stream that fails before anything was sent is started anew.           *)
\* Mutant: whatever was sent.
MayRestartSent(e) == handler.retries < MaxBootstrap /\ e \in BootstrapEligible

MayRestart(e) ==
    ~handler.sent /\ handler.retries < MaxBootstrap /\ e \in BootstrapEligible

\* Mutant: the retries are not counted.
RestartUncounted ==
    /\ handler' = [handler EXCEPT !.state = "retrying"]
    /\ stage' = "round" /\ stream' = "none"
    /\ \E limit \in Limits : loop' = NewLoop(limit)
    /\ UNCHANGED errs

Restart ==
    /\ handler' = [handler EXCEPT !.state = "retrying", !.retries = @ + 1]
    /\ stage' = "round" /\ stream' = "none"
    /\ \E limit \in Limits : loop' = NewLoop(limit)
    /\ UNCHANGED errs

(* errChan has room for one error.                                         *)
Report(e) ==
    /\ handler' = [handler EXCEPT !.state = "closing"]
    /\ errs' = e \/ (ctxDone /\ UNCHANGED errs)
    /\ UNCHANGED <<conductor, stream>>

HandleError ==
    /\ Reading
    /\ \E e \in Errors :
          /\ \/ stream = "error" /\ e = loop.err /\ UNCHANGED fwd
             \/ Offered("error") /\ e = "server" /\ fwd' = Taken
          /\ IF MayRestart(e) THEN Restart ELSE Report(e)
    /\ UNCHANGED <<kind, data, writer, gone, ctxDone, history>>

HandleData ==
    /\ Reading /\ Offered("data")
    /\ fwd' = Taken
    /\ \/ /\ handler' = [handler EXCEPT !.state = "sending", !.sent = TRUE]
          /\ UNCHANGED <<errs, conductor, stream>>
       \/ Report("malformed")
    /\ UNCHANGED <<kind, data, writer, gone, ctxDone, history>>

HandleBlank ==
    /\ Reading /\ Offered("blank")
    /\ fwd' = Taken
    /\ UNCHANGED <<kind, conductor, stream, handler, channels, writer, gone, ctxDone, history>>

(* The stream has closed, or the context has ended.                        *)
HandlerReturns ==
    /\ \/ Reading /\ stream = "wrapped" /\ fwd.state = "done"
       \/ ctxDone /\ handler.state \in {"reading", "sending"}
    /\ handler' = [handler EXCEPT !.state = "closing"]
    /\ UNCHANGED <<kind, conductor, stream, fwd, channels, writer, gone, ctxDone, history>>

(* The deferred closes: the errors' channel first. A closed channel still  *)
(* gives what is in it.                                                    *)
HandlerCloses ==
    /\ handler.state = "closing"
    /\ handler' = [handler EXCEPT !.state = "done"]
    /\ data' = "closed"
    /\ UNCHANGED <<kind, conductor, stream, fwd, errs, writer, gone, ctxDone, history>>

-----------------------------------------------------------------------------
(* The HTTP handler waits for the first chunk (peek) to choose the status, *)
(* then forwards (ForwardStream).                                          *)

Writing == writer \in {"peek", "forward"}
Unwritten == UNCHANGED <<kind, conductor, stream, fwd, gone>>

WriteChunk ==
    /\ Writing /\ handler.state = "sending"
    /\ writer' = "forward"
    /\ handler' = [handler EXCEPT !.state = "reading"]
    /\ served' = served \cup {calls}
    /\ UNCHANGED <<channels, ctxDone, calls, mark, late, invalid>> /\ Unwritten

WriteError ==
    /\ Writing /\ errs # None
    /\ writer' = "failed" /\ ctxDone' = TRUE /\ errs' = None
    /\ UNCHANGED <<handler, data, history>> /\ Unwritten

(* When the data channel closes, forwarding looks for a pending error; the *)
(* peek loop does not.                                                     *)
WriteDone ==
    /\ Writing /\ data = "closed"
    /\ writer' = IF writer = "forward" /\ errs # None THEN "failed" ELSE "done"
    /\ ctxDone' = TRUE
    /\ UNCHANGED <<handler, channels, history>> /\ Unwritten

WriterGone ==
    /\ Writing /\ gone
    /\ writer' = "gone" /\ ctxDone' = TRUE
    /\ UNCHANGED <<handler, channels, history>> /\ Unwritten

(* The client leaves, and the goroutine of GetContextWithCancel notices.   *)
Disconnect ==
    /\ writer \in {"waiting", "peek", "forward"} /\ ~gone
    /\ gone' = TRUE
    /\ UNCHANGED <<kind, conductor, stream, fwd, handler, channels, writer, ctxDone, history>>

CancelContext ==
    /\ gone /\ ~ctxDone
    /\ ctxDone' = TRUE
    /\ UNCHANGED <<kind, conductor, stream, fwd, handler, channels, writer, gone, history>>

-----------------------------------------------------------------------------

Conductor ==
    \/ \E c \in Creds : Pick(c)
    \/ RoundEnds \/ Call
    \/ \E e \in UpstreamErrors : CallFails(e) \/ BootstrapFails(e)
    \/ CallCancelled \/ CallSucceeds \/ StreamOpens \/ BootstrapEmpty \/ BootstrapDone
    \/ Retry \/ WaitEnds \/ GiveUp \/ TryCredits \/ CreditsFail

Forwarding ==
    \/ \E chunk \in {"data", "error"} : ForwardReads(chunk)
    \/ ForwardEnds \/ ForwardStops

Handling == HandleError \/ HandleData \/ HandleBlank \/ HandlerReturns \/ HandlerCloses

Answering == WriteChunk \/ WriteError \/ WriteDone \/ WriterGone

(* Everything is over: the answer is written and no goroutine is left.     *)
Quiet ==
    /\ ~Writing /\ writer # "waiting" /\ stage = "idle"
    /\ handler.state \in {"idle", "done"} /\ fwd.state \in {"off", "done"}

Over == Quiet /\ UNCHANGED vars

Next ==
    \/ Conductor \/ Forwarding \/ Handling \/ Answering
    \/ Disconnect \/ CancelContext \/ Over

Spec == Init /\ [][Next]_vars

(* Every goroutine that can go on does, and upstreams answer and close     *)
(* their streams: there is no timeout of the request as a whole.           *)
FairSpec ==
    /\ Spec
    /\ WF_vars(Conductor) /\ WF_vars(Forwarding) /\ WF_vars(Handling)
    /\ WF_vars(Answering) /\ WF_vars(CancelContext)

-----------------------------------------------------------------------------

LoopType ==
    [limit : Limits, round : Nat, tried : SUBSET Creds, attempted : SUBSET Creds, cred : Creds \cup {None},
     left : Nat, err : Errors \cup {None}, chunked : BOOLEAN, credits : BOOLEAN,
     toTry : SUBSET Creds]

(* A credential in hand is one of the round's, with a model left to try.   *)
TypeOK ==
    /\ kind \in {"unary", "count", "stream"}
    /\ stage \in {"idle", "round", "ready", "call", "bootstrap", "failed", "waiting", "credits"}
    /\ loop \in LoopType
    /\ stage \in {"ready", "call", "bootstrap"} => loop.cred # None /\ loop.left > 0
    /\ stage = "failed" => loop.err # None
    /\ stream \in {"none", "error", "wrapped"}
    /\ fwd \in Forwarder
    /\ handler \in [state : {"idle", "reading", "sending", "retrying", "closing", "done"},
                    sent : BOOLEAN, retries : 0 .. MaxBootstrap]
    /\ errs \in Errors \cup {None} /\ data \in {"nil", "open", "closed"}
    /\ writer \in {"waiting", "peek", "forward", "answered", "done", "failed", "gone"}
    /\ gone \in BOOLEAN /\ ctxDone \in BOOLEAN
    /\ calls \in Nat /\ mark \in {None, "success", "failure"}
    /\ served \subseteq Nat /\ late \in Nat /\ invalid \in BOOLEAN

(* The work one request may cause is bounded by what is configured: every  *)
(* start of the stream (of which there are bootstrap-retries + 1) makes at *)
(* most as many rounds as the credential with the most retries allows, and *)
(* a round calls each model of each credential once.                       *)
Models(S) == Cardinality(UNION {{c} \X (1 .. Pool[c]) : c \in S})
Rounds == {0} \cup UNION {1 .. Retries[c] : c \in Creds}
CallsPerStart == Cardinality(Rounds) * Models(Creds) + Models(CreditCreds)

CallsBounded == calls <= (handler.retries + 1) * CallsPerStart

(* The client gets the bytes of one upstream call, the last one: when a    *)
(* byte has been sent, no other call is made for the request.              *)
OneSource == served \subseteq {calls}

(* An answer that ended well for the client is a success of the credential *)
(* that gave it, recorded before the client sees the end.                  *)
SuccessRecorded ==
    \/ writer = "answered"
    \/ writer = "done" /\ served # {} /\ ~gone
    => mark = "success"

(* When the client has left, at most one more credential is tried.         *)
CancelledStops == late <= 1

(* Each call has one result: it is recorded before the next call, unless   *)
(* the context ended, and never again.                                     *)
OneResult ==
    [][/\ calls' # calls => calls = 0 \/ mark # None \/ ctxDone
       /\ calls' = calls /\ mark # None => mark' = mark]_vars

(* "a client request error that should not be retried": an error that is   *)
(* the request's own fault ends it, whatever retry would still be allowed. *)
InvalidIsFinal == [][invalid => calls' = calls]_vars

(* Every request is answered or given up, and leaves no goroutine behind.  *)
Settles == <>[]Quiet

-----------------------------------------------------------------------------
(* What a comment of the code says and the code does not do.               *)

(* "Upstream failed immediately. Return proper error status and JSON.": a  *)
(* client that is still there is told of an error.                         *)
ErrorSurfaced == writer = "done" => errs = None
=============================================================================
