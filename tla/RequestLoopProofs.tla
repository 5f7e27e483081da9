------------------------- MODULE RequestLoopProofs -------------------------
(***************************************************************************)
(* Proofs about RequestLoop: its types, and that a request has one source, *)
(* one result per call, no retry of an invalid request, at most one        *)
(* attempt after its context has ended and no more upstream calls than the *)
(* settings allow, for any credentials, models, settings and streams.      *)
(***************************************************************************)
EXTENDS RequestLoop, FiniteSetTheorems, TLAPS

(* Who may be at work while who: Execute runs for the HTTP handler's first *)
(* call or for a bootstrap retry, and a stream that was wrapped is the     *)
(* last one of the request, because an error of the upstream before its    *)
(* first payload never gets as far as the forwarder.                       *)
Turns ==
    /\ stage # "idle" => handler.state \in {"idle", "retrying"}
    /\ handler.state \in {"reading", "sending"} => kind = "stream" /\ stream # "none"
    /\ stream = "wrapped" <=> fwd.state # "off"
    /\ stream = "wrapped" => stage = "idle" /\ kind = "stream"
    /\ stage = "bootstrap" => kind = "stream"
    /\ handler.state = "sending" => handler.sent
    /\ handler.sent => stream = "wrapped"
    /\ data = "closed" => handler.state = "done"
    /\ handler.state = "retrying" => stage # "idle"
    /\ loop.chunked => kind = "stream"
    /\ fwd.state = "off" => ~fwd.failed

(* The first payload a forwarder offers is no error; a stream that opens   *)
(* with a blank chunk has nothing else.                                    *)
NoErrorYet ==
    stream = "wrapped" /\ handler.state = "reading" /\ ~handler.sent =>
        /\ fwd.chunk # "error"
        /\ fwd.chunk = "blank" \/ fwd.state = "read" => fwd.left = 0

(* What the client has came from the last call, which was the last.        *)
ServedLast ==
    /\ served \subseteq {calls}
    /\ served # {} => stage = "idle"
    /\ served # {} /\ kind = "stream" => handler.sent

(* A call is open, or the forwarder owns its result, or it has its result. *)
Results ==
    /\ stage \in {"call", "bootstrap"} => mark = None
    /\ fwd.state \in {"offer", "read"} /\ ~fwd.failed => mark = None
    /\ stage \notin {"call", "bootstrap"} /\ stream # "wrapped" =>
          calls = 0 \/ mark # None \/ ctxDone

(* After an attempt has shown the request to be invalid there is only the  *)
(* way out, and no bootstrap retry follows it.                             *)
InvalidEnds ==
    invalid =>
        \/ /\ stage = "failed" /\ ~loop.chunked
           /\ loop.err \in Invalid \/ (loop.err = "cancelled" /\ ctxDone)
        \/ stage = "idle" /\ handler.state \notin {"reading", "sending"}

(* An attempt begun after the context has ended is the last one: what it   *)
(* returns with ends the request, or is a stream whose forwarder stops.    *)
LateEnds ==
    \/ late = 0
    \/ /\ late = 1 /\ ctxDone
       /\ \/ stage \in {"ready", "call", "bootstrap"} /\ ~loop.credits
          \/ stage = "failed" /\ ~loop.chunked /\ loop.err = "cancelled"
          \/ stage = "idle" /\ (handler.state \in {"reading", "sending"} => stream = "wrapped")

(* The credits fallback comes after the last round.                        *)
CreditsLast ==
    /\ loop.credits => stage \notin {"round", "failed", "waiting"}
    /\ stage = "credits" => loop.credits

(* What each goroutine may have left when the others end: a context ends   *)
(* with the client or the answer, success is recorded before the data      *)
(* channel closes.                                                         *)
Ends ==
    /\ ctxDone => gone \/ writer \in {"answered", "done", "failed", "gone"}
    /\ writer \in {"peek", "waiting"} /\ kind = "stream" => served = {}
    /\ writer = "answered" => mark = "success" /\ kind # "stream" /\ stage = "idle"
    /\ kind # "stream" => handler.state = "idle"
    /\ kind # "stream" /\ stage # "idle" => writer = "waiting"
    /\ writer = "done" => data = "closed"
    /\ fwd.state = "done" /\ ~ctxDone /\ ~fwd.failed => mark = "success"
    /\ handler.state \in {"reading", "sending"} /\ fwd.failed /\ ~ctxDone =>
          fwd.state = "offer" /\ fwd.chunk = "error"
    /\ Writing /\ handler.state \in {"closing", "done"} /\ served # {} /\ ~gone /\ errs = None =>
          mark = "success"
    /\ writer = "done" /\ served # {} /\ ~gone => mark = "success"

IInv == TypeOK /\ Turns /\ NoErrorYet /\ ServedLast /\ Results /\ InvalidEnds /\ LateEnds
        /\ CreditsLast /\ Ends

-----------------------------------------------------------------------------
(* What the updates of Execute's variables leave in their types.           *)
LEMMA LoopPicked ==
  ASSUME NEW l \in LoopType, NEW c \in Creds, NEW n \in Nat
  PROVE  /\ [l EXCEPT !.tried = @ \cup {c}] \in LoopType
         /\ [l EXCEPT !.tried = @ \cup {c}, !.attempted = @ \cup {c},
                      !.cred = c, !.left = n] \in LoopType
         /\ [l EXCEPT !.toTry = @ \ {c}, !.cred = c, !.left = n] \in LoopType
  BY DEF LoopType

LEMMA LoopFailed ==
  ASSUME NEW l \in LoopType, NEW e \in Errors \cup {None}, NEW b \in BOOLEAN
  PROVE  /\ [l EXCEPT !.err = e] \in LoopType
         /\ [l EXCEPT !.err = e, !.chunked = b, !.cred = None, !.left = 0] \in LoopType
         /\ [l EXCEPT !.cred = None, !.left = 0] \in LoopType
  BY DEF LoopType

LEMMA LoopNext ==
  ASSUME NEW l \in LoopType, NEW n \in Nat
  PROVE  [l EXCEPT !.left = n] \in LoopType
  BY DEF LoopType

LEMMA LoopCredits ==
  ASSUME NEW l \in LoopType
  PROVE  [l EXCEPT !.credits = TRUE, !.toTry = CreditCreds] \in LoopType
  BY LoopAssumption DEF LoopType

LEMMA LoopFields ==
  ASSUME NEW l \in LoopType
  PROVE  /\ l.limit \in Limits /\ l.round \in Nat
         /\ l.tried \in SUBSET Creds /\ l.attempted \in SUBSET Creds
         /\ l.cred \in Creds \cup {None} /\ l.left \in Nat /\ l.err \in Errors \cup {None}
         /\ l.chunked \in BOOLEAN /\ l.credits \in BOOLEAN /\ l.toTry \in SUBSET Creds
  BY DEF LoopType

LEMMA NewLoopType ==
  ASSUME NEW limit \in Limits, NEW r \in Nat
  PROVE  /\ NewLoop(limit) \in LoopType
         /\ [NewLoop(limit) EXCEPT !.round = r] \in LoopType
         /\ NewLoop(limit).err = None /\ NewLoop(limit).cred = None
         /\ NewLoop(limit).credits = FALSE
  BY DEF LoopType, NewLoop

LEMMA ErrorsInErrors ==
    /\ UpstreamErrors \subseteq Errors /\ Invalid \subseteq UpstreamErrors
    /\ "cancelled" \in Errors /\ "unavailable" \in Errors /\ "malformed" \in Errors
    /\ "server" \in UpstreamErrors /\ "server" \notin Invalid
    /\ "cancelled" \notin Invalid /\ "unavailable" \notin Invalid
    /\ None \notin Errors
  BY DEF Errors, UpstreamErrors, Invalid, None

LEMMA PoolType == ASSUME NEW c \in Creds PROVE Pool[c] \in Nat
  BY LoopAssumption

LEMMA InitIInv == Init => IInv
<1>. SUFFICES ASSUME Init PROVE IInv
  OBVIOUS
<1>1. TypeOK
  <2>1. loop \in LoopType /\ stage = "round"
    BY NewLoopType DEF Init
  <2>2. fwd \in Forwarder
    <3>1. 0 \in 0 .. MaxChunks
      BY LoopAssumption
    <3>. QED BY <3>1 DEF Init, NoForwarder, Forwarder
  <2>3. handler \in [state : {"idle", "reading", "sending", "retrying", "closing", "done"},
                     sent : BOOLEAN, retries : 0 .. MaxBootstrap]
    <3>1. 0 \in 0 .. MaxBootstrap
      BY LoopAssumption
    <3>. QED BY <3>1 DEF Init
  <2>. QED BY <2>1, <2>2, <2>3 DEF Init, TypeOK
<1>2. Turns /\ NoErrorYet /\ ServedLast /\ Results /\ InvalidEnds /\ LateEnds /\ CreditsLast /\ Ends
  BY DEF Init, Turns, NoErrorYet, ServedLast, Results, InvalidEnds, LateEnds, CreditsLast,
     Ends, NewLoop, NoForwarder, None, Writing
<1>. QED BY <1>1, <1>2 DEF IInv

-----------------------------------------------------------------------------
(* Execute, one action at a time.                                          *)
LEMMA PickStep == ASSUME IInv, NEW c \in Creds, Pick(c) PROVE IInv'
<1>1. TypeOK'
  <2>1. (/\ kind \in {"unary", "count", "stream"}
         /\ stage \in {"idle", "round", "ready", "call", "bootstrap", "failed", "waiting",
                      "credits"})'
    BY DEF IInv, Pick, Elsewhere, channels, TypeOK
  <2>2. (loop \in LoopType)'
    <3>1. PICK n \in 0 .. Pool[c] : IF n = 0
             THEN loop' = [loop EXCEPT !.tried = @ \cup {c}]
             ELSE loop' = [loop EXCEPT !.tried = @ \cup {c}, !.attempted = @ \cup {c},
                                       !.cred = c, !.left = n]
      BY DEF Pick
    <3>2. loop \in LoopType /\ n \in Nat /\ c \in Creds 
      BY PoolType DEF IInv, TypeOK
    <3>4. CASE n = 0
      BY <3>1, <3>2, <3>4, LoopPicked
    <3>5. CASE n # 0
      <4>1. [loop EXCEPT !.tried = @ \cup {c}, !.attempted = @ \cup {c},
                         !.cred = c, !.left = n] \in LoopType
        BY <3>2, LoopPicked
      <4>. QED BY <3>1, <3>5, <4>1
    <3>. QED BY <3>4, <3>5
  <2>3. (stage \in {"ready", "call", "bootstrap"} => loop.cred # None /\ loop.left > 0)'
    <3>1. PICK n \in 0 .. Pool[c] : IF n = 0
             THEN UNCHANGED stage
             ELSE loop' = [loop EXCEPT !.tried = @ \cup {c}, !.attempted = @ \cup {c},
                                       !.cred = c, !.left = n]
      BY DEF Pick
    <3>2. stage = "round" /\ loop \in LoopType /\ n \in Nat /\ c # None
      BY LoopAssumption, PoolType DEF IInv, TypeOK, Pick
    <3>3. CASE n # 0
      <4>1. loop'.cred = c /\ loop'.left = n
        BY <3>1, <3>2, <3>3 DEF LoopType
      <4>. QED BY <3>2, <3>3, <4>1
    <3>. QED BY <3>1, <3>2, <3>3
  <2>4. (stage = "failed" => loop.err # None)'
    BY DEF IInv, Pick, Elsewhere, channels, TypeOK, LoopType, None
  <2>5. (/\ stream \in {"none", "error", "wrapped"}
         /\ fwd \in Forwarder)'
    BY DEF IInv, Pick, Elsewhere, channels, TypeOK, Forwarder
  <2>6. (/\ handler \in [state : {"idle", "reading", "sending", "retrying", "closing", "done"},
                     sent : BOOLEAN, retries : 0 .. MaxBootstrap])'
    BY LoopAssumption DEF IInv, Pick, Elsewhere, channels, TypeOK
  <2>7. (/\ errs \in Errors \cup {None} /\ data \in {"nil", "open", "closed"}
         /\ writer \in {"waiting", "peek", "forward", "answered", "done", "failed", "gone"}
         /\ gone \in BOOLEAN /\ ctxDone \in BOOLEAN)'
    BY LoopAssumption DEF IInv, Pick, Elsewhere, channels, TypeOK, Errors,
       UpstreamErrors, Invalid
  <2>8. (/\ calls \in Nat /\ mark \in {None, "success", "failure"}
         /\ served \subseteq Nat /\ late \in Nat /\ invalid \in BOOLEAN)'
    BY DEF IInv, Pick, Elsewhere, channels, TypeOK, None
  <2>. QED BY <2>1, <2>2, <2>3, <2>4, <2>5, <2>6, <2>7, <2>8 DEF TypeOK
<1>2. Turns'
  BY DEF IInv, Pick, Elsewhere, channels, TypeOK, Turns, LoopType
<1>3. NoErrorYet'
  BY DEF IInv, Pick, Elsewhere, channels, NoErrorYet, Turns, TypeOK
<1>4. ServedLast'
  BY DEF IInv, Pick, Elsewhere, channels, ServedLast, Turns, TypeOK
<1>5. Results'
  BY DEF IInv, Pick, Elsewhere, channels, Results, Turns, TypeOK
<1>6. InvalidEnds'
  BY DEF IInv, Pick, Elsewhere, channels, InvalidEnds, Turns, TypeOK
<1>7. LateEnds'
  <2>1. PICK n \in 0 .. Pool[c] : IF n = 0
             THEN /\ loop' = [loop EXCEPT !.tried = @ \cup {c}]
                  /\ UNCHANGED <<stage, late>>
             ELSE /\ stage' = "ready"
                  /\ loop' = [loop EXCEPT !.tried = @ \cup {c}, !.attempted = @ \cup {c},
                                          !.cred = c, !.left = n]
                  /\ late' = IF ctxDone THEN late + 1 ELSE late
    BY DEF Pick
  <2>2. late = 0 /\ stage = "round" /\ ~loop.credits /\ loop \in LoopType /\ ctxDone' = ctxDone
    BY DEF IInv, TypeOK, LateEnds, CreditsLast, Pick, Elsewhere
  <2>3. loop'.credits = loop.credits
    BY <2>1, <2>2 DEF LoopType
  <2>4. late' = 0 \/ (late' = 1 /\ ctxDone /\ stage' = "ready")
    BY <2>1, <2>2
  <2>. QED BY <2>2, <2>3, <2>4 DEF LateEnds
<1>8. CreditsLast'
  BY DEF IInv, Pick, Elsewhere, channels, TypeOK, CreditsLast, LoopType
<1>9. Ends'
  BY DEF IInv, Pick, Elsewhere, channels, Ends, Turns, TypeOK, Writing
<1>. QED BY <1>1, <1>2, <1>3, <1>4, <1>5, <1>6, <1>7, <1>8, <1>9 DEF IInv

LEMMA RoundEndsStep == ASSUME IInv, RoundEnds PROVE IInv'
<1>1. TypeOK'
  <2>1. (/\ kind \in {"unary", "count", "stream"}
         /\ stage \in {"idle", "round", "ready", "call", "bootstrap", "failed", "waiting",
                      "credits"})'
    BY DEF IInv, RoundEnds, Elsewhere, channels, history, TypeOK
  <2>2. (loop \in LoopType)'
    BY LoopFailed, LoopFields, ErrorsInErrors DEF IInv, RoundEnds, Elsewhere, channels,
       history, TypeOK
  <2>3. (stage \in {"ready", "call", "bootstrap"} => loop.cred # None /\ loop.left > 0)'
    BY DEF IInv, RoundEnds, Elsewhere, channels, history, TypeOK, LoopType, None
  <2>4. (stage = "failed" => loop.err # None)'
    BY DEF IInv, RoundEnds, Elsewhere, channels, history, TypeOK, LoopType, None
  <2>5. (/\ stream \in {"none", "error", "wrapped"}
         /\ fwd \in Forwarder)'
    BY DEF IInv, RoundEnds, Elsewhere, channels, history, TypeOK, Forwarder
  <2>6. (/\ handler \in [state : {"idle", "reading", "sending", "retrying", "closing", "done"},
                     sent : BOOLEAN, retries : 0 .. MaxBootstrap])'
    BY LoopAssumption DEF IInv, RoundEnds, Elsewhere, channels, history, TypeOK
  <2>7. (/\ errs \in Errors \cup {None} /\ data \in {"nil", "open", "closed"}
         /\ writer \in {"waiting", "peek", "forward", "answered", "done", "failed", "gone"}
         /\ gone \in BOOLEAN /\ ctxDone \in BOOLEAN)'
    BY LoopAssumption DEF IInv, RoundEnds, Elsewhere, channels, history, TypeOK, Errors,
       UpstreamErrors, Invalid
  <2>8. (/\ calls \in Nat /\ mark \in {None, "success", "failure"}
         /\ served \subseteq Nat /\ late \in Nat /\ invalid \in BOOLEAN)'
    BY DEF IInv, RoundEnds, Elsewhere, channels, history, TypeOK, None
  <2>. QED BY <2>1, <2>2, <2>3, <2>4, <2>5, <2>6, <2>7, <2>8 DEF TypeOK
<1>2. Turns'
  BY DEF IInv, RoundEnds, Elsewhere, channels, history, Turns, TypeOK
<1>3. NoErrorYet'
  BY DEF IInv, RoundEnds, Elsewhere, channels, history, NoErrorYet, Turns, TypeOK
<1>4. ServedLast'
  BY DEF IInv, RoundEnds, Elsewhere, channels, history, ServedLast, Turns, TypeOK
<1>5. Results'
  BY DEF IInv, RoundEnds, Elsewhere, channels, history, Results, Turns, TypeOK
<1>6. InvalidEnds'
  BY DEF IInv, RoundEnds, Elsewhere, channels, history, InvalidEnds, Turns, TypeOK
<1>7. LateEnds'
  BY DEF IInv, RoundEnds, Elsewhere, channels, history, LateEnds, Turns, TypeOK
<1>8. CreditsLast'
  BY DEF IInv, RoundEnds, Elsewhere, channels, history, CreditsLast, TypeOK
<1>9. Ends'
  BY DEF IInv, RoundEnds, Elsewhere, channels, history, Ends, Turns, TypeOK, Writing
<1>. QED BY <1>1, <1>2, <1>3, <1>4, <1>5, <1>6, <1>7, <1>8, <1>9 DEF IInv

LEMMA CallStep == ASSUME IInv, Call PROVE IInv'
<1>1. TypeOK'
  BY DEF IInv, Call, Elsewhere, channels, TypeOK
<1>2. Turns'
  BY DEF IInv, Call, Elsewhere, channels, Turns, TypeOK
<1>3. NoErrorYet'
  BY DEF IInv, Call, Elsewhere, channels, NoErrorYet, Turns, TypeOK
<1>4. ServedLast'
  BY DEF IInv, Call, Elsewhere, channels, ServedLast, Turns, TypeOK
<1>5. Results'
  BY DEF IInv, Call, Elsewhere, channels, Results, Turns, TypeOK
<1>6. InvalidEnds'
  BY DEF IInv, Call, Elsewhere, channels, InvalidEnds, Turns, TypeOK
<1>7. LateEnds'
  BY DEF IInv, Call, Elsewhere, channels, LateEnds, Turns, TypeOK
<1>8. CreditsLast'
  BY DEF IInv, Call, Elsewhere, channels, CreditsLast, TypeOK
<1>9. Ends'
  BY DEF IInv, Call, Elsewhere, channels, Ends, Turns, TypeOK, Writing
<1>. QED BY <1>1, <1>2, <1>3, <1>4, <1>5, <1>6, <1>7, <1>8, <1>9 DEF IInv

(* A model of a credential fails, with a chunk of a stream or without.     *)
LEMMA FailureStep ==
  ASSUME IInv, NEW e \in UpstreamErrors, NEW chunked \in BOOLEAN,
         Failure(e, chunked),
         IF chunked THEN stage = "bootstrap" /\ (e = "server" \/ ~ctxDone)
         ELSE stage = "call" /\ (~ctxDone \/ (loop.credits /\ kind # "stream"))
  PROVE  IInv'
<1>1. TypeOK'
  <2>1. (/\ kind \in {"unary", "count", "stream"}
         /\ stage \in {"idle", "round", "ready", "call", "bootstrap", "failed", "waiting",
                      "credits"})'
    BY DEF IInv, Failure, CredentialFails, RoundFails, Final, Recorded, Elsewhere,
       channels, TypeOK
  <2>2. (loop \in LoopType)'
    <3>1. loop \in LoopType /\ loop.left \in Nat /\ e \in Errors \cup {None}
      BY LoopFields, ErrorsInErrors DEF IInv, TypeOK
    <3>2. /\ None \in Creds \cup {None} /\ 0 \in Nat
          /\ "cancelled" \in Errors \cup {None} /\ FALSE \in BOOLEAN
      BY ErrorsInErrors
    <3>3. CASE ~Final(e) /\ loop.left > 1
      <4>1. loop.left - 1 \in Nat /\ loop' = [loop EXCEPT !.left = loop.left - 1]
        BY <3>1, <3>3 DEF Failure
      <4>. QED BY <3>1, <4>1, LoopNext
    <3>4. CASE ~(~Final(e) /\ loop.left > 1)
      <4>1. CredentialFails(e, chunked /\ ~Final(e))
        BY <3>4 DEF Failure
      <4>2. (chunked /\ ~Final(e)) \in BOOLEAN
        OBVIOUS
      <4>3. \/ loop' = [loop EXCEPT !.cred = None, !.left = 0]
            \/ loop' = [loop EXCEPT !.err = "cancelled", !.chunked = FALSE, !.cred = None,
                                    !.left = 0]
            \/ loop' = [loop EXCEPT !.err = e, !.chunked = FALSE, !.cred = None, !.left = 0]
            \/ loop' = [loop EXCEPT !.err = e, !.chunked = (chunked /\ ~Final(e)), !.cred = None,
                                    !.left = 0]
        BY <4>1 DEF CredentialFails, RoundFails
      <4>. QED BY ZenonT(60), <3>1, <3>2, <4>2, <4>3, LoopFailed
    <3>. QED BY <3>3, <3>4
  <2>3. (stage \in {"ready", "call", "bootstrap"} => loop.cred # None /\ loop.left > 0)'
    BY DEF IInv, Failure, CredentialFails, RoundFails, Final, Recorded, Elsewhere,
       channels, TypeOK, LoopType, None
  <2>4. (stage = "failed" => loop.err # None)'
    <3>1. e # None /\ loop \in LoopType
      BY ErrorsInErrors DEF IInv, TypeOK
    <3>2. SUFFICES ASSUME stage' = "failed" PROVE loop'.err # None
      OBVIOUS
    <3>3. RoundFails("cancelled") \/ RoundFails(e)
      BY <3>2 DEF Failure, CredentialFails
    <3>. QED BY <3>1, <3>3 DEF RoundFails, LoopType, None
  <2>5. (/\ stream \in {"none", "error", "wrapped"}
         /\ fwd \in Forwarder)'
    BY DEF IInv, Failure, CredentialFails, RoundFails, Final, Recorded, Elsewhere,
       channels, TypeOK, Forwarder
  <2>6. (/\ handler \in [state : {"idle", "reading", "sending", "retrying", "closing", "done"},
                     sent : BOOLEAN, retries : 0 .. MaxBootstrap])'
    BY LoopAssumption DEF IInv, Failure, CredentialFails, RoundFails, Final, Recorded,
       Elsewhere, channels, TypeOK
  <2>7. (/\ errs \in Errors \cup {None} /\ data \in {"nil", "open", "closed"}
         /\ writer \in {"waiting", "peek", "forward", "answered", "done", "failed", "gone"}
         /\ gone \in BOOLEAN /\ ctxDone \in BOOLEAN)'
    BY LoopAssumption DEF IInv, Failure, CredentialFails, RoundFails, Final, Recorded,
       Elsewhere, channels, TypeOK, Errors, UpstreamErrors, Invalid
  <2>8. (/\ calls \in Nat /\ mark \in {None, "success", "failure"}
         /\ served \subseteq Nat /\ late \in Nat /\ invalid \in BOOLEAN)'
    BY DEF IInv, Failure, CredentialFails, RoundFails, Final, Recorded, Elsewhere,
       channels, TypeOK, Results
  <2>. QED BY <2>1, <2>2, <2>3, <2>4, <2>5, <2>6, <2>7, <2>8 DEF TypeOK
<1>2. Turns'
  <2>1. /\ stage' \in {"ready", "credits", "failed", "round"} /\ stage \in {"call", "bootstrap"}
        /\ UNCHANGED <<kind, stream, fwd, handler, data>>
    BY DEF Failure, CredentialFails, RoundFails, Elsewhere, channels
  <2>2. loop'.chunked => kind = "stream"
    <3>1. loop \in LoopType /\ (loop.chunked => kind = "stream") /\ (chunked => kind = "stream")
      BY DEF IInv, TypeOK, Turns
    <3>2. \/ loop' = [loop EXCEPT !.left = loop.left - 1]
          \/ CredentialFails(e, chunked /\ ~Final(e))
      BY DEF Failure
    <3>. QED BY <3>1, <3>2 DEF CredentialFails, RoundFails, LoopType
  <2>. QED BY <2>1, <2>2 DEF IInv, Turns
<1>3. NoErrorYet'
  BY DEF IInv, Failure, CredentialFails, RoundFails, Final, Recorded, Elsewhere,
     channels, NoErrorYet, Turns, TypeOK
<1>4. ServedLast'
  BY DEF IInv, Failure, CredentialFails, RoundFails, Final, Recorded, Elsewhere,
     channels, ServedLast, Turns, TypeOK
<1>5. Results'
  <2>1. /\ stage' \in {"ready", "credits", "failed", "round"} /\ mark = None
        /\ mark' = "failure" /\ stream # "wrapped" /\ stream' = stream /\ fwd' = fwd
    BY DEF IInv, Failure, CredentialFails, RoundFails, Final, Recorded, Elsewhere,
       channels, TypeOK, Turns, Results
  <2>2. fwd.state = "off" \/ fwd.state = "done"
    BY <2>1 DEF IInv, Turns
  <2>. QED BY <2>1, <2>2 DEF Results, None
<1>6. InvalidEnds'
  BY ErrorsInErrors DEF IInv, Failure, CredentialFails, RoundFails, Final, Recorded,
     Elsewhere, channels, TypeOK, InvalidEnds, Turns, LoopType
<1>7. LateEnds'
  BY ErrorsInErrors DEF IInv, Failure, CredentialFails, RoundFails, Final, Recorded,
     Elsewhere, channels, TypeOK, LateEnds, Turns, LoopType
<1>8. CreditsLast'
  BY DEF IInv, Failure, CredentialFails, RoundFails, Final, Recorded, Elsewhere,
     channels, TypeOK, CreditsLast, LoopType
<1>9. Ends'
  BY DEF IInv, Failure, CredentialFails, RoundFails, Final, Recorded, Elsewhere,
     channels, Ends, Turns, TypeOK, Writing
<1>. QED BY <1>1, <1>2, <1>3, <1>4, <1>5, <1>6, <1>7, <1>8, <1>9 DEF IInv

LEMMA CallCancelledStep == ASSUME IInv, CallCancelled PROVE IInv'
<1>1. TypeOK'
  <2>1. (/\ kind \in {"unary", "count", "stream"}
         /\ stage \in {"idle", "round", "ready", "call", "bootstrap", "failed", "waiting",
                      "credits"})'
    BY DEF IInv, CallCancelled, CredentialFails, RoundFails, Elsewhere, channels,
       history, TypeOK
  <2>2. (loop \in LoopType)'
    <3>1. loop \in LoopType
      BY DEF IInv, TypeOK
    <3>2. "cancelled" \in Errors \cup {None} /\ FALSE \in BOOLEAN
      BY ErrorsInErrors
    <3>3. \/ loop' = [loop EXCEPT !.cred = None, !.left = 0]
          \/ loop' = [loop EXCEPT !.err = "cancelled", !.chunked = FALSE, !.cred = None, !.left = 0]
      BY DEF CallCancelled, CredentialFails, RoundFails
    <3>. QED BY <3>1, <3>2, <3>3, LoopFailed
  <2>3. (stage \in {"ready", "call", "bootstrap"} => loop.cred # None /\ loop.left > 0)'
    BY DEF IInv, CallCancelled, CredentialFails, RoundFails, Elsewhere, channels,
       history, TypeOK, LoopType, None
  <2>4. (stage = "failed" => loop.err # None)'
    BY DEF IInv, CallCancelled, CredentialFails, RoundFails, Elsewhere, channels,
       history, TypeOK, LoopType, None
  <2>5. (/\ stream \in {"none", "error", "wrapped"}
         /\ fwd \in Forwarder)'
    BY DEF IInv, CallCancelled, CredentialFails, RoundFails, Elsewhere, channels,
       history, TypeOK, Forwarder
  <2>6. (/\ handler \in [state : {"idle", "reading", "sending", "retrying", "closing", "done"},
                     sent : BOOLEAN, retries : 0 .. MaxBootstrap])'
    BY LoopAssumption DEF IInv, CallCancelled, CredentialFails, RoundFails, Elsewhere,
       channels, history, TypeOK
  <2>7. (/\ errs \in Errors \cup {None} /\ data \in {"nil", "open", "closed"}
         /\ writer \in {"waiting", "peek", "forward", "answered", "done", "failed", "gone"}
         /\ gone \in BOOLEAN /\ ctxDone \in BOOLEAN)'
    BY LoopAssumption DEF IInv, CallCancelled, CredentialFails, RoundFails, Elsewhere,
       channels, history, TypeOK, Errors, UpstreamErrors, Invalid
  <2>8. (/\ calls \in Nat /\ mark \in {None, "success", "failure"}
         /\ served \subseteq Nat /\ late \in Nat /\ invalid \in BOOLEAN)'
    BY DEF IInv, CallCancelled, CredentialFails, RoundFails, Elsewhere, channels,
       history, TypeOK, None
  <2>. QED BY <2>1, <2>2, <2>3, <2>4, <2>5, <2>6, <2>7, <2>8 DEF TypeOK
<1>2. Turns'
  BY DEF IInv, CallCancelled, CredentialFails, RoundFails, Elsewhere, channels, history,
     TypeOK, Turns, LoopType
<1>3. NoErrorYet'
  BY DEF IInv, CallCancelled, CredentialFails, RoundFails, Elsewhere, channels, history,
     NoErrorYet, Turns, TypeOK
<1>4. ServedLast'
  BY DEF IInv, CallCancelled, CredentialFails, RoundFails, Elsewhere, channels, history,
     ServedLast, Turns, TypeOK
<1>5. Results'
  BY DEF IInv, CallCancelled, CredentialFails, RoundFails, Elsewhere, channels, history,
     Results, Turns, TypeOK
<1>6. InvalidEnds'
  BY DEF IInv, CallCancelled, CredentialFails, RoundFails, Elsewhere, channels, history,
     InvalidEnds, Turns, TypeOK
<1>7. LateEnds'
  BY DEF IInv, CallCancelled, CredentialFails, RoundFails, Elsewhere, channels, history,
     TypeOK, LateEnds, Turns, LoopType
<1>8. CreditsLast'
  BY DEF IInv, CallCancelled, CredentialFails, RoundFails, Elsewhere, channels, history,
     TypeOK, CreditsLast, LoopType
<1>9. Ends'
  BY DEF IInv, CallCancelled, CredentialFails, RoundFails, Elsewhere, channels, history,
     Ends, Turns, TypeOK, Writing
<1>. QED BY <1>1, <1>2, <1>3, <1>4, <1>5, <1>6, <1>7, <1>8, <1>9 DEF IInv

LEMMA CallSucceedsStep == ASSUME IInv, CallSucceeds PROVE IInv'
<1>1. TypeOK'
  <2>1. (/\ kind \in {"unary", "count", "stream"}
         /\ stage \in {"idle", "round", "ready", "call", "bootstrap", "failed", "waiting",
                      "credits"})'
    BY DEF IInv, CallSucceeds, Recorded, ReturnAnswer, channels, TypeOK
  <2>2. (loop \in LoopType)'
    BY DEF IInv, CallSucceeds, Recorded, ReturnAnswer, channels, TypeOK, LoopType, None
  <2>3. (stage \in {"ready", "call", "bootstrap"} => loop.cred # None /\ loop.left > 0)'
    BY DEF IInv, CallSucceeds, Recorded, ReturnAnswer, channels, TypeOK, LoopType, None
  <2>4. (stage = "failed" => loop.err # None)'
    BY DEF IInv, CallSucceeds, Recorded, ReturnAnswer, channels, TypeOK, LoopType, None
  <2>5. (/\ stream \in {"none", "error", "wrapped"}
         /\ fwd \in Forwarder)'
    BY DEF IInv, CallSucceeds, Recorded, ReturnAnswer, channels, TypeOK, Forwarder
  <2>6. (/\ handler \in [state : {"idle", "reading", "sending", "retrying", "closing", "done"},
                     sent : BOOLEAN, retries : 0 .. MaxBootstrap])'
    BY LoopAssumption DEF IInv, CallSucceeds, Recorded, ReturnAnswer, channels, TypeOK
  <2>7. (/\ errs \in Errors \cup {None} /\ data \in {"nil", "open", "closed"}
         /\ writer \in {"waiting", "peek", "forward", "answered", "done", "failed", "gone"}
         /\ gone \in BOOLEAN /\ ctxDone \in BOOLEAN)'
    BY LoopAssumption DEF IInv, CallSucceeds, Recorded, ReturnAnswer, channels, TypeOK,
       Errors, UpstreamErrors, Invalid
  <2>8. (/\ calls \in Nat /\ mark \in {None, "success", "failure"}
         /\ served \subseteq Nat /\ late \in Nat /\ invalid \in BOOLEAN)'
    BY DEF IInv, CallSucceeds, Recorded, ReturnAnswer, channels, TypeOK, Results
  <2>. QED BY <2>1, <2>2, <2>3, <2>4, <2>5, <2>6, <2>7, <2>8 DEF TypeOK
<1>2. Turns'
  BY DEF IInv, CallSucceeds, Recorded, ReturnAnswer, channels, TypeOK, Turns, Ends,
     LoopType
<1>3. NoErrorYet'
  BY DEF IInv, CallSucceeds, Recorded, ReturnAnswer, channels, NoErrorYet, Turns, TypeOK
<1>4. ServedLast'
  BY DEF IInv, CallSucceeds, Recorded, ReturnAnswer, channels, ServedLast, Turns, TypeOK
<1>5. Results'
  BY DEF IInv, CallSucceeds, Recorded, ReturnAnswer, channels, Results, Turns, TypeOK
<1>6. InvalidEnds'
  BY DEF IInv, CallSucceeds, Recorded, ReturnAnswer, channels, InvalidEnds, Turns, TypeOK
<1>7. LateEnds'
  BY DEF IInv, CallSucceeds, Recorded, ReturnAnswer, channels, LateEnds, Turns, TypeOK
<1>8. CreditsLast'
  BY DEF IInv, CallSucceeds, Recorded, ReturnAnswer, channels, CreditsLast, TypeOK
<1>9. Ends'
  BY DEF IInv, CallSucceeds, Recorded, ReturnAnswer, channels, TypeOK, Ends, Turns,
     Writing, Results
<1>. QED BY <1>1, <1>2, <1>3, <1>4, <1>5, <1>6, <1>7, <1>8, <1>9 DEF IInv

LEMMA StreamOpensStep == ASSUME IInv, StreamOpens PROVE IInv'
<1>1. TypeOK'
  BY DEF IInv, StreamOpens, Elsewhere, channels, history, TypeOK
<1>2. Turns'
  BY DEF IInv, StreamOpens, Elsewhere, channels, history, Turns, TypeOK
<1>3. NoErrorYet'
  BY DEF IInv, StreamOpens, Elsewhere, channels, history, NoErrorYet, Turns, TypeOK
<1>4. ServedLast'
  BY DEF IInv, StreamOpens, Elsewhere, channels, history, ServedLast, Turns, TypeOK
<1>5. Results'
  BY DEF IInv, StreamOpens, Elsewhere, channels, history, Results, Turns, TypeOK
<1>6. InvalidEnds'
  BY DEF IInv, StreamOpens, Elsewhere, channels, history, InvalidEnds, Turns, TypeOK
<1>7. LateEnds'
  BY DEF IInv, StreamOpens, Elsewhere, channels, history, LateEnds, Turns, TypeOK
<1>8. CreditsLast'
  BY DEF IInv, StreamOpens, Elsewhere, channels, history, CreditsLast, TypeOK
<1>9. Ends'
  BY DEF IInv, StreamOpens, Elsewhere, channels, history, Ends, Turns, TypeOK, Writing
<1>. QED BY <1>1, <1>2, <1>3, <1>4, <1>5, <1>6, <1>7, <1>8, <1>9 DEF IInv

LEMMA BootstrapDoneStep == ASSUME IInv, BootstrapDone PROVE IInv'
<1>1. TypeOK'
  <2>1. (/\ kind \in {"unary", "count", "stream"}
         /\ stage \in {"idle", "round", "ready", "call", "bootstrap", "failed", "waiting",
                      "credits"})'
    BY DEF IInv, BootstrapDone, ReturnStream, NoForwarder, history, TypeOK
  <2>2. (loop \in LoopType)'
    BY DEF IInv, BootstrapDone, ReturnStream, NoForwarder, history, TypeOK, LoopType, None
  <2>3. (stage \in {"ready", "call", "bootstrap"} => loop.cred # None /\ loop.left > 0)'
    BY DEF IInv, BootstrapDone, ReturnStream, NoForwarder, history, TypeOK, LoopType, None
  <2>4. (stage = "failed" => loop.err # None)'
    BY DEF IInv, BootstrapDone, ReturnStream, NoForwarder, history, TypeOK, LoopType, None
  <2>5. (/\ stream \in {"none", "error", "wrapped"}
         /\ fwd \in Forwarder)'
    <3>1. stream' = "wrapped"
      BY DEF BootstrapDone, ReturnStream
    <3>2. \/ \E n \in 0 .. MaxChunks : fwd' = [NoForwarder EXCEPT !.state = "offer", !.left = n]
          \/ fwd' = [NoForwarder EXCEPT !.state = "offer", !.chunk = "blank"]
      BY DEF BootstrapDone, ReturnStream
    <3>3. 0 \in 0 .. MaxChunks
      BY LoopAssumption
    <3>. QED BY <3>1, <3>2, <3>3 DEF NoForwarder, Forwarder
  <2>6. (/\ handler \in [state : {"idle", "reading", "sending", "retrying", "closing", "done"},
                     sent : BOOLEAN, retries : 0 .. MaxBootstrap])'
    BY LoopAssumption DEF IInv, BootstrapDone, ReturnStream, NoForwarder, history, TypeOK
  <2>7. (/\ errs \in Errors \cup {None} /\ data \in {"nil", "open", "closed"}
         /\ writer \in {"waiting", "peek", "forward", "answered", "done", "failed", "gone"}
         /\ gone \in BOOLEAN /\ ctxDone \in BOOLEAN)'
    BY LoopAssumption DEF IInv, BootstrapDone, ReturnStream, NoForwarder, history,
       TypeOK, Errors, UpstreamErrors, Invalid
  <2>8. (/\ calls \in Nat /\ mark \in {None, "success", "failure"}
         /\ served \subseteq Nat /\ late \in Nat /\ invalid \in BOOLEAN)'
    BY DEF IInv, BootstrapDone, ReturnStream, NoForwarder, history, TypeOK, None
  <2>. QED BY <2>1, <2>2, <2>3, <2>4, <2>5, <2>6, <2>7, <2>8 DEF TypeOK
<1>2. Turns'
  BY DEF IInv, BootstrapDone, ReturnStream, NoForwarder, history, Turns, TypeOK
<1>3. NoErrorYet'
  BY DEF IInv, BootstrapDone, ReturnStream, NoForwarder, history, NoErrorYet, Turns,
     TypeOK
<1>4. ServedLast'
  BY DEF IInv, BootstrapDone, ReturnStream, NoForwarder, history, ServedLast, Turns,
     TypeOK
<1>5. Results'
  BY DEF IInv, BootstrapDone, ReturnStream, NoForwarder, history, Results, Turns, TypeOK
<1>6. InvalidEnds'
  BY DEF IInv, BootstrapDone, ReturnStream, NoForwarder, history, InvalidEnds, Turns,
     TypeOK
<1>7. LateEnds'
  BY DEF IInv, BootstrapDone, ReturnStream, NoForwarder, history, LateEnds, Turns, TypeOK
<1>8. CreditsLast'
  BY DEF IInv, BootstrapDone, ReturnStream, NoForwarder, history, CreditsLast, TypeOK
<1>9. Ends'
  <2>1. (ctxDone => gone \/ writer \in {"answered", "done", "failed", "gone"})'
    BY DEF IInv, BootstrapDone, ReturnStream, NoForwarder, history, TypeOK, Turns, Ends,
       Writing, ServedLast
  <2>2. (writer \in {"peek", "waiting"} /\ kind = "stream" => served = {})'
    BY DEF IInv, BootstrapDone, ReturnStream, NoForwarder, history, TypeOK, Turns, Ends,
       Writing, ServedLast
  <2>3. (writer = "answered" => mark = "success" /\ kind # "stream" /\ stage = "idle")'
    BY DEF IInv, BootstrapDone, ReturnStream, NoForwarder, history, TypeOK, Turns, Ends,
       Writing, ServedLast
  <2>4. (kind # "stream" => handler.state = "idle")'
    BY DEF IInv, BootstrapDone, ReturnStream, NoForwarder, history, TypeOK, Turns, Ends,
       Writing, ServedLast
  <2>5. (kind # "stream" /\ stage # "idle" => writer = "waiting")'
    BY DEF IInv, BootstrapDone, ReturnStream, NoForwarder, history, TypeOK, Turns, Ends,
       Writing, ServedLast
  <2>6. (writer = "done" => data = "closed")'
    BY DEF IInv, BootstrapDone, ReturnStream, NoForwarder, history, TypeOK, Turns, Ends,
       Writing, ServedLast
  <2>7. (fwd.state = "done" /\ ~ctxDone /\ ~fwd.failed => mark = "success")'
    BY DEF IInv, BootstrapDone, ReturnStream, NoForwarder, history, TypeOK, Turns, Ends,
       Writing, ServedLast
  <2>8. (handler.state \in {"reading", "sending"} /\ fwd.failed /\ ~ctxDone =>
           fwd.state = "offer" /\ fwd.chunk = "error")'
    BY DEF IInv, BootstrapDone, ReturnStream, NoForwarder, history, TypeOK, Turns, Ends,
       Writing, ServedLast
  <2>9. (Writing /\ handler.state \in {"closing", "done"} /\ served # {} /\ ~gone /\ errs = None =>
           mark = "success")'
    BY DEF IInv, BootstrapDone, ReturnStream, NoForwarder, history, TypeOK, Turns, Ends,
       Writing, ServedLast
  <2>10. (writer = "done" /\ served # {} /\ ~gone => mark = "success")'
    BY DEF IInv, BootstrapDone, ReturnStream, NoForwarder, history, TypeOK, Turns, Ends,
       Writing, ServedLast
  <2>. QED BY <2>1, <2>2, <2>3, <2>4, <2>5, <2>6, <2>7, <2>8, <2>9, <2>10 DEF Ends
<1>. QED BY <1>1, <1>2, <1>3, <1>4, <1>5, <1>6, <1>7, <1>8, <1>9 DEF IInv

LEMMA RetryStep == ASSUME IInv, Retry PROVE IInv'
<1>1. TypeOK'
  <2>1. (/\ kind \in {"unary", "count", "stream"}
         /\ stage \in {"idle", "round", "ready", "call", "bootstrap", "failed", "waiting",
                      "credits"})'
    BY DEF IInv, Retry, ReturnError, Elsewhere, channels, history, TypeOK
  <2>2. (loop \in LoopType)'
    BY DEF IInv, Retry, ReturnError, Elsewhere, channels, history, TypeOK, LoopType, None
  <2>3. (stage \in {"ready", "call", "bootstrap"} => loop.cred # None /\ loop.left > 0)'
    BY DEF IInv, Retry, ReturnError, Elsewhere, channels, history, TypeOK, LoopType, None
  <2>4. (stage = "failed" => loop.err # None)'
    BY DEF IInv, Retry, ReturnError, Elsewhere, channels, history, TypeOK, LoopType, None
  <2>5. (/\ stream \in {"none", "error", "wrapped"}
         /\ fwd \in Forwarder)'
    BY DEF IInv, Retry, ReturnError, Elsewhere, channels, history, TypeOK, Forwarder
  <2>6. (/\ handler \in [state : {"idle", "reading", "sending", "retrying", "closing", "done"},
                     sent : BOOLEAN, retries : 0 .. MaxBootstrap])'
    BY LoopAssumption DEF IInv, Retry, ReturnError, Elsewhere, channels, history, TypeOK
  <2>7. (/\ errs \in Errors \cup {None} /\ data \in {"nil", "open", "closed"}
         /\ writer \in {"waiting", "peek", "forward", "answered", "done", "failed", "gone"}
         /\ gone \in BOOLEAN /\ ctxDone \in BOOLEAN)'
    BY LoopAssumption DEF IInv, Retry, ReturnError, Elsewhere, channels, history,
       TypeOK, Errors, UpstreamErrors, Invalid
  <2>8. (/\ calls \in Nat /\ mark \in {None, "success", "failure"}
         /\ served \subseteq Nat /\ late \in Nat /\ invalid \in BOOLEAN)'
    BY DEF IInv, Retry, ReturnError, Elsewhere, channels, history, TypeOK, None
  <2>. QED BY <2>1, <2>2, <2>3, <2>4, <2>5, <2>6, <2>7, <2>8 DEF TypeOK
<1>2. Turns'
  BY DEF IInv, Retry, ReturnError, Elsewhere, channels, history, TypeOK, Turns, Ends,
     LoopType
<1>3. NoErrorYet'
  BY DEF IInv, Retry, ReturnError, Elsewhere, channels, history, NoErrorYet, Turns, TypeOK
<1>4. ServedLast'
  BY DEF IInv, Retry, ReturnError, Elsewhere, channels, history, ServedLast, Turns, TypeOK
<1>5. Results'
  BY DEF IInv, Retry, ReturnError, Elsewhere, channels, history, Results, Turns, TypeOK
<1>6. InvalidEnds'
  BY DEF IInv, Retry, ReturnError, Elsewhere, channels, history, InvalidEnds, Turns,
     TypeOK
<1>7. LateEnds'
  BY DEF IInv, Retry, ReturnError, Elsewhere, channels, history, LateEnds, Turns, TypeOK
<1>8. CreditsLast'
  BY DEF IInv, Retry, ReturnError, Elsewhere, channels, history, CreditsLast, TypeOK
<1>9. Ends'
  BY DEF IInv, Retry, ReturnError, Elsewhere, channels, history, Ends, Turns, TypeOK,
     Writing
<1>. QED BY <1>1, <1>2, <1>3, <1>4, <1>5, <1>6, <1>7, <1>8, <1>9 DEF IInv

LEMMA WaitEndsStep == ASSUME IInv, WaitEnds PROVE IInv'
<1>1. TypeOK'
  <2>1. (/\ kind \in {"unary", "count", "stream"}
         /\ stage \in {"idle", "round", "ready", "call", "bootstrap", "failed", "waiting",
                      "credits"})'
    BY DEF IInv, WaitEnds, NewLoop, ReturnError, Elsewhere, channels, history, TypeOK
  <2>2. (loop \in LoopType)'
    <3>1. loop \in LoopType /\ loop.limit \in Limits /\ loop.round + 1 \in Nat
      BY LoopFields DEF IInv, TypeOK
    <3>. QED BY <3>1, NewLoopType DEF WaitEnds
  <2>3. (stage \in {"ready", "call", "bootstrap"} => loop.cred # None /\ loop.left > 0)'
    BY DEF IInv, WaitEnds, NewLoop, ReturnError, Elsewhere, channels, history, TypeOK,
       LoopType, None
  <2>4. (stage = "failed" => loop.err # None)'
    BY DEF IInv, WaitEnds, NewLoop, ReturnError, Elsewhere, channels, history, TypeOK,
       LoopType, None
  <2>5. (/\ stream \in {"none", "error", "wrapped"}
         /\ fwd \in Forwarder)'
    BY DEF IInv, WaitEnds, NewLoop, ReturnError, Elsewhere, channels, history, TypeOK,
       Forwarder
  <2>6. (/\ handler \in [state : {"idle", "reading", "sending", "retrying", "closing", "done"},
                     sent : BOOLEAN, retries : 0 .. MaxBootstrap])'
    BY LoopAssumption DEF IInv, WaitEnds, NewLoop, ReturnError, Elsewhere, channels,
       history, TypeOK
  <2>7. (/\ errs \in Errors \cup {None} /\ data \in {"nil", "open", "closed"}
         /\ writer \in {"waiting", "peek", "forward", "answered", "done", "failed", "gone"}
         /\ gone \in BOOLEAN /\ ctxDone \in BOOLEAN)'
    BY ZenonT(60), LoopAssumption DEF IInv, WaitEnds, NewLoop, ReturnError, Elsewhere, channels,
       history, TypeOK, Errors, UpstreamErrors, Invalid
  <2>8. (/\ calls \in Nat /\ mark \in {None, "success", "failure"}
         /\ served \subseteq Nat /\ late \in Nat /\ invalid \in BOOLEAN)'
    BY DEF IInv, WaitEnds, NewLoop, ReturnError, Elsewhere, channels, history, TypeOK,
       None
  <2>. QED BY <2>1, <2>2, <2>3, <2>4, <2>5, <2>6, <2>7, <2>8 DEF TypeOK
<1>2. Turns'
  BY DEF IInv, WaitEnds, NewLoop, ReturnError, Elsewhere, channels, history, TypeOK,
     Turns, Ends, LoopType
<1>3. NoErrorYet'
  BY DEF IInv, WaitEnds, NewLoop, ReturnError, Elsewhere, channels, history, NoErrorYet,
     Turns, TypeOK
<1>4. ServedLast'
  BY DEF IInv, WaitEnds, NewLoop, ReturnError, Elsewhere, channels, history, ServedLast,
     Turns, TypeOK
<1>5. Results'
  BY DEF IInv, WaitEnds, NewLoop, ReturnError, Elsewhere, channels, history, Results,
     Turns, TypeOK
<1>6. InvalidEnds'
  BY DEF IInv, WaitEnds, NewLoop, ReturnError, Elsewhere, channels, history,
     InvalidEnds, Turns, TypeOK
<1>7. LateEnds'
  BY DEF IInv, WaitEnds, NewLoop, ReturnError, Elsewhere, channels, history, LateEnds,
     Turns, TypeOK
<1>8. CreditsLast'
  BY DEF IInv, WaitEnds, NewLoop, ReturnError, Elsewhere, channels, history,
     CreditsLast, TypeOK
<1>9. Ends'
  BY DEF IInv, WaitEnds, NewLoop, ReturnError, Elsewhere, channels, history, Ends,
     Turns, TypeOK, Writing
<1>. QED BY <1>1, <1>2, <1>3, <1>4, <1>5, <1>6, <1>7, <1>8, <1>9 DEF IInv

LEMMA GiveUpStep == ASSUME IInv, GiveUp PROVE IInv'
<1>1. TypeOK'
  <2>1. (/\ kind \in {"unary", "count", "stream"}
         /\ stage \in {"idle", "round", "ready", "call", "bootstrap", "failed", "waiting",
                      "credits"})'
    BY DEF IInv, GiveUp, Return, ReturnStream, ReturnError, Elsewhere, channels,
       history, TypeOK
  <2>2. (loop \in LoopType)'
    <3>1. loop \in LoopType /\ CreditCreds \in SUBSET Creds
      BY LoopAssumption DEF IInv, TypeOK
    <3>. QED BY <3>1, LoopCredits DEF GiveUp, Return, ReturnStream, ReturnError
  <2>3. (stage \in {"ready", "call", "bootstrap"} => loop.cred # None /\ loop.left > 0)'
    BY DEF IInv, GiveUp, Return, ReturnStream, ReturnError, Elsewhere, channels,
       history, TypeOK, LoopType, None
  <2>4. (stage = "failed" => loop.err # None)'
    BY DEF IInv, GiveUp, Return, ReturnStream, ReturnError, Elsewhere, channels,
       history, TypeOK, LoopType, None
  <2>5. (/\ stream \in {"none", "error", "wrapped"}
         /\ fwd \in Forwarder)'
    BY DEF IInv, GiveUp, Return, ReturnStream, ReturnError, Elsewhere, channels,
       history, TypeOK, Forwarder
  <2>6. (/\ handler \in [state : {"idle", "reading", "sending", "retrying", "closing", "done"},
                     sent : BOOLEAN, retries : 0 .. MaxBootstrap])'
    BY LoopAssumption DEF IInv, GiveUp, Return, ReturnStream, ReturnError, Elsewhere,
       channels, history, TypeOK
  <2>7. (/\ errs \in Errors \cup {None} /\ data \in {"nil", "open", "closed"}
         /\ writer \in {"waiting", "peek", "forward", "answered", "done", "failed", "gone"}
         /\ gone \in BOOLEAN /\ ctxDone \in BOOLEAN)'
    BY LoopFields DEF IInv, GiveUp, Return, ReturnStream, ReturnError, Elsewhere,
       channels, history, TypeOK, LoopType
  <2>8. (/\ calls \in Nat /\ mark \in {None, "success", "failure"}
         /\ served \subseteq Nat /\ late \in Nat /\ invalid \in BOOLEAN)'
    BY DEF IInv, GiveUp, Return, ReturnStream, ReturnError, Elsewhere, channels,
       history, TypeOK, None
  <2>. QED BY <2>1, <2>2, <2>3, <2>4, <2>5, <2>6, <2>7, <2>8 DEF TypeOK
<1>2. Turns'
  BY ZenonT(60) DEF IInv, GiveUp, Return, ReturnStream, ReturnError, Elsewhere, channels, history,
     TypeOK, Turns, Ends, LoopType
<1>3. NoErrorYet'
  BY DEF IInv, GiveUp, Return, ReturnStream, ReturnError, Elsewhere, channels, history,
     NoErrorYet, Turns, TypeOK
<1>4. ServedLast'
  BY DEF IInv, GiveUp, Return, ReturnStream, ReturnError, Elsewhere, channels, history,
     ServedLast, Turns, TypeOK
<1>5. Results'
  BY DEF IInv, GiveUp, Return, ReturnStream, ReturnError, Elsewhere, channels, history,
     Results, Turns, TypeOK
<1>6. InvalidEnds'
  BY DEF IInv, GiveUp, Return, ReturnStream, ReturnError, Elsewhere, channels, history,
     TypeOK, InvalidEnds, Turns, LoopType, Invalid, CreditsEligible
<1>7. LateEnds'
  BY DEF IInv, GiveUp, Return, ReturnStream, ReturnError, Elsewhere, channels, history,
     TypeOK, LateEnds, Turns, LoopType, CreditsEligible
<1>8. CreditsLast'
  BY DEF IInv, GiveUp, Return, ReturnStream, ReturnError, Elsewhere, channels, history,
     TypeOK, CreditsLast, LoopType
<1>9. Ends'
  <2>1. (ctxDone => gone \/ writer \in {"answered", "done", "failed", "gone"})'
    BY DEF IInv, GiveUp, Return, ReturnStream, ReturnError, Elsewhere, channels,
       history, TypeOK, Turns, Ends, Writing, ServedLast, LoopType
  <2>2. (writer \in {"peek", "waiting"} /\ kind = "stream" => served = {})'
    BY DEF IInv, GiveUp, Return, ReturnStream, ReturnError, Elsewhere, channels,
       history, TypeOK, Turns, Ends, Writing, ServedLast, LoopType
  <2>3. (writer = "answered" => mark = "success" /\ kind # "stream" /\ stage = "idle")'
    BY DEF IInv, GiveUp, Return, ReturnStream, ReturnError, Elsewhere, channels,
       history, TypeOK, Turns, Ends, Writing, ServedLast, LoopType
  <2>4. (kind # "stream" => handler.state = "idle")'
    BY DEF IInv, GiveUp, Return, ReturnStream, ReturnError, Elsewhere, channels,
       history, TypeOK, Turns, Ends, Writing, ServedLast, LoopType
  <2>5. (kind # "stream" /\ stage # "idle" => writer = "waiting")'
    BY DEF IInv, GiveUp, Return, ReturnStream, ReturnError, Elsewhere, channels,
       history, TypeOK, Turns, Ends, Writing, ServedLast, LoopType
  <2>6. (writer = "done" => data = "closed")'
    BY DEF IInv, GiveUp, Return, ReturnStream, ReturnError, Elsewhere, channels,
       history, TypeOK, Turns, Ends, Writing, ServedLast, LoopType
  <2>7. (fwd.state = "done" /\ ~ctxDone /\ ~fwd.failed => mark = "success")'
    BY DEF IInv, GiveUp, Return, ReturnStream, ReturnError, Elsewhere, channels,
       history, TypeOK, Turns, Ends, Writing, ServedLast, LoopType
  <2>8. (handler.state \in {"reading", "sending"} /\ fwd.failed /\ ~ctxDone =>
           fwd.state = "offer" /\ fwd.chunk = "error")'
    BY DEF IInv, GiveUp, Return, ReturnStream, ReturnError, Elsewhere, channels,
       history, TypeOK, Turns, Ends, Writing, ServedLast, LoopType
  <2>9. (Writing /\ handler.state \in {"closing", "done"} /\ served # {} /\ ~gone /\ errs = None =>
           mark = "success")'
    BY DEF IInv, GiveUp, Return, ReturnStream, ReturnError, Elsewhere, channels,
       history, TypeOK, Turns, Ends, Writing, ServedLast, LoopType
  <2>10. (writer = "done" /\ served # {} /\ ~gone => mark = "success")'
    BY DEF IInv, GiveUp, Return, ReturnStream, ReturnError, Elsewhere, channels,
       history, TypeOK, Turns, Ends, Writing, ServedLast, LoopType
  <2>. QED BY <2>1, <2>2, <2>3, <2>4, <2>5, <2>6, <2>7, <2>8, <2>9, <2>10 DEF Ends
<1>. QED BY <1>1, <1>2, <1>3, <1>4, <1>5, <1>6, <1>7, <1>8, <1>9 DEF IInv

LEMMA TryCreditsStep == ASSUME IInv, TryCredits PROVE IInv'
<1>1. TypeOK'
  <2>1. (/\ kind \in {"unary", "count", "stream"}
         /\ stage \in {"idle", "round", "ready", "call", "bootstrap", "failed", "waiting",
                      "credits"})'
    BY DEF IInv, TryCredits, Elsewhere, channels, history, TypeOK
  <2>2. (loop \in LoopType)'
    <3>1. loop \in LoopType
      BY DEF IInv, TypeOK
    <3>2. PICK c \in loop.toTry :
             loop' = [loop EXCEPT !.toTry = @ \ {c}, !.cred = c, !.left = Pool[c]]
      BY DEF TryCredits
    <3>3. c \in Creds /\ Pool[c] \in Nat
      BY <3>1, <3>2, LoopFields, PoolType
    <3>. QED BY <3>1, <3>2, <3>3, LoopPicked
  <2>3. (stage \in {"ready", "call", "bootstrap"} => loop.cred # None /\ loop.left > 0)'
    BY LoopAssumption, PoolType, LoopFields DEF IInv, TryCredits, Elsewhere, channels,
       history, TypeOK, LoopType
  <2>4. (stage = "failed" => loop.err # None)'
    BY DEF IInv, TryCredits, Elsewhere, channels, history, TypeOK, LoopType, None
  <2>5. (/\ stream \in {"none", "error", "wrapped"}
         /\ fwd \in Forwarder)'
    BY DEF IInv, TryCredits, Elsewhere, channels, history, TypeOK, Forwarder
  <2>6. (/\ handler \in [state : {"idle", "reading", "sending", "retrying", "closing", "done"},
                     sent : BOOLEAN, retries : 0 .. MaxBootstrap])'
    BY LoopAssumption DEF IInv, TryCredits, Elsewhere, channels, history, TypeOK
  <2>7. (/\ errs \in Errors \cup {None} /\ data \in {"nil", "open", "closed"}
         /\ writer \in {"waiting", "peek", "forward", "answered", "done", "failed", "gone"}
         /\ gone \in BOOLEAN /\ ctxDone \in BOOLEAN)'
    BY LoopAssumption DEF IInv, TryCredits, Elsewhere, channels, history, TypeOK,
       Errors, UpstreamErrors, Invalid
  <2>8. (/\ calls \in Nat /\ mark \in {None, "success", "failure"}
         /\ served \subseteq Nat /\ late \in Nat /\ invalid \in BOOLEAN)'
    BY DEF IInv, TryCredits, Elsewhere, channels, history, TypeOK, None
  <2>. QED BY <2>1, <2>2, <2>3, <2>4, <2>5, <2>6, <2>7, <2>8 DEF TypeOK
<1>2. Turns'
  BY DEF IInv, TryCredits, Elsewhere, channels, history, Turns, TypeOK
<1>3. NoErrorYet'
  BY DEF IInv, TryCredits, Elsewhere, channels, history, NoErrorYet, Turns, TypeOK
<1>4. ServedLast'
  BY DEF IInv, TryCredits, Elsewhere, channels, history, ServedLast, Turns, TypeOK
<1>5. Results'
  BY DEF IInv, TryCredits, Elsewhere, channels, history, Results, Turns, TypeOK
<1>6. InvalidEnds'
  BY DEF IInv, TryCredits, Elsewhere, channels, history, InvalidEnds, Turns, TypeOK
<1>7. LateEnds'
  BY DEF IInv, TryCredits, Elsewhere, channels, history, LateEnds, Turns, TypeOK
<1>8. CreditsLast'
  BY DEF IInv, TryCredits, Elsewhere, channels, history, CreditsLast, TypeOK
<1>9. Ends'
  BY DEF IInv, TryCredits, Elsewhere, channels, history, Ends, Turns, TypeOK, Writing
<1>. QED BY <1>1, <1>2, <1>3, <1>4, <1>5, <1>6, <1>7, <1>8, <1>9 DEF IInv

LEMMA CreditsFailStep == ASSUME IInv, CreditsFail PROVE IInv'
<1>1. TypeOK'
  <2>1. (/\ kind \in {"unary", "count", "stream"}
         /\ stage \in {"idle", "round", "ready", "call", "bootstrap", "failed", "waiting",
                      "credits"})'
    BY DEF IInv, CreditsFail, Return, ReturnStream, ReturnError, channels, history, TypeOK
  <2>2. (loop \in LoopType)'
    BY DEF IInv, CreditsFail, Return, ReturnStream, ReturnError, channels, history,
       TypeOK, LoopType, None
  <2>3. (stage \in {"ready", "call", "bootstrap"} => loop.cred # None /\ loop.left > 0)'
    BY DEF IInv, CreditsFail, Return, ReturnStream, ReturnError, channels, history,
       TypeOK, LoopType, None
  <2>4. (stage = "failed" => loop.err # None)'
    BY DEF IInv, CreditsFail, Return, ReturnStream, ReturnError, channels, history,
       TypeOK, LoopType, None
  <2>5. (/\ stream \in {"none", "error", "wrapped"}
         /\ fwd \in Forwarder)'
    BY DEF IInv, CreditsFail, Return, ReturnStream, ReturnError, channels, history,
       TypeOK, Forwarder
  <2>6. (/\ handler \in [state : {"idle", "reading", "sending", "retrying", "closing", "done"},
                     sent : BOOLEAN, retries : 0 .. MaxBootstrap])'
    BY LoopAssumption DEF IInv, CreditsFail, Return, ReturnStream, ReturnError,
       channels, history, TypeOK
  <2>7. (/\ errs \in Errors \cup {None} /\ data \in {"nil", "open", "closed"}
         /\ writer \in {"waiting", "peek", "forward", "answered", "done", "failed", "gone"}
         /\ gone \in BOOLEAN /\ ctxDone \in BOOLEAN)'
    BY LoopFields DEF IInv, CreditsFail, Return, ReturnStream, ReturnError, channels,
       history, TypeOK, LoopType
  <2>8. (/\ calls \in Nat /\ mark \in {None, "success", "failure"}
         /\ served \subseteq Nat /\ late \in Nat /\ invalid \in BOOLEAN)'
    BY DEF IInv, CreditsFail, Return, ReturnStream, ReturnError, channels, history,
       TypeOK, None
  <2>. QED BY <2>1, <2>2, <2>3, <2>4, <2>5, <2>6, <2>7, <2>8 DEF TypeOK
<1>2. Turns'
  BY DEF IInv, CreditsFail, Return, ReturnStream, ReturnError, channels, history,
     TypeOK, Turns, Ends, LoopType
<1>3. NoErrorYet'
  BY DEF IInv, CreditsFail, Return, ReturnStream, ReturnError, channels, history,
     NoErrorYet, Turns, TypeOK
<1>4. ServedLast'
  BY DEF IInv, CreditsFail, Return, ReturnStream, ReturnError, channels, history,
     ServedLast, Turns, TypeOK
<1>5. Results'
  BY DEF IInv, CreditsFail, Return, ReturnStream, ReturnError, channels, history,
     Results, Turns, TypeOK
<1>6. InvalidEnds'
  BY DEF IInv, CreditsFail, Return, ReturnStream, ReturnError, channels, history,
     InvalidEnds, Turns, TypeOK
<1>7. LateEnds'
  BY DEF IInv, CreditsFail, Return, ReturnStream, ReturnError, channels, history,
     LateEnds, Turns, TypeOK
<1>8. CreditsLast'
  BY DEF IInv, CreditsFail, Return, ReturnStream, ReturnError, channels, history,
     CreditsLast, TypeOK
<1>9. Ends'
  <2>1. (ctxDone => gone \/ writer \in {"answered", "done", "failed", "gone"})'
    BY DEF IInv, CreditsFail, Return, ReturnStream, ReturnError, channels, history,
       TypeOK, Turns, Ends, Writing, ServedLast, LoopType
  <2>2. (writer \in {"peek", "waiting"} /\ kind = "stream" => served = {})'
    BY DEF IInv, CreditsFail, Return, ReturnStream, ReturnError, channels, history,
       TypeOK, Turns, Ends, Writing, ServedLast, LoopType
  <2>3. (writer = "answered" => mark = "success" /\ kind # "stream" /\ stage = "idle")'
    BY DEF IInv, CreditsFail, Return, ReturnStream, ReturnError, channels, history,
       TypeOK, Turns, Ends, Writing, ServedLast, LoopType
  <2>4. (kind # "stream" => handler.state = "idle")'
    BY DEF IInv, CreditsFail, Return, ReturnStream, ReturnError, channels, history,
       TypeOK, Turns, Ends, Writing, ServedLast, LoopType
  <2>5. (kind # "stream" /\ stage # "idle" => writer = "waiting")'
    BY DEF IInv, CreditsFail, Return, ReturnStream, ReturnError, channels, history,
       TypeOK, Turns, Ends, Writing, ServedLast, LoopType
  <2>6. (writer = "done" => data = "closed")'
    BY DEF IInv, CreditsFail, Return, ReturnStream, ReturnError, channels, history,
       TypeOK, Turns, Ends, Writing, ServedLast, LoopType
  <2>7. (fwd.state = "done" /\ ~ctxDone /\ ~fwd.failed => mark = "success")'
    BY DEF IInv, CreditsFail, Return, ReturnStream, ReturnError, channels, history,
       TypeOK, Turns, Ends, Writing, ServedLast, LoopType
  <2>8. (handler.state \in {"reading", "sending"} /\ fwd.failed /\ ~ctxDone =>
           fwd.state = "offer" /\ fwd.chunk = "error")'
    BY DEF IInv, CreditsFail, Return, ReturnStream, ReturnError, channels, history,
       TypeOK, Turns, Ends, Writing, ServedLast, LoopType
  <2>9. (Writing /\ handler.state \in {"closing", "done"} /\ served # {} /\ ~gone /\ errs = None =>
           mark = "success")'
    BY DEF IInv, CreditsFail, Return, ReturnStream, ReturnError, channels, history,
       TypeOK, Turns, Ends, Writing, ServedLast, LoopType
  <2>10. (writer = "done" /\ served # {} /\ ~gone => mark = "success")'
    BY DEF IInv, CreditsFail, Return, ReturnStream, ReturnError, channels, history,
       TypeOK, Turns, Ends, Writing, ServedLast, LoopType
  <2>. QED BY <2>1, <2>2, <2>3, <2>4, <2>5, <2>6, <2>7, <2>8, <2>9, <2>10 DEF Ends
<1>. QED BY <1>1, <1>2, <1>3, <1>4, <1>5, <1>6, <1>7, <1>8, <1>9 DEF IInv

-----------------------------------------------------------------------------
(* The stream's forwarder.                                                 *)
LEMMA ForwardReadsStep ==
  ASSUME IInv, NEW chunk \in {"data", "error"}, ForwardReads(chunk)
  PROVE IInv'
<1>1. TypeOK'
  <2>1. (/\ kind \in {"unary", "count", "stream"}
         /\ stage \in {"idle", "round", "ready", "call", "bootstrap", "failed", "waiting",
                      "credits"})'
    BY DEF IInv, ForwardReads, Recorded, Nobody, conductor, channels, TypeOK
  <2>2. (loop \in LoopType)'
    BY DEF IInv, ForwardReads, Recorded, Nobody, conductor, channels, TypeOK, LoopType,
       None
  <2>3. (stage \in {"ready", "call", "bootstrap"} => loop.cred # None /\ loop.left > 0)'
    BY DEF IInv, ForwardReads, Recorded, Nobody, conductor, channels, TypeOK, LoopType,
       None
  <2>4. (stage = "failed" => loop.err # None)'
    BY DEF IInv, ForwardReads, Recorded, Nobody, conductor, channels, TypeOK, LoopType,
       None
  <2>5. (/\ stream \in {"none", "error", "wrapped"}
         /\ fwd \in Forwarder)'
    <3>1. fwd \in Forwarder /\ fwd.left > 0 /\ stream' = stream
      BY DEF IInv, TypeOK, ForwardReads, Nobody
    <3>2. fwd.left - 1 \in 0 .. MaxChunks /\ (fwd.failed \/ chunk = "error") \in BOOLEAN
      BY <3>1, LoopAssumption DEF Forwarder
    <3>3. fwd' = [state |-> "offer", chunk |-> chunk,
                  failed |-> (fwd.failed \/ chunk = "error"), left |-> fwd.left - 1]
      BY <3>1 DEF ForwardReads, Forwarder
    <3>4. stream \in {"none", "error", "wrapped"}
      BY DEF IInv, TypeOK
    <3>. QED BY <3>1, <3>2, <3>3, <3>4 DEF Forwarder
  <2>6. (/\ handler \in [state : {"idle", "reading", "sending", "retrying", "closing", "done"},
                     sent : BOOLEAN, retries : 0 .. MaxBootstrap])'
    BY LoopAssumption DEF IInv, ForwardReads, Recorded, Nobody, conductor, channels,
       TypeOK
  <2>7. (/\ errs \in Errors \cup {None} /\ data \in {"nil", "open", "closed"}
         /\ writer \in {"waiting", "peek", "forward", "answered", "done", "failed", "gone"}
         /\ gone \in BOOLEAN /\ ctxDone \in BOOLEAN)'
    BY LoopAssumption DEF IInv, ForwardReads, Recorded, Nobody, conductor, channels,
       TypeOK, Errors, UpstreamErrors, Invalid
  <2>8. (/\ calls \in Nat /\ mark \in {None, "success", "failure"}
         /\ served \subseteq Nat /\ late \in Nat /\ invalid \in BOOLEAN)'
    BY DEF IInv, ForwardReads, Recorded, Nobody, conductor, channels, TypeOK, Results,
       Forwarder
  <2>. QED BY <2>1, <2>2, <2>3, <2>4, <2>5, <2>6, <2>7, <2>8 DEF TypeOK
<1>2. Turns'
  BY DEF IInv, ForwardReads, Recorded, Nobody, conductor, channels, Turns, TypeOK
<1>3. NoErrorYet'
  BY DEF IInv, ForwardReads, Recorded, Nobody, conductor, channels, NoErrorYet, Turns,
     TypeOK
<1>4. ServedLast'
  BY DEF IInv, ForwardReads, Recorded, Nobody, conductor, channels, ServedLast, Turns,
     TypeOK
<1>5. Results'
  BY DEF IInv, ForwardReads, Recorded, Nobody, conductor, channels, TypeOK, Results,
     Turns, Forwarder
<1>6. InvalidEnds'
  BY DEF IInv, ForwardReads, Recorded, Nobody, conductor, channels, InvalidEnds, Turns,
     TypeOK
<1>7. LateEnds'
  BY DEF IInv, ForwardReads, Recorded, Nobody, conductor, channels, LateEnds, Turns,
     TypeOK
<1>8. CreditsLast'
  BY DEF IInv, ForwardReads, Recorded, Nobody, conductor, channels, CreditsLast, TypeOK
<1>9. Ends'
  <2>1. (ctxDone => gone \/ writer \in {"answered", "done", "failed", "gone"})'
    BY DEF IInv, ForwardReads, Recorded, Nobody, conductor, channels, TypeOK, Turns,
       Ends, Writing, Forwarder, Results, None
  <2>2. (writer \in {"peek", "waiting"} /\ kind = "stream" => served = {})'
    BY DEF IInv, ForwardReads, Recorded, Nobody, conductor, channels, TypeOK, Turns,
       Ends, Writing, Forwarder, Results, None
  <2>3. (writer = "answered" => mark = "success" /\ kind # "stream" /\ stage = "idle")'
    BY DEF IInv, ForwardReads, Recorded, Nobody, conductor, channels, TypeOK, Turns,
       Ends, Writing, Forwarder, Results, None
  <2>4. (kind # "stream" => handler.state = "idle")'
    BY DEF IInv, ForwardReads, Recorded, Nobody, conductor, channels, TypeOK, Turns,
       Ends, Writing, Forwarder, Results, None
  <2>5. (kind # "stream" /\ stage # "idle" => writer = "waiting")'
    BY DEF IInv, ForwardReads, Recorded, Nobody, conductor, channels, TypeOK, Turns,
       Ends, Writing, Forwarder, Results, None
  <2>6. (writer = "done" => data = "closed")'
    BY DEF IInv, ForwardReads, Recorded, Nobody, conductor, channels, TypeOK, Turns,
       Ends, Writing, Forwarder, Results, None
  <2>7. (fwd.state = "done" /\ ~ctxDone /\ ~fwd.failed => mark = "success")'
    BY DEF IInv, ForwardReads, Recorded, Nobody, conductor, channels, TypeOK, Turns,
       Ends, Writing, Forwarder, Results, None
  <2>8. (handler.state \in {"reading", "sending"} /\ fwd.failed /\ ~ctxDone =>
           fwd.state = "offer" /\ fwd.chunk = "error")'
    BY DEF IInv, ForwardReads, Recorded, Nobody, conductor, channels, TypeOK, Turns,
       Ends, Writing, Forwarder, Results, None
  <2>9. (Writing /\ handler.state \in {"closing", "done"} /\ served # {} /\ ~gone /\ errs = None =>
           mark = "success")'
    BY DEF IInv, ForwardReads, Recorded, Nobody, conductor, channels, TypeOK, Turns,
       Ends, Writing, Forwarder, Results, None
  <2>10. (writer = "done" /\ served # {} /\ ~gone => mark = "success")'
    BY DEF IInv, ForwardReads, Recorded, Nobody, conductor, channels, TypeOK, Turns,
       Ends, Writing, Forwarder, Results, None
  <2>. QED BY <2>1, <2>2, <2>3, <2>4, <2>5, <2>6, <2>7, <2>8, <2>9, <2>10 DEF Ends
<1>. QED BY <1>1, <1>2, <1>3, <1>4, <1>5, <1>6, <1>7, <1>8, <1>9 DEF IInv

LEMMA ForwardEndsStep == ASSUME IInv, ForwardEnds PROVE IInv'
<1>1. TypeOK'
  <2>1. (/\ kind \in {"unary", "count", "stream"}
         /\ stage \in {"idle", "round", "ready", "call", "bootstrap", "failed", "waiting",
                      "credits"})'
    BY DEF IInv, ForwardEnds, Recorded, Nobody, conductor, channels, TypeOK
  <2>2. (loop \in LoopType)'
    BY DEF IInv, ForwardEnds, Recorded, Nobody, conductor, channels, TypeOK, LoopType,
       None
  <2>3. (stage \in {"ready", "call", "bootstrap"} => loop.cred # None /\ loop.left > 0)'
    BY DEF IInv, ForwardEnds, Recorded, Nobody, conductor, channels, TypeOK, LoopType,
       None
  <2>4. (stage = "failed" => loop.err # None)'
    BY DEF IInv, ForwardEnds, Recorded, Nobody, conductor, channels, TypeOK, LoopType,
       None
  <2>5. (/\ stream \in {"none", "error", "wrapped"}
         /\ fwd \in Forwarder)'
    BY DEF IInv, ForwardEnds, Recorded, Nobody, conductor, channels, TypeOK, Forwarder
  <2>6. (/\ handler \in [state : {"idle", "reading", "sending", "retrying", "closing", "done"},
                     sent : BOOLEAN, retries : 0 .. MaxBootstrap])'
    BY LoopAssumption DEF IInv, ForwardEnds, Recorded, Nobody, conductor, channels, TypeOK
  <2>7. (/\ errs \in Errors \cup {None} /\ data \in {"nil", "open", "closed"}
         /\ writer \in {"waiting", "peek", "forward", "answered", "done", "failed", "gone"}
         /\ gone \in BOOLEAN /\ ctxDone \in BOOLEAN)'
    BY LoopAssumption DEF IInv, ForwardEnds, Recorded, Nobody, conductor, channels,
       TypeOK, Errors, UpstreamErrors, Invalid
  <2>8. (/\ calls \in Nat /\ mark \in {None, "success", "failure"}
         /\ served \subseteq Nat /\ late \in Nat /\ invalid \in BOOLEAN)'
    BY DEF IInv, ForwardEnds, Recorded, Nobody, conductor, channels, TypeOK, Results,
       Forwarder
  <2>. QED BY <2>1, <2>2, <2>3, <2>4, <2>5, <2>6, <2>7, <2>8 DEF TypeOK
<1>2. Turns'
  BY DEF IInv, ForwardEnds, Recorded, Nobody, conductor, channels, Turns, TypeOK
<1>3. NoErrorYet'
  BY DEF IInv, ForwardEnds, Recorded, Nobody, conductor, channels, NoErrorYet, Turns,
     TypeOK
<1>4. ServedLast'
  BY DEF IInv, ForwardEnds, Recorded, Nobody, conductor, channels, ServedLast, Turns,
     TypeOK
<1>5. Results'
  BY DEF IInv, ForwardEnds, Recorded, Nobody, conductor, channels, Results, Turns, TypeOK
<1>6. InvalidEnds'
  BY DEF IInv, ForwardEnds, Recorded, Nobody, conductor, channels, InvalidEnds, Turns,
     TypeOK
<1>7. LateEnds'
  BY DEF IInv, ForwardEnds, Recorded, Nobody, conductor, channels, LateEnds, Turns, TypeOK
<1>8. CreditsLast'
  BY DEF IInv, ForwardEnds, Recorded, Nobody, conductor, channels, CreditsLast, TypeOK
<1>9. Ends'
  BY DEF IInv, ForwardEnds, Recorded, Nobody, conductor, channels, TypeOK, Ends, Turns,
     Writing, Forwarder, Results, NoErrorYet
<1>. QED BY <1>1, <1>2, <1>3, <1>4, <1>5, <1>6, <1>7, <1>8, <1>9 DEF IInv

LEMMA ForwardStopsStep == ASSUME IInv, ForwardStops PROVE IInv'
<1>1. TypeOK'
  <2>1. (/\ kind \in {"unary", "count", "stream"}
         /\ stage \in {"idle", "round", "ready", "call", "bootstrap", "failed", "waiting",
                      "credits"})'
    BY DEF IInv, ForwardStops, Nobody, conductor, channels, history, TypeOK
  <2>2. (loop \in LoopType)'
    BY DEF IInv, ForwardStops, Nobody, conductor, channels, history, TypeOK, LoopType,
       None
  <2>3. (stage \in {"ready", "call", "bootstrap"} => loop.cred # None /\ loop.left > 0)'
    BY DEF IInv, ForwardStops, Nobody, conductor, channels, history, TypeOK, LoopType,
       None
  <2>4. (stage = "failed" => loop.err # None)'
    BY DEF IInv, ForwardStops, Nobody, conductor, channels, history, TypeOK, LoopType,
       None
  <2>5. (/\ stream \in {"none", "error", "wrapped"}
         /\ fwd \in Forwarder)'
    BY DEF IInv, ForwardStops, Nobody, conductor, channels, history, TypeOK, Forwarder
  <2>6. (/\ handler \in [state : {"idle", "reading", "sending", "retrying", "closing", "done"},
                     sent : BOOLEAN, retries : 0 .. MaxBootstrap])'
    BY LoopAssumption DEF IInv, ForwardStops, Nobody, conductor, channels, history, TypeOK
  <2>7. (/\ errs \in Errors \cup {None} /\ data \in {"nil", "open", "closed"}
         /\ writer \in {"waiting", "peek", "forward", "answered", "done", "failed", "gone"}
         /\ gone \in BOOLEAN /\ ctxDone \in BOOLEAN)'
    BY LoopAssumption DEF IInv, ForwardStops, Nobody, conductor, channels, history,
       TypeOK, Errors, UpstreamErrors, Invalid
  <2>8. (/\ calls \in Nat /\ mark \in {None, "success", "failure"}
         /\ served \subseteq Nat /\ late \in Nat /\ invalid \in BOOLEAN)'
    BY DEF IInv, ForwardStops, Nobody, conductor, channels, history, TypeOK, None
  <2>. QED BY <2>1, <2>2, <2>3, <2>4, <2>5, <2>6, <2>7, <2>8 DEF TypeOK
<1>2. Turns'
  BY DEF IInv, ForwardStops, Nobody, conductor, channels, history, Turns, TypeOK
<1>3. NoErrorYet'
  BY DEF IInv, ForwardStops, Nobody, conductor, channels, history, NoErrorYet, Turns,
     TypeOK
<1>4. ServedLast'
  BY DEF IInv, ForwardStops, Nobody, conductor, channels, history, ServedLast, Turns,
     TypeOK
<1>5. Results'
  BY DEF IInv, ForwardStops, Nobody, conductor, channels, history, Results, Turns, TypeOK
<1>6. InvalidEnds'
  BY DEF IInv, ForwardStops, Nobody, conductor, channels, history, InvalidEnds, Turns,
     TypeOK
<1>7. LateEnds'
  BY DEF IInv, ForwardStops, Nobody, conductor, channels, history, LateEnds, Turns, TypeOK
<1>8. CreditsLast'
  BY DEF IInv, ForwardStops, Nobody, conductor, channels, history, CreditsLast, TypeOK
<1>9. Ends'
  BY DEF IInv, ForwardStops, Nobody, conductor, channels, history, Ends, Turns, TypeOK,
     Writing
<1>. QED BY <1>1, <1>2, <1>3, <1>4, <1>5, <1>6, <1>7, <1>8, <1>9 DEF IInv

-----------------------------------------------------------------------------
(* The handler.                                                            *)
LEMMA HandleErrorStep == ASSUME IInv, HandleError PROVE IInv'
<1>1. TypeOK'
  <2>1. (/\ kind \in {"unary", "count", "stream"}
         /\ stage \in {"idle", "round", "ready", "call", "bootstrap", "failed", "waiting",
                      "credits"})'
    BY DEF IInv, HandleError, Reading, Offered, Taken, MayRestart, Restart, NewLoop,
       Report, conductor, history, TypeOK
  <2>2. (loop \in LoopType)'
    <3>1. loop \in LoopType
      BY DEF IInv, TypeOK
    <3>. QED BY <3>1, NewLoopType DEF HandleError, Restart, Report, conductor
  <2>3. (stage \in {"ready", "call", "bootstrap"} => loop.cred # None /\ loop.left > 0)'
    BY DEF IInv, HandleError, Reading, Offered, Taken, MayRestart, Restart, NewLoop,
       Report, conductor, history, TypeOK, LoopType, None
  <2>4. (stage = "failed" => loop.err # None)'
    BY DEF IInv, HandleError, Reading, Offered, Taken, MayRestart, Restart, NewLoop,
       Report, conductor, history, TypeOK, LoopType, None
  <2>5. (/\ stream \in {"none", "error", "wrapped"}
         /\ fwd \in Forwarder)'
    BY DEF IInv, HandleError, Reading, Offered, Taken, MayRestart, Restart, NewLoop,
       Report, conductor, history, TypeOK, Forwarder
  <2>6. (/\ handler \in [state : {"idle", "reading", "sending", "retrying", "closing", "done"},
                     sent : BOOLEAN, retries : 0 .. MaxBootstrap])'
    <3>1. handler \in [state : {"idle", "reading", "sending", "retrying", "closing", "done"},
                       sent : BOOLEAN, retries : 0 .. MaxBootstrap]
      BY DEF IInv, TypeOK
    <3>2. \/ handler' = [handler EXCEPT !.state = "closing"]
          \/ /\ handler' = [handler EXCEPT !.state = "retrying", !.retries = @ + 1]
             /\ handler.retries < MaxBootstrap
      BY DEF HandleError, Restart, Report, MayRestart
    <3>3. CASE handler.retries < MaxBootstrap
      <4>1. handler.retries + 1 \in 0 .. MaxBootstrap
        BY <3>1, <3>3, LoopAssumption
      <4>. QED BY <3>1, <3>2, <4>1
    <3>4. CASE ~(handler.retries < MaxBootstrap)
      BY <3>1, <3>2, <3>4
    <3>. QED BY <3>3, <3>4
  <2>7. (/\ errs \in Errors \cup {None} /\ data \in {"nil", "open", "closed"}
         /\ writer \in {"waiting", "peek", "forward", "answered", "done", "failed", "gone"}
         /\ gone \in BOOLEAN /\ ctxDone \in BOOLEAN)'
    BY LoopAssumption DEF IInv, HandleError, Reading, Offered, Taken, MayRestart,
       Restart, NewLoop, Report, conductor, history, TypeOK, Errors, UpstreamErrors,
       Invalid
  <2>8. (/\ calls \in Nat /\ mark \in {None, "success", "failure"}
         /\ served \subseteq Nat /\ late \in Nat /\ invalid \in BOOLEAN)'
    BY DEF IInv, HandleError, Reading, Offered, Taken, MayRestart, Restart, NewLoop,
       Report, conductor, history, TypeOK, None
  <2>. QED BY <2>1, <2>2, <2>3, <2>4, <2>5, <2>6, <2>7, <2>8 DEF TypeOK
<1>2. Turns'
  BY DEF IInv, HandleError, Reading, Offered, Taken, MayRestart, Restart, NewLoop,
     Report, conductor, history, TypeOK, Turns, NoErrorYet, Forwarder
<1>3. NoErrorYet'
  BY DEF IInv, HandleError, Reading, Offered, Taken, MayRestart, Restart, NewLoop,
     Report, conductor, history, NoErrorYet, Turns, TypeOK
<1>4. ServedLast'
  BY DEF IInv, HandleError, Reading, Offered, Taken, MayRestart, Restart, NewLoop,
     Report, conductor, history, ServedLast, Turns, TypeOK
<1>5. Results'
  BY DEF IInv, HandleError, Reading, Offered, Taken, MayRestart, Restart, NewLoop,
     Report, conductor, history, TypeOK, Results, Turns, NoErrorYet, Forwarder
<1>6. InvalidEnds'
  BY DEF IInv, HandleError, Reading, Offered, Taken, MayRestart, Restart, NewLoop,
     Report, conductor, history, InvalidEnds, Turns, TypeOK
<1>7. LateEnds'
  BY DEF IInv, HandleError, Reading, Offered, Taken, MayRestart, Restart, NewLoop,
     Report, conductor, history, TypeOK, LateEnds, Turns, NoErrorYet, Forwarder
<1>8. CreditsLast'
  BY DEF IInv, HandleError, Reading, Offered, Taken, MayRestart, Restart, NewLoop,
     Report, conductor, history, CreditsLast, TypeOK
<1>9. Ends'
  <2>1. (ctxDone => gone \/ writer \in {"answered", "done", "failed", "gone"})'
    BY ErrorsInErrors DEF IInv, HandleError, Reading, Offered, Taken, MayRestart,
       Restart, NewLoop, Report, conductor, history, TypeOK, Turns, Ends, Writing,
       NoErrorYet, ServedLast, Forwarder
  <2>2. (writer \in {"peek", "waiting"} /\ kind = "stream" => served = {})'
    BY ErrorsInErrors DEF IInv, HandleError, Reading, Offered, Taken, MayRestart,
       Restart, NewLoop, Report, conductor, history, TypeOK, Turns, Ends, Writing,
       NoErrorYet, ServedLast, Forwarder
  <2>3. (writer = "answered" => mark = "success" /\ kind # "stream" /\ stage = "idle")'
    BY ErrorsInErrors DEF IInv, HandleError, Reading, Offered, Taken, MayRestart,
       Restart, NewLoop, Report, conductor, history, TypeOK, Turns, Ends, Writing,
       NoErrorYet, ServedLast, Forwarder
  <2>4. (kind # "stream" => handler.state = "idle")'
    BY ErrorsInErrors DEF IInv, HandleError, Reading, Offered, Taken, MayRestart,
       Restart, NewLoop, Report, conductor, history, TypeOK, Turns, Ends, Writing,
       NoErrorYet, ServedLast, Forwarder
  <2>5. (kind # "stream" /\ stage # "idle" => writer = "waiting")'
    BY ErrorsInErrors DEF IInv, HandleError, Reading, Offered, Taken, MayRestart,
       Restart, NewLoop, Report, conductor, history, TypeOK, Turns, Ends, Writing,
       NoErrorYet, ServedLast, Forwarder
  <2>6. (writer = "done" => data = "closed")'
    BY ErrorsInErrors DEF IInv, HandleError, Reading, Offered, Taken, MayRestart,
       Restart, NewLoop, Report, conductor, history, TypeOK, Turns, Ends, Writing,
       NoErrorYet, ServedLast, Forwarder
  <2>7. (fwd.state = "done" /\ ~ctxDone /\ ~fwd.failed => mark = "success")'
    BY ErrorsInErrors DEF IInv, HandleError, Reading, Offered, Taken, MayRestart,
       Restart, NewLoop, Report, conductor, history, TypeOK, Turns, Ends, Writing,
       NoErrorYet, ServedLast, Forwarder
  <2>8. (handler.state \in {"reading", "sending"} /\ fwd.failed /\ ~ctxDone =>
           fwd.state = "offer" /\ fwd.chunk = "error")'
    BY ErrorsInErrors DEF IInv, HandleError, Reading, Offered, Taken, MayRestart,
       Restart, NewLoop, Report, conductor, history, TypeOK, Turns, Ends, Writing,
       NoErrorYet, ServedLast, Forwarder
  <2>9. (Writing /\ handler.state \in {"closing", "done"} /\ served # {} /\ ~gone /\ errs = None =>
           mark = "success")'
    BY ErrorsInErrors DEF IInv, HandleError, Reading, Offered, Taken, MayRestart,
       Restart, NewLoop, Report, conductor, history, TypeOK, Turns, Ends, Writing,
       NoErrorYet, ServedLast, Forwarder
  <2>10. (writer = "done" /\ served # {} /\ ~gone => mark = "success")'
    BY ErrorsInErrors DEF IInv, HandleError, Reading, Offered, Taken, MayRestart,
       Restart, NewLoop, Report, conductor, history, TypeOK, Turns, Ends, Writing,
       NoErrorYet, ServedLast, Forwarder
  <2>. QED BY <2>1, <2>2, <2>3, <2>4, <2>5, <2>6, <2>7, <2>8, <2>9, <2>10 DEF Ends
<1>. QED BY <1>1, <1>2, <1>3, <1>4, <1>5, <1>6, <1>7, <1>8, <1>9 DEF IInv

LEMMA HandleDataStep == ASSUME IInv, HandleData PROVE IInv'
<1>1. TypeOK'
  <2>1. (/\ kind \in {"unary", "count", "stream"}
         /\ stage \in {"idle", "round", "ready", "call", "bootstrap", "failed", "waiting",
                      "credits"})'
    BY DEF IInv, HandleData, Reading, Offered, Taken, Report, conductor, history, TypeOK
  <2>2. (loop \in LoopType)'
    BY DEF IInv, HandleData, Reading, Offered, Taken, Report, conductor, history,
       TypeOK, LoopType, None
  <2>3. (stage \in {"ready", "call", "bootstrap"} => loop.cred # None /\ loop.left > 0)'
    BY DEF IInv, HandleData, Reading, Offered, Taken, Report, conductor, history,
       TypeOK, LoopType, None
  <2>4. (stage = "failed" => loop.err # None)'
    BY DEF IInv, HandleData, Reading, Offered, Taken, Report, conductor, history,
       TypeOK, LoopType, None
  <2>5. (/\ stream \in {"none", "error", "wrapped"}
         /\ fwd \in Forwarder)'
    BY DEF IInv, HandleData, Reading, Offered, Taken, Report, conductor, history,
       TypeOK, Forwarder
  <2>6. (/\ handler \in [state : {"idle", "reading", "sending", "retrying", "closing", "done"},
                     sent : BOOLEAN, retries : 0 .. MaxBootstrap])'
    BY LoopAssumption DEF IInv, HandleData, Reading, Offered, Taken, Report, conductor,
       history, TypeOK
  <2>7. (/\ errs \in Errors \cup {None} /\ data \in {"nil", "open", "closed"}
         /\ writer \in {"waiting", "peek", "forward", "answered", "done", "failed", "gone"}
         /\ gone \in BOOLEAN /\ ctxDone \in BOOLEAN)'
    BY LoopAssumption DEF IInv, HandleData, Reading, Offered, Taken, Report, conductor,
       history, TypeOK, Errors, UpstreamErrors, Invalid
  <2>8. (/\ calls \in Nat /\ mark \in {None, "success", "failure"}
         /\ served \subseteq Nat /\ late \in Nat /\ invalid \in BOOLEAN)'
    BY DEF IInv, HandleData, Reading, Offered, Taken, Report, conductor, history,
       TypeOK, None
  <2>. QED BY <2>1, <2>2, <2>3, <2>4, <2>5, <2>6, <2>7, <2>8 DEF TypeOK
<1>2. Turns'
  BY DEF IInv, HandleData, Reading, Offered, Taken, Report, conductor, history, TypeOK,
     Turns, NoErrorYet, Forwarder
<1>3. NoErrorYet'
  BY DEF IInv, HandleData, Reading, Offered, Taken, Report, conductor, history,
     NoErrorYet, Turns, TypeOK
<1>4. ServedLast'
  BY DEF IInv, HandleData, Reading, Offered, Taken, Report, conductor, history,
     ServedLast, Turns, TypeOK
<1>5. Results'
  BY DEF IInv, HandleData, Reading, Offered, Taken, Report, conductor, history, Results,
     Turns, TypeOK
<1>6. InvalidEnds'
  BY DEF IInv, HandleData, Reading, Offered, Taken, Report, conductor, history,
     InvalidEnds, Turns, TypeOK
<1>7. LateEnds'
  BY DEF IInv, HandleData, Reading, Offered, Taken, Report, conductor, history,
     LateEnds, Turns, TypeOK
<1>8. CreditsLast'
  BY DEF IInv, HandleData, Reading, Offered, Taken, Report, conductor, history,
     CreditsLast, TypeOK
<1>9. Ends'
  <2>1. (ctxDone => gone \/ writer \in {"answered", "done", "failed", "gone"})'
    BY ErrorsInErrors DEF IInv, HandleData, Reading, Offered, Taken, Report, conductor,
       history, TypeOK, Turns, Ends, Writing, NoErrorYet, ServedLast, Forwarder
  <2>2. (writer \in {"peek", "waiting"} /\ kind = "stream" => served = {})'
    BY ErrorsInErrors DEF IInv, HandleData, Reading, Offered, Taken, Report, conductor,
       history, TypeOK, Turns, Ends, Writing, NoErrorYet, ServedLast, Forwarder
  <2>3. (writer = "answered" => mark = "success" /\ kind # "stream" /\ stage = "idle")'
    BY ErrorsInErrors DEF IInv, HandleData, Reading, Offered, Taken, Report, conductor,
       history, TypeOK, Turns, Ends, Writing, NoErrorYet, ServedLast, Forwarder
  <2>4. (kind # "stream" => handler.state = "idle")'
    BY ErrorsInErrors DEF IInv, HandleData, Reading, Offered, Taken, Report, conductor,
       history, TypeOK, Turns, Ends, Writing, NoErrorYet, ServedLast, Forwarder
  <2>5. (kind # "stream" /\ stage # "idle" => writer = "waiting")'
    BY ErrorsInErrors DEF IInv, HandleData, Reading, Offered, Taken, Report, conductor,
       history, TypeOK, Turns, Ends, Writing, NoErrorYet, ServedLast, Forwarder
  <2>6. (writer = "done" => data = "closed")'
    BY ErrorsInErrors DEF IInv, HandleData, Reading, Offered, Taken, Report, conductor,
       history, TypeOK, Turns, Ends, Writing, NoErrorYet, ServedLast, Forwarder
  <2>7. (fwd.state = "done" /\ ~ctxDone /\ ~fwd.failed => mark = "success")'
    BY ErrorsInErrors DEF IInv, HandleData, Reading, Offered, Taken, Report, conductor,
       history, TypeOK, Turns, Ends, Writing, NoErrorYet, ServedLast, Forwarder
  <2>8. (handler.state \in {"reading", "sending"} /\ fwd.failed /\ ~ctxDone =>
           fwd.state = "offer" /\ fwd.chunk = "error")'
    BY ErrorsInErrors DEF IInv, HandleData, Reading, Offered, Taken, Report, conductor,
       history, TypeOK, Turns, Ends, Writing, NoErrorYet, ServedLast, Forwarder
  <2>9. (Writing /\ handler.state \in {"closing", "done"} /\ served # {} /\ ~gone /\ errs = None =>
           mark = "success")'
    BY ErrorsInErrors DEF IInv, HandleData, Reading, Offered, Taken, Report, conductor,
       history, TypeOK, Turns, Ends, Writing, NoErrorYet, ServedLast, Forwarder
  <2>10. (writer = "done" /\ served # {} /\ ~gone => mark = "success")'
    BY ErrorsInErrors DEF IInv, HandleData, Reading, Offered, Taken, Report, conductor,
       history, TypeOK, Turns, Ends, Writing, NoErrorYet, ServedLast, Forwarder
  <2>. QED BY <2>1, <2>2, <2>3, <2>4, <2>5, <2>6, <2>7, <2>8, <2>9, <2>10 DEF Ends
<1>. QED BY <1>1, <1>2, <1>3, <1>4, <1>5, <1>6, <1>7, <1>8, <1>9 DEF IInv

LEMMA HandleBlankStep == ASSUME IInv, HandleBlank PROVE IInv'
<1>1. TypeOK'
  <2>1. (/\ kind \in {"unary", "count", "stream"}
         /\ stage \in {"idle", "round", "ready", "call", "bootstrap", "failed", "waiting",
                      "credits"})'
    BY DEF IInv, HandleBlank, Reading, Offered, Taken, conductor, channels, history,
       TypeOK
  <2>2. (loop \in LoopType)'
    BY DEF IInv, HandleBlank, Reading, Offered, Taken, conductor, channels, history,
       TypeOK, LoopType, None
  <2>3. (stage \in {"ready", "call", "bootstrap"} => loop.cred # None /\ loop.left > 0)'
    BY DEF IInv, HandleBlank, Reading, Offered, Taken, conductor, channels, history,
       TypeOK, LoopType, None
  <2>4. (stage = "failed" => loop.err # None)'
    BY DEF IInv, HandleBlank, Reading, Offered, Taken, conductor, channels, history,
       TypeOK, LoopType, None
  <2>5. (/\ stream \in {"none", "error", "wrapped"}
         /\ fwd \in Forwarder)'
    BY DEF IInv, HandleBlank, Reading, Offered, Taken, conductor, channels, history,
       TypeOK, Forwarder
  <2>6. (/\ handler \in [state : {"idle", "reading", "sending", "retrying", "closing", "done"},
                     sent : BOOLEAN, retries : 0 .. MaxBootstrap])'
    BY LoopAssumption DEF IInv, HandleBlank, Reading, Offered, Taken, conductor,
       channels, history, TypeOK
  <2>7. (/\ errs \in Errors \cup {None} /\ data \in {"nil", "open", "closed"}
         /\ writer \in {"waiting", "peek", "forward", "answered", "done", "failed", "gone"}
         /\ gone \in BOOLEAN /\ ctxDone \in BOOLEAN)'
    BY LoopAssumption DEF IInv, HandleBlank, Reading, Offered, Taken, conductor,
       channels, history, TypeOK, Errors, UpstreamErrors, Invalid
  <2>8. (/\ calls \in Nat /\ mark \in {None, "success", "failure"}
         /\ served \subseteq Nat /\ late \in Nat /\ invalid \in BOOLEAN)'
    BY DEF IInv, HandleBlank, Reading, Offered, Taken, conductor, channels, history,
       TypeOK, None
  <2>. QED BY <2>1, <2>2, <2>3, <2>4, <2>5, <2>6, <2>7, <2>8 DEF TypeOK
<1>2. Turns'
  BY DEF IInv, HandleBlank, Reading, Offered, Taken, conductor, channels, history,
     Turns, TypeOK
<1>3. NoErrorYet'
  BY DEF IInv, HandleBlank, Reading, Offered, Taken, conductor, channels, history,
     NoErrorYet, Turns, TypeOK
<1>4. ServedLast'
  BY DEF IInv, HandleBlank, Reading, Offered, Taken, conductor, channels, history,
     ServedLast, Turns, TypeOK
<1>5. Results'
  BY DEF IInv, HandleBlank, Reading, Offered, Taken, conductor, channels, history,
     Results, Turns, TypeOK
<1>6. InvalidEnds'
  BY DEF IInv, HandleBlank, Reading, Offered, Taken, conductor, channels, history,
     InvalidEnds, Turns, TypeOK
<1>7. LateEnds'
  BY DEF IInv, HandleBlank, Reading, Offered, Taken, conductor, channels, history,
     LateEnds, Turns, TypeOK
<1>8. CreditsLast'
  BY DEF IInv, HandleBlank, Reading, Offered, Taken, conductor, channels, history,
     CreditsLast, TypeOK
<1>9. Ends'
  BY DEF IInv, HandleBlank, Reading, Offered, Taken, conductor, channels, history, Ends,
     Turns, TypeOK, Writing
<1>. QED BY <1>1, <1>2, <1>3, <1>4, <1>5, <1>6, <1>7, <1>8, <1>9 DEF IInv

LEMMA HandlerReturnsStep == ASSUME IInv, HandlerReturns PROVE IInv'
<1>1. TypeOK'
  BY DEF IInv, HandlerReturns, Reading, conductor, channels, history, TypeOK
<1>2. Turns'
  BY DEF IInv, HandlerReturns, Reading, conductor, channels, history, Turns, TypeOK
<1>3. NoErrorYet'
  BY DEF IInv, HandlerReturns, Reading, conductor, channels, history, NoErrorYet, Turns,
     TypeOK
<1>4. ServedLast'
  BY DEF IInv, HandlerReturns, Reading, conductor, channels, history, ServedLast, Turns,
     TypeOK
<1>5. Results'
  BY DEF IInv, HandlerReturns, Reading, conductor, channels, history, Results, Turns,
     TypeOK
<1>6. InvalidEnds'
  BY DEF IInv, HandlerReturns, Reading, conductor, channels, history, InvalidEnds,
     Turns, TypeOK
<1>7. LateEnds'
  BY DEF IInv, HandlerReturns, Reading, conductor, channels, history, LateEnds, Turns,
     TypeOK
<1>8. CreditsLast'
  BY DEF IInv, HandlerReturns, Reading, conductor, channels, history, CreditsLast, TypeOK
<1>9. Ends'
  BY DEF IInv, HandlerReturns, Reading, conductor, channels, history, Ends, Turns,
     TypeOK, Writing
<1>. QED BY <1>1, <1>2, <1>3, <1>4, <1>5, <1>6, <1>7, <1>8, <1>9 DEF IInv

LEMMA HandlerClosesStep == ASSUME IInv, HandlerCloses PROVE IInv'
<1>1. TypeOK'
  BY DEF IInv, HandlerCloses, conductor, history, TypeOK
<1>2. Turns'
  BY DEF IInv, HandlerCloses, conductor, history, Turns, TypeOK
<1>3. NoErrorYet'
  BY DEF IInv, HandlerCloses, conductor, history, NoErrorYet, Turns, TypeOK
<1>4. ServedLast'
  BY DEF IInv, HandlerCloses, conductor, history, ServedLast, Turns, TypeOK
<1>5. Results'
  BY DEF IInv, HandlerCloses, conductor, history, Results, Turns, TypeOK
<1>6. InvalidEnds'
  BY DEF IInv, HandlerCloses, conductor, history, InvalidEnds, Turns, TypeOK
<1>7. LateEnds'
  BY DEF IInv, HandlerCloses, conductor, history, LateEnds, Turns, TypeOK
<1>8. CreditsLast'
  BY DEF IInv, HandlerCloses, conductor, history, CreditsLast, TypeOK
<1>9. Ends'
  BY DEF IInv, HandlerCloses, conductor, history, Ends, Turns, TypeOK, Writing
<1>. QED BY <1>1, <1>2, <1>3, <1>4, <1>5, <1>6, <1>7, <1>8, <1>9 DEF IInv

-----------------------------------------------------------------------------
(* The HTTP handler and its client.                                        *)
LEMMA WriteChunkStep == ASSUME IInv, WriteChunk PROVE IInv'
<1>1. TypeOK'
  BY DEF IInv, WriteChunk, Writing, Unwritten, conductor, channels, TypeOK
<1>2. Turns'
  BY DEF IInv, WriteChunk, Writing, Unwritten, conductor, channels, Turns, TypeOK
<1>3. NoErrorYet'
  BY DEF IInv, WriteChunk, Writing, Unwritten, conductor, channels, NoErrorYet, Turns,
     TypeOK
<1>4. ServedLast'
  BY DEF IInv, WriteChunk, Writing, Unwritten, conductor, channels, ServedLast, Turns,
     TypeOK
<1>5. Results'
  BY DEF IInv, WriteChunk, Writing, Unwritten, conductor, channels, Results, Turns, TypeOK
<1>6. InvalidEnds'
  BY DEF IInv, WriteChunk, Writing, Unwritten, conductor, channels, InvalidEnds, Turns,
     TypeOK
<1>7. LateEnds'
  BY DEF IInv, WriteChunk, Writing, Unwritten, conductor, channels, LateEnds, Turns,
     TypeOK
<1>8. CreditsLast'
  BY DEF IInv, WriteChunk, Writing, Unwritten, conductor, channels, CreditsLast, TypeOK
<1>9. Ends'
  BY DEF IInv, WriteChunk, Writing, Unwritten, conductor, channels, Ends, Turns, TypeOK
<1>. QED BY <1>1, <1>2, <1>3, <1>4, <1>5, <1>6, <1>7, <1>8, <1>9 DEF IInv

LEMMA WriteErrorStep == ASSUME IInv, WriteError PROVE IInv'
<1>1. TypeOK'
  BY DEF IInv, WriteError, Writing, Unwritten, conductor, history, TypeOK
<1>2. Turns'
  BY DEF IInv, WriteError, Writing, Unwritten, conductor, history, Turns, TypeOK
<1>3. NoErrorYet'
  BY DEF IInv, WriteError, Writing, Unwritten, conductor, history, NoErrorYet, Turns,
     TypeOK
<1>4. ServedLast'
  BY DEF IInv, WriteError, Writing, Unwritten, conductor, history, ServedLast, Turns,
     TypeOK
<1>5. Results'
  BY DEF IInv, WriteError, Writing, Unwritten, conductor, history, Results, Turns, TypeOK
<1>6. InvalidEnds'
  BY DEF IInv, WriteError, Writing, Unwritten, conductor, history, InvalidEnds, Turns,
     TypeOK
<1>7. LateEnds'
  BY DEF IInv, WriteError, Writing, Unwritten, conductor, history, LateEnds, Turns, TypeOK
<1>8. CreditsLast'
  BY DEF IInv, WriteError, Writing, Unwritten, conductor, history, CreditsLast, TypeOK
<1>9. Ends'
  BY DEF IInv, WriteError, Writing, Unwritten, conductor, history, Ends, Turns, TypeOK
<1>. QED BY <1>1, <1>2, <1>3, <1>4, <1>5, <1>6, <1>7, <1>8, <1>9 DEF IInv

LEMMA WriteDoneStep == ASSUME IInv, WriteDone PROVE IInv'
<1>1. TypeOK'
  BY DEF IInv, WriteDone, Writing, Unwritten, conductor, channels, history, TypeOK
<1>2. Turns'
  BY DEF IInv, WriteDone, Writing, Unwritten, conductor, channels, history, Turns, TypeOK
<1>3. NoErrorYet'
  BY DEF IInv, WriteDone, Writing, Unwritten, conductor, channels, history, NoErrorYet,
     Turns, TypeOK
<1>4. ServedLast'
  BY DEF IInv, WriteDone, Writing, Unwritten, conductor, channels, history, ServedLast,
     Turns, TypeOK
<1>5. Results'
  BY DEF IInv, WriteDone, Writing, Unwritten, conductor, channels, history, Results,
     Turns, TypeOK
<1>6. InvalidEnds'
  BY DEF IInv, WriteDone, Writing, Unwritten, conductor, channels, history, InvalidEnds,
     Turns, TypeOK
<1>7. LateEnds'
  BY DEF IInv, WriteDone, Writing, Unwritten, conductor, channels, history, LateEnds,
     Turns, TypeOK
<1>8. CreditsLast'
  BY DEF IInv, WriteDone, Writing, Unwritten, conductor, channels, history, CreditsLast,
     TypeOK
<1>9. Ends'
  BY DEF IInv, WriteDone, Writing, Unwritten, conductor, channels, history, Ends, Turns,
     TypeOK
<1>. QED BY <1>1, <1>2, <1>3, <1>4, <1>5, <1>6, <1>7, <1>8, <1>9 DEF IInv

LEMMA WriterGoneStep == ASSUME IInv, WriterGone PROVE IInv'
<1>1. TypeOK'
  BY DEF IInv, WriterGone, Writing, Unwritten, conductor, channels, history, TypeOK
<1>2. Turns'
  BY DEF IInv, WriterGone, Writing, Unwritten, conductor, channels, history, Turns, TypeOK
<1>3. NoErrorYet'
  BY DEF IInv, WriterGone, Writing, Unwritten, conductor, channels, history, NoErrorYet,
     Turns, TypeOK
<1>4. ServedLast'
  BY DEF IInv, WriterGone, Writing, Unwritten, conductor, channels, history, ServedLast,
     Turns, TypeOK
<1>5. Results'
  BY DEF IInv, WriterGone, Writing, Unwritten, conductor, channels, history, Results,
     Turns, TypeOK
<1>6. InvalidEnds'
  BY DEF IInv, WriterGone, Writing, Unwritten, conductor, channels, history,
     InvalidEnds, Turns, TypeOK
<1>7. LateEnds'
  BY DEF IInv, WriterGone, Writing, Unwritten, conductor, channels, history, LateEnds,
     Turns, TypeOK
<1>8. CreditsLast'
  BY DEF IInv, WriterGone, Writing, Unwritten, conductor, channels, history,
     CreditsLast, TypeOK
<1>9. Ends'
  BY DEF IInv, WriterGone, Writing, Unwritten, conductor, channels, history, Ends,
     Turns, TypeOK
<1>. QED BY <1>1, <1>2, <1>3, <1>4, <1>5, <1>6, <1>7, <1>8, <1>9 DEF IInv

LEMMA DisconnectStep == ASSUME IInv, Disconnect PROVE IInv'
<1>1. TypeOK'
  BY DEF IInv, Disconnect, conductor, channels, history, TypeOK
<1>2. Turns'
  BY DEF IInv, Disconnect, conductor, channels, history, Turns, TypeOK
<1>3. NoErrorYet'
  BY DEF IInv, Disconnect, conductor, channels, history, NoErrorYet, Turns, TypeOK
<1>4. ServedLast'
  BY DEF IInv, Disconnect, conductor, channels, history, ServedLast, Turns, TypeOK
<1>5. Results'
  BY DEF IInv, Disconnect, conductor, channels, history, Results, Turns, TypeOK
<1>6. InvalidEnds'
  BY DEF IInv, Disconnect, conductor, channels, history, InvalidEnds, Turns, TypeOK
<1>7. LateEnds'
  BY DEF IInv, Disconnect, conductor, channels, history, LateEnds, Turns, TypeOK
<1>8. CreditsLast'
  BY DEF IInv, Disconnect, conductor, channels, history, CreditsLast, TypeOK
<1>9. Ends'
  BY DEF IInv, Disconnect, conductor, channels, history, Ends, Turns, TypeOK, Writing
<1>. QED BY <1>1, <1>2, <1>3, <1>4, <1>5, <1>6, <1>7, <1>8, <1>9 DEF IInv

LEMMA CancelContextStep == ASSUME IInv, CancelContext PROVE IInv'
<1>1. TypeOK'
  BY DEF IInv, CancelContext, conductor, channels, history, TypeOK
<1>2. Turns'
  BY DEF IInv, CancelContext, conductor, channels, history, Turns, TypeOK
<1>3. NoErrorYet'
  BY DEF IInv, CancelContext, conductor, channels, history, NoErrorYet, Turns, TypeOK
<1>4. ServedLast'
  BY DEF IInv, CancelContext, conductor, channels, history, ServedLast, Turns, TypeOK
<1>5. Results'
  BY DEF IInv, CancelContext, conductor, channels, history, Results, Turns, TypeOK
<1>6. InvalidEnds'
  BY DEF IInv, CancelContext, conductor, channels, history, InvalidEnds, Turns, TypeOK
<1>7. LateEnds'
  BY DEF IInv, CancelContext, conductor, channels, history, LateEnds, Turns, TypeOK
<1>8. CreditsLast'
  BY DEF IInv, CancelContext, conductor, channels, history, CreditsLast, TypeOK
<1>9. Ends'
  BY DEF IInv, CancelContext, conductor, channels, history, Ends, Turns, TypeOK, Writing
<1>. QED BY <1>1, <1>2, <1>3, <1>4, <1>5, <1>6, <1>7, <1>8, <1>9 DEF IInv

LEMMA StutterStep == ASSUME IInv, UNCHANGED vars PROVE IInv'
<1>1. TypeOK'
  BY DEF IInv, vars, TypeOK
<1>2. Turns'
  BY DEF IInv, vars, Turns, TypeOK
<1>3. NoErrorYet'
  BY DEF IInv, vars, NoErrorYet, Turns, TypeOK
<1>4. ServedLast'
  BY DEF IInv, vars, ServedLast, Turns, TypeOK
<1>5. Results'
  BY DEF IInv, vars, Results, Turns, TypeOK
<1>6. InvalidEnds'
  BY DEF IInv, vars, InvalidEnds, Turns, TypeOK
<1>7. LateEnds'
  BY DEF IInv, vars, LateEnds, Turns, TypeOK
<1>8. CreditsLast'
  BY DEF IInv, vars, CreditsLast, TypeOK
<1>9. Ends'
  BY DEF IInv, vars, Ends, Turns, TypeOK, Writing
<1>. QED BY <1>1, <1>2, <1>3, <1>4, <1>5, <1>6, <1>7, <1>8, <1>9 DEF IInv

LEMMA CallFailsStep == ASSUME IInv, NEW e \in UpstreamErrors, CallFails(e) PROVE IInv'
  BY FailureStep DEF CallFails

LEMMA BootstrapFailsStep ==
  ASSUME IInv, NEW e \in UpstreamErrors, BootstrapFails(e) PROVE IInv'
  BY FailureStep DEF BootstrapFails

LEMMA BootstrapEmptyStep == ASSUME IInv, BootstrapEmpty PROVE IInv'
  BY FailureStep, ErrorsInErrors DEF BootstrapEmpty

LEMMA NextIInv == ASSUME IInv, [Next]_vars PROVE IInv'
<1>1. CASE Conductor
  BY <1>1, PickStep, RoundEndsStep, CallStep, CallFailsStep, BootstrapFailsStep,
     CallCancelledStep, CallSucceedsStep, StreamOpensStep, BootstrapEmptyStep,
     BootstrapDoneStep, RetryStep, WaitEndsStep, GiveUpStep, TryCreditsStep, CreditsFailStep
  DEF Conductor
<1>2. CASE Forwarding
  BY <1>2, ForwardReadsStep, ForwardEndsStep, ForwardStopsStep DEF Forwarding
<1>3. CASE Handling
  BY <1>3, HandleErrorStep, HandleDataStep, HandleBlankStep, HandlerReturnsStep,
     HandlerClosesStep DEF Handling
<1>4. CASE Answering
  BY <1>4, WriteChunkStep, WriteErrorStep, WriteDoneStep, WriterGoneStep DEF Answering
<1>5. CASE Disconnect \/ CancelContext
  BY <1>5, DisconnectStep, CancelContextStep
<1>6. CASE Over \/ UNCHANGED vars
  BY <1>6, StutterStep DEF Over
<1>. QED BY <1>1, <1>2, <1>3, <1>4, <1>5, <1>6 DEF Next

(* The invariant that the properties below follow from.                    *)
THEOREM RequestInvariant == Spec => []IInv
<1>1. Init => IInv
  BY InitIInv
<1>2. IInv /\ [Next]_vars => IInv'
  BY NextIInv
<1>. QED BY <1>1, <1>2, PTL DEF Spec

(* A credential in hand always has a model left to try.                    *)
THEOREM RequestTypes == Spec => []TypeOK
<1>1. IInv => TypeOK
  BY DEF IInv
<1>. QED BY <1>1, RequestInvariant, PTL

(* What the client has is from the last upstream call, which was the last: *)
(* no stream is spliced from two upstream answers.                         *)
THEOREM AnswerHasOneSource == Spec => []OneSource
<1>1. IInv => OneSource
  BY DEF IInv, ServedLast, OneSource
<1>. QED BY <1>1, RequestInvariant, PTL

(* An answer that ended well is recorded as a success of its credential    *)
(* before the client sees the end, by whichever goroutine records it.      *)
THEOREM AnswerIsRecorded == Spec => []SuccessRecorded
<1>1. IInv => SuccessRecorded
  BY DEF IInv, Ends, SuccessRecorded
<1>. QED BY <1>1, RequestInvariant, PTL

(* At most one credential is attempted after the context has ended.        *)
THEOREM CancellationIsNoticed == Spec => []CancelledStops
<1>1. IInv => CancelledStops
  BY DEF IInv, LateEnds, CancelledStops
<1>. QED BY <1>1, RequestInvariant, PTL

-----------------------------------------------------------------------------
(* Who makes a call, and who records a result.                             *)

LEMMA CallsByCall == ASSUME IInv, [Next]_vars, calls' # calls PROVE Call
<1>1. CASE Conductor
  BY <1>1 DEF Conductor, Pick, RoundEnds, CallFails, BootstrapFails, BootstrapEmpty,
     Failure,
     CallCancelled, CallSucceeds, StreamOpens, BootstrapDone, Retry, WaitEnds, GiveUp, TryCredits,
     CreditsFail, history
<1>2. CASE Forwarding
  BY <1>2 DEF Forwarding, ForwardReads, ForwardEnds, ForwardStops, history
<1>3. CASE Handling
  BY <1>3 DEF Handling, HandleError, HandleData, HandleBlank, HandlerReturns,
     HandlerCloses,
     history
<1>4. CASE Answering
  BY <1>4 DEF Answering, WriteChunk, WriteError, WriteDone, WriterGone, history
<1>5. CASE Disconnect \/ CancelContext
  BY <1>5 DEF Disconnect, CancelContext, history
<1>. QED BY <1>1, <1>2, <1>3, <1>4, <1>5 DEF Next, Over, vars

LEMMA MarksOnce == ASSUME IInv, [Next]_vars, calls' = calls, mark # None PROVE mark' = mark
<1>1. /\ stage \in {"call", "bootstrap"} => mark = None
      /\ fwd.state = "read" /\ ~fwd.failed => mark = None
  BY DEF IInv, Results
<1>2. CASE Conductor
  <2>1. ASSUME Call PROVE FALSE
    BY <2>1 DEF IInv, TypeOK, Call
  <2>. QED BY <1>1, <1>2, <2>1 DEF Conductor, Pick, RoundEnds, CallFails, BootstrapFails,
       BootstrapEmpty, Failure, CallCancelled, CallSucceeds, StreamOpens, BootstrapDone, Retry,
       WaitEnds, GiveUp, TryCredits, CreditsFail, history
<1>3. CASE Forwarding
  BY <1>1, <1>3 DEF Forwarding, ForwardReads, ForwardEnds, ForwardStops, history
<1>4. CASE Handling
  BY <1>4 DEF Handling, HandleError, HandleData, HandleBlank, HandlerReturns,
     HandlerCloses,
     history
<1>5. CASE Answering
  BY <1>5 DEF Answering, WriteChunk, WriteError, WriteDone, WriterGone, history
<1>6. CASE Disconnect \/ CancelContext
  BY <1>6 DEF Disconnect, CancelContext, history
<1>. QED BY <1>2, <1>3, <1>4, <1>5, <1>6 DEF Next, Over, vars

(* Every call's result is recorded before the next call, or the context    *)
(* has ended, and it is recorded once.                                     *)
THEOREM CallsHaveOneResult == Spec => OneResult
<1>1. ASSUME IInv, [Next]_vars
      PROVE  /\ calls' # calls => calls = 0 \/ mark # None \/ ctxDone
             /\ calls' = calls /\ mark # None => mark' = mark
  <2>1. ASSUME calls' # calls PROVE calls = 0 \/ mark # None \/ ctxDone
    <3>1. stage = "ready"
      BY <1>1, <2>1, CallsByCall DEF Call
    <3>. QED BY <1>1, <3>1 DEF IInv, Results, Turns
  <2>. QED BY <1>1, <2>1, MarksOnce
<1>. QED BY <1>1, RequestInvariant, PTL DEF Spec, OneResult

(* When an attempt has shown that the request is at fault, no upstream is  *)
(* called again.                                                           *)
THEOREM InvalidRequestsEnd == Spec => InvalidIsFinal
<1>1. ASSUME IInv, [Next]_vars, invalid PROVE calls' = calls
  <2>1. stage # "ready"
    BY <1>1 DEF IInv, InvalidEnds
  <2>. QED BY <1>1, <2>1, CallsByCall DEF Call
<1>. QED BY <1>1, RequestInvariant, PTL DEF Spec, InvalidIsFinal

-----------------------------------------------------------------------------
(* Counting the models of a set of credentials, and the rounds.            *)

LEMMA CellsOfOne ==
  ASSUME NEW c, NEW n \in Nat
  PROVE  IsFiniteSet({c} \X (1 .. n)) /\ Cardinality({c} \X (1 .. n)) = n
<1>. DEFINE I == 1 .. n
            O == {c}
<1>1. IsFiniteSet(O) /\ Cardinality(O) = 1
  BY FS_Singleton
<1>2. IsFiniteSet(I) /\ Cardinality(I) = n
  <2>1. IsFiniteSet(1 .. n) /\ Cardinality(1 .. n) = IF 1 > n THEN 0 ELSE n - 1 + 1
    BY FS_Interval
  <2>. QED BY <2>1
<1>. HIDE DEF I, O
<1>3. IsFiniteSet(O \X I) /\ Cardinality(O \X I) = Cardinality(O) * Cardinality(I)
  BY <1>1, <1>2, FS_Product
<1>4. Cardinality(O \X I) = n
  BY <1>1, <1>2, <1>3
<1>. QED BY <1>3, <1>4 DEF I, O

Cells(S) == UNION {{c} \X (1 .. Pool[c]) : c \in S}

LEMMA ModelsFinite ==
  ASSUME NEW S \in SUBSET Creds
  PROVE  IsFiniteSet(Cells(S)) /\ Models(S) \in Nat
<1>. DEFINE T == {{c} \X (1 .. Pool[c]) : c \in S}
            f == [c \in S |-> {c} \X (1 .. Pool[c])]
<1>1. IsFiniteSet(S)
  BY LoopAssumption, FS_Subset
<1>2. f \in Surjection(S, T)
  BY DEF Surjection
<1>3. \A t \in T : IsFiniteSet(t)
  BY CellsOfOne, PoolType, ZenonT(60)
<1>. HIDE DEF f, T
<1>4. IsFiniteSet(T)
  BY <1>1, <1>2, FS_Surjection
<1>5. IsFiniteSet(UNION T)
  BY <1>3, <1>4, FS_UNION
<1>6. Cells(S) = UNION T /\ Models(S) = Cardinality(UNION T)
  BY DEF Cells, Models, T
<1>. QED BY <1>5, <1>6, FS_CardinalityType

LEMMA ModelsSplit ==
  ASSUME NEW S \in SUBSET Creds, NEW c \in S
  PROVE  Models(S) = Models(S \ {c}) + Pool[c]
<1>. DEFINE own == {c} \X (1 .. Pool[c])
            others == Cells(S \ {c})
<1>1. Cells(S) = others \cup own
  BY DEF Cells
<1>2. others \cap own = {}
  BY DEF Cells
<1>3. IsFiniteSet(own) /\ Cardinality(own) = Pool[c] /\ Pool[c] \in Nat
  BY CellsOfOne, PoolType, ZenonT(60)
<1>4. IsFiniteSet(others) /\ Models(S \ {c}) = Cardinality(others) /\ Models(S \ {c}) \in Nat
  BY ModelsFinite DEF Models, Cells
<1>5. Models(S) = Cardinality(Cells(S))
  BY DEF Models, Cells
<1>. HIDE DEF own, others
<1>6. Cardinality(others \cup own) = Cardinality(others) + Cardinality(own) - 0
  <2>1. Cardinality(others \cap own) = 0
    BY <1>2, FS_EmptySet
  <2>2. Cardinality(others \cup own) =
           Cardinality(others) + Cardinality(own) - Cardinality(others \cap own)
    BY <1>3, <1>4, FS_Union
  <2>. QED BY <2>1, <2>2
<1>. QED BY <1>1, <1>3, <1>4, <1>5, <1>6

LEMMA ModelsMonotone ==
  ASSUME NEW S \in SUBSET Creds, NEW T \in SUBSET S
  PROVE  Models(T) <= Models(S)
<1>1. Cells(T) \in SUBSET Cells(S)
  BY DEF Cells
<1>. QED BY <1>1, ModelsFinite, FS_Subset DEF Models, Cells

LEMMA ModelsOfNone == Models({}) = 0
<1>1. Cells({}) = {}
  BY DEF Cells
<1>. QED BY <1>1, FS_EmptySet DEF Models, Cells

LEMMA RoundsFinite == IsFiniteSet(Rounds) /\ Cardinality(Rounds) \in Nat
<1>. DEFINE T == {1 .. Retries[c] : c \in Creds}
            f == [c \in Creds |-> 1 .. Retries[c]]
<1>1. f \in Surjection(Creds, T)
  BY DEF Surjection
<1>2. \A t \in T : IsFiniteSet(t)
  <2>1. \A c \in Creds : IsFiniteSet(1 .. Retries[c])
    BY LoopAssumption, FS_Interval
  <2>. QED BY <2>1
<1>. HIDE DEF f, T
<1>3. IsFiniteSet(UNION T)
  BY <1>1, <1>2, LoopAssumption, FS_Surjection, FS_UNION
<1>4. IsFiniteSet({0})
  BY FS_Singleton
<1>5. Rounds = {0} \cup UNION T
  BY DEF Rounds, T
<1>6. IsFiniteSet({0} \cup UNION T)
  BY <1>3, <1>4, FS_Union
<1>. QED BY <1>5, <1>6, FS_CardinalityType

(* The rounds are numbered from 0, so r has r predecessors.                *)
LEMMA RoundsBefore ==
  ASSUME NEW r \in Rounds
  PROVE  r \in Nat /\ r + 1 <= Cardinality(Rounds)
<1>1. r \in Nat /\ 0 .. r \in SUBSET Rounds
  <2>1. r = 0 \/ \E c \in Creds : r \in 1 .. Retries[c]
    BY DEF Rounds
  <2>2. CASE r = 0
    BY <2>2 DEF Rounds
  <2>3. ASSUME NEW c \in Creds, r \in 1 .. Retries[c]
        PROVE  r \in Nat /\ 0 .. r \in SUBSET Rounds
    <3>1. Retries[c] \in Nat
      BY LoopAssumption
    <3>2. \A i \in 0 .. r : i = 0 \/ i \in 1 .. Retries[c]
      BY <2>3, <3>1
    <3>. QED BY <2>3, <3>1, <3>2 DEF Rounds
  <2>. QED BY <2>1, <2>2, <2>3
<1>2. Cardinality(0 .. r) = r + 1
  <2>1. Cardinality(0 .. r) = IF 0 > r THEN 0 ELSE r - 0 + 1
    BY <1>1, FS_Interval
  <2>. QED BY <1>1, <2>1
<1>. QED BY <1>1, <1>2, RoundsFinite, FS_Subset

LEMMA CallsPerStartType ==
  /\ CallsPerStart \in Nat /\ Cardinality(Rounds) \in Nat
  /\ Models(Creds) \in Nat /\ Models(CreditCreds) \in Nat
<1>1. Creds \in SUBSET Creds /\ CreditCreds \in SUBSET Creds
  BY LoopAssumption
<1>2. Models(Creds) \in Nat /\ Models(CreditCreds) \in Nat
  BY <1>1, ModelsFinite
<1>. QED BY <1>2, RoundsFinite DEF CallsPerStart

(* Arithmetic of what is granted.                                          *)
LEMMA OneMore ==
  ASSUME NEW a \in Nat, NEW b \in Nat
  PROVE  /\ (a + 1) * b = a * b + b /\ 0 * b = 0
         /\ a * b \in Nat
  OBVIOUS

LEMMA TimesMonotone ==
  ASSUME NEW a \in Nat, NEW b \in Nat, NEW k \in Nat, a <= b
  PROVE  a * k <= b * k
<1>1. b - a \in Nat /\ b = a + (b - a)
  OBVIOUS
<1>2. PICK d \in Nat : b = a + d
  BY <1>1
<1>3. b * k = a * k + d * k /\ d * k \in Nat /\ a * k \in Nat
  BY <1>2
<1>. QED BY <1>3

-----------------------------------------------------------------------------
(* The calls of a request. What it has made, together with the models of   *)
(* the credential in hand that it has not called yet (Pending), stays      *)
(* within what the finished starts, the finished rounds and the            *)
(* credentials tried in this round allow; in the credits fallback, which   *)
(* ends a start, what it has still to try is set aside as well.            *)
Pending ==
    IF stage = "ready" THEN loop.left
    ELSE IF stage \in {"call", "bootstrap"} THEN loop.left - 1 ELSE 0

Granted == handler.retries * CallsPerStart
GrantedWithThis == (handler.retries + 1) * CallsPerStart

Within ==
    /\ loop.round \in Rounds
    /\ stage = "waiting" => loop.round + 1 \in Rounds
    /\ stage # "idle" =>
          IF loop.credits
          THEN calls + Pending + Models(loop.toTry) <= GrantedWithThis
          ELSE calls + Pending <= Granted + loop.round * Models(Creds) + Models(loop.tried)
    /\ calls <= GrantedWithThis

LEMMA PendingType == ASSUME TypeOK PROVE Pending \in Nat
  BY LoopFields DEF TypeOK, Pending

(* A round fits in a start, and a start in what is granted.                *)
LEMMA StartFits ==
  ASSUME TypeOK, loop.round \in Rounds
  PROVE  /\ Granted \in Nat /\ GrantedWithThis \in Nat
         /\ loop.round * Models(Creds) \in Nat
         /\ Models(loop.tried) \in Nat /\ Models(loop.toTry) \in Nat
         /\ Models(loop.tried) <= Models(Creds)
         /\ Models(Creds) \in Nat /\ Models(CreditCreds) \in Nat
         /\ Granted + loop.round * Models(Creds) + Models(Creds) + Models(CreditCreds)
               <= GrantedWithThis
<1>. DEFINE n == Cardinality(Rounds)
            all == Models(Creds)
            extra == Models(CreditCreds)
            r == loop.round
            q == handler.retries
            start == CallsPerStart
<1>1. /\ n \in Nat /\ all \in Nat /\ extra \in Nat /\ start \in Nat
      /\ r \in Nat /\ r + 1 <= n /\ q \in Nat
  BY CallsPerStartType, RoundsBefore DEF TypeOK
<1>2. start = n * all + extra
  BY DEF CallsPerStart
<1>3. /\ Models(loop.tried) \in Nat /\ Models(loop.toTry) \in Nat /\ Models(loop.tried) <= all
  <2>1. loop.tried \in SUBSET Creds /\ loop.toTry \in SUBSET Creds /\ Creds \in SUBSET Creds
    BY LoopFields DEF TypeOK
  <2>. QED BY <2>1, ModelsFinite, ModelsMonotone
<1>4. Granted = q * start /\ GrantedWithThis = (q + 1) * start
  BY DEF Granted, GrantedWithThis
<1>. HIDE DEF n, all, extra, r, q, start
<1>5. (r + 1) * all <= n * all
  BY <1>1, TimesMonotone
<1>6. (r + 1) * all = r * all + all /\ r * all \in Nat
  BY <1>1, OneMore
<1>7. (q + 1) * start = q * start + start /\ q * start \in Nat
  BY <1>1, OneMore
<1>8. n * all \in Nat
  BY <1>1, OneMore
<1>9. Granted \in Nat /\ GrantedWithThis = Granted + n * all + extra
  BY <1>1, <1>2, <1>4, <1>7, <1>8
<1>10. Granted + r * all + all + extra <= GrantedWithThis
  BY <1>1, <1>5, <1>6, <1>8, <1>9
<1>11. GrantedWithThis \in Nat
  BY <1>1, <1>8, <1>9
<1>. QED BY <1>1, <1>3, <1>6, <1>9, <1>10, <1>11 DEF all, extra, r

(* Three ways a step can keep within: it does not touch the request's      *)
(* loop, it ends it, or it spends what was pending.                        *)
LEMMA KeptWithin ==
  ASSUME Within, UNCHANGED <<stage, loop, calls>>, handler'.retries = handler.retries
  PROVE  Within'
<1>1. Pending' = Pending /\ Granted' = Granted /\ GrantedWithThis' = GrantedWithThis
  BY DEF Pending, Granted, GrantedWithThis
<1>. QED BY <1>1 DEF Within

LEMMA EndedWithin ==
  ASSUME Within, stage' = "idle", UNCHANGED <<loop, calls>>, handler'.retries = handler.retries
  PROVE  Within'
<1>1. GrantedWithThis' = GrantedWithThis
  BY DEF GrantedWithThis
<1>. QED BY <1>1 DEF Within

LEMMA SpentWithin ==
  ASSUME TypeOK, TypeOK', Within, stage # "idle", stage' \notin {"idle", "waiting"},
         loop'.round = loop.round, loop'.tried = loop.tried, loop'.toTry = loop.toTry,
         loop'.credits = loop.credits, handler'.retries = handler.retries,
         calls' + Pending' <= calls + Pending
  PROVE  Within'
<1>1. Granted' = Granted /\ GrantedWithThis' = GrantedWithThis
  BY DEF Granted, GrantedWithThis
<1>2. /\ calls \in Nat /\ calls' \in Nat /\ Pending \in Nat /\ Pending' \in Nat
  <2>1. Pending' \in Nat
    BY LoopFields DEF TypeOK, Pending
  <2>. QED BY <2>1, PendingType DEF TypeOK
<1>3. loop.round \in Rounds
  BY DEF Within
<1>4. PICK a \in Nat, b \in Nat, c \in Nat, d \in Nat, g \in Nat :
         a = calls' /\ b = Pending' /\ c = calls /\ d = Pending /\ g = GrantedWithThis
  <2>1. GrantedWithThis \in Nat
    BY <1>3, StartFits
  <2>. QED BY <1>2, <2>1, Zenon
<1>5. a + b <= c + d
  BY <1>4, Zenon
<1>6. CASE loop.credits
  <2>1. PICK m \in Nat : m = Models(loop.toTry)
    BY <1>3, StartFits
  <2>2. c + d + m <= g
    <3>1. calls + Pending + Models(loop.toTry) <= GrantedWithThis
      BY <1>6 DEF Within
    <3>. QED BY <1>4, <2>1, <3>1, Zenon
  <2>3. a + b + m <= g /\ a <= g
    BY <1>5, <2>2
  <2>. QED BY <1>1, <1>3, <1>4, <1>6, <2>1, <2>3 DEF Within
<1>7. CASE ~loop.credits
  <2>1. PICK spent \in Nat :
           /\ spent = Granted + loop.round * Models(Creds) + Models(loop.tried)
           /\ spent <= GrantedWithThis
    <3>. DEFINE before == loop.round * Models(Creds)
    <3>1. /\ Granted \in Nat /\ GrantedWithThis \in Nat /\ before \in Nat
          /\ Models(loop.tried) \in Nat /\ Models(loop.tried) <= Models(Creds)
          /\ Models(Creds) \in Nat /\ Models(CreditCreds) \in Nat
          /\ Granted + before + Models(Creds) + Models(CreditCreds) <= GrantedWithThis
      BY <1>3, StartFits
    <3>. HIDE DEF before
    <3>2. /\ Granted + before + Models(loop.tried) \in Nat
          /\ Granted + before + Models(loop.tried) <= GrantedWithThis
      BY <3>1
    <3>. QED BY <3>2 DEF before
  <2>2. calls + Pending <= spent
    BY <1>7, <2>1 DEF Within
  <2>3. c + d <= spent /\ spent <= g
    BY <1>4, <2>1, <2>2, Zenon
  <2>4. a + b <= spent /\ a <= g
    BY <1>5, <2>3
  <2>5. calls' + Pending' <= spent /\ calls' <= GrantedWithThis
    BY <1>4, <2>4, Zenon
  <2>. QED BY <1>1, <1>3, <1>7, <2>1, <2>5 DEF Within
<1>. QED BY <1>6, <1>7

-----------------------------------------------------------------------------
(* The steps.                                                              *)

LEMMA InitWithin == Init => Within
<1>. SUFFICES ASSUME Init PROVE Within
  OBVIOUS
<1>1. /\ stage = "round" /\ loop.round = 0 /\ loop.tried = {} /\ loop.credits = FALSE
      /\ calls = 0 /\ handler.retries = 0
  BY DEF Init, NewLoop
<1>2. Granted = 0 /\ loop.round * Models(Creds) = 0 /\ Pending = 0 /\ GrantedWithThis \in Nat
  BY <1>1, OneMore, CallsPerStartType DEF Granted, GrantedWithThis, Pending
<1>3. 0 \in Rounds
  BY DEF Rounds
<1>. QED BY <1>1, <1>2, <1>3, ModelsOfNone DEF Within

LEMMA PickWithin ==
  ASSUME IInv, IInv', Within, NEW c \in Creds, Pick(c)
  PROVE  Within'
<1>1. /\ TypeOK /\ TypeOK' /\ stage = "round" /\ ~loop.credits /\ c \in Creds \ loop.tried
      /\ calls' = calls /\ handler' = handler /\ loop \in LoopType /\ loop.tried \in SUBSET Creds
  BY LoopFields DEF IInv, CreditsLast, Pick, Elsewhere, TypeOK
<1>2. PICK n \in 0 .. Pool[c] :
         IF n = 0
         THEN loop' = [loop EXCEPT !.tried = @ \cup {c}] /\ stage' = stage
         ELSE /\ stage' = "ready"
              /\ loop' = [loop EXCEPT !.tried = @ \cup {c}, !.attempted = @ \cup {c},
                                      !.cred = c, !.left = n]
  BY DEF Pick
<1>3. /\ loop'.round = loop.round /\ ~loop'.credits /\ loop'.tried = loop.tried \cup {c}
      /\ n # 0 => loop'.left = n
  BY <1>1, <1>2 DEF LoopType
<1>4. Models(loop'.tried) = Models(loop.tried) + Pool[c]
  <2>. DEFINE S == loop.tried \cup {c}
  <2>1. S \in SUBSET Creds /\ c \in S /\ S \ {c} = loop.tried
    BY <1>1
  <2>. HIDE DEF S
  <2>2. Models(S) = Models(S \ {c}) + Pool[c]
    BY <2>1, ModelsSplit
  <2>. QED BY <1>3, <2>1, <2>2 DEF S
<1>5. Pending = 0 /\ Pending' = n
  BY <1>1, <1>2, <1>3 DEF Pending
<1>6. calls + Pending <= Granted + loop.round * Models(Creds) + Models(loop.tried)
  BY <1>1 DEF Within
<1>7. calls' + Pending' <= Granted + loop.round * Models(Creds) + Models(loop'.tried)
  <2>. DEFINE before == loop.round * Models(Creds)
  <2>1. /\ calls \in Nat /\ Granted \in Nat /\ before \in Nat /\ Models(loop.tried) \in Nat
        /\ Pool[c] \in Nat /\ n \in Nat /\ n <= Pool[c]
    BY <1>1, StartFits, PoolType DEF Within, TypeOK
  <2>2. calls <= Granted + before + Models(loop.tried)
    BY <1>5, <1>6, <2>1
  <2>. HIDE DEF before
  <2>3. calls + n <= Granted + before + (Models(loop.tried) + Pool[c])
    BY <2>1, <2>2
  <2>. QED BY <1>1, <1>4, <1>5, <2>3 DEF before
<1>8. Granted' = Granted /\ GrantedWithThis' = GrantedWithThis
  BY <1>1 DEF Granted, GrantedWithThis
<1>9. stage' \in {"round", "ready"}
  BY <1>1, <1>2
<1>. QED BY <1>1, <1>3, <1>7, <1>8, <1>9 DEF Within

LEMMA CallWithin == ASSUME IInv, IInv', Within, Call PROVE Within'
<1>1. /\ TypeOK /\ TypeOK' /\ stage = "ready" /\ stage' = "call" /\ loop' = loop
      /\ handler' = handler /\ calls' = calls + 1 /\ calls \in Nat /\ loop.left \in Nat
  BY LoopFields DEF IInv, TypeOK, Call, Elsewhere
<1>2. calls' + Pending' <= calls + Pending
  BY <1>1 DEF Pending
<1>. QED BY <1>1, <1>2, SpentWithin

(* A call or a stream's start that fails goes on to the next model, the    *)
(* next credential or the end of the round.                                *)
LEMMA FailureWithin ==
  ASSUME IInv, IInv', Within, stage \in {"call", "bootstrap"},
         NEW e, NEW chunked, Failure(e, chunked)
  PROVE  Within'
<1>1. /\ TypeOK /\ TypeOK' /\ loop \in LoopType /\ calls \in Nat /\ loop.left \in Nat /\ loop.left > 0
      /\ calls' = calls /\ handler' = handler
  BY LoopFields DEF IInv, TypeOK, Failure, Elsewhere
<1>2. Pending = loop.left - 1 /\ Pending \in Nat
  BY <1>1 DEF Pending
<1>3. CASE stage' = "ready" /\ loop' = [loop EXCEPT !.left = @ - 1]
  <2>1. /\ loop'.left = loop.left - 1 /\ loop'.round = loop.round /\ loop'.tried = loop.tried
        /\ loop'.toTry = loop.toTry /\ loop'.credits = loop.credits
    BY <1>1, <1>3 DEF LoopType
  <2>2. Pending' = Pending
    BY <1>2, <1>3, <2>1 DEF Pending
  <2>. QED BY <1>1, <1>2, <1>3, <2>1, <2>2, SpentWithin
<1>4. ASSUME NEW f, NEW b, CredentialFails(f, b)
      PROVE  Within'
  <2>1. /\ stage' \in {"credits", "failed", "round"}
        /\ loop'.round = loop.round /\ loop'.tried = loop.tried
        /\ loop'.toTry = loop.toTry /\ loop'.credits = loop.credits
    BY <1>1, <1>4 DEF CredentialFails, RoundFails, LoopType
  <2>2. Pending' = 0
    BY <2>1 DEF Pending
  <2>. QED BY <1>1, <1>2, <2>1, <2>2, SpentWithin
<1>. QED BY <1>3, <1>4 DEF Failure

LEMMA CancelledWithin == ASSUME IInv, IInv', Within, CallCancelled PROVE Within'
<1>1. /\ TypeOK /\ TypeOK' /\ loop \in LoopType /\ calls \in Nat
      /\ stage \in {"call", "bootstrap"} /\ calls' = calls /\ handler' = handler
  BY DEF IInv, TypeOK, CallCancelled, Elsewhere, history
<1>2. /\ stage' \in {"credits", "failed", "round"}
      /\ loop'.round = loop.round /\ loop'.tried = loop.tried
      /\ loop'.toTry = loop.toTry /\ loop'.credits = loop.credits
  BY <1>1 DEF CallCancelled, CredentialFails, RoundFails, LoopType
<1>3. Pending' = 0 /\ Pending \in Nat
  BY <1>1, <1>2, PendingType DEF Pending
<1>. QED BY <1>1, <1>2, <1>3, SpentWithin

LEMMA WaitWithin == ASSUME IInv, IInv', Within, WaitEnds, stage' # "idle" PROVE Within'
<1>1. /\ TypeOK /\ TypeOK' /\ stage = "waiting" /\ stage' = "round" /\ ~loop.credits
      /\ calls' = calls /\ calls \in Nat /\ handler' = handler /\ loop.round \in Nat
      /\ loop' = [NewLoop(loop.limit) EXCEPT !.round = loop.round + 1]
  BY LoopFields DEF IInv, TypeOK, CreditsLast, WaitEnds, Elsewhere, history, ReturnError
<1>2. loop'.round = loop.round + 1 /\ ~loop'.credits /\ loop'.tried = {}
  BY <1>1 DEF NewLoop
<1>3. /\ loop.round \in Rounds /\ loop.round + 1 \in Rounds
      /\ calls + Pending <= Granted + loop.round * Models(Creds) + Models(loop.tried)
      /\ calls <= GrantedWithThis
  BY <1>1 DEF Within
<1>4. Granted' = Granted /\ GrantedWithThis' = GrantedWithThis /\ Pending = 0 /\ Pending' = 0
  BY <1>1 DEF Granted, GrantedWithThis, Pending
<1>5. calls <= Granted + (loop.round + 1) * Models(Creds) + 0
  <2>. DEFINE before == loop.round * Models(Creds)
  <2>1. /\ Granted \in Nat /\ before \in Nat /\ Models(loop.tried) \in Nat
        /\ Models(Creds) \in Nat /\ Models(loop.tried) <= Models(Creds)
    BY <1>1, <1>3, StartFits
  <2>2. (loop.round + 1) * Models(Creds) = before + Models(Creds)
    BY <1>1, <2>1, OneMore
  <2>3. calls <= Granted + before + Models(loop.tried)
    BY <1>1, <1>3, <1>4, <2>1
  <2>. HIDE DEF before
  <2>4. calls <= Granted + (before + Models(Creds)) + 0
    BY <1>1, <2>1, <2>3
  <2>. QED BY <2>2, <2>4
<1>6. calls' + Pending' <= Granted' + loop'.round * Models(Creds) + Models(loop'.tried)
  <2>1. calls + 0 = calls
    BY <1>1
  <2>. QED BY <1>1, <1>2, <1>4, <1>5, <2>1, ModelsOfNone
<1>. QED BY <1>1, <1>2, <1>3, <1>4, <1>6 DEF Within

LEMMA HandlerKeepsRetries ==
  ASSUME TypeOK, NEW x
  PROVE  [handler EXCEPT !.state = x].retries = handler.retries
  BY DEF TypeOK

(* Whatever Execute returns, it is through.                                *)
LEMMA ReturnEnds ==
  ASSUME TypeOK
  PROVE  /\ ReturnAnswer => stage' = "idle" /\ handler'.retries = handler.retries
         /\ \A s, f : ReturnStream(s, f) => stage' = "idle" /\ handler'.retries = handler.retries
         /\ \A e : ReturnError(e) => stage' = "idle" /\ handler'.retries = handler.retries
         /\ \A e, b : Return(e, b) => stage' = "idle" /\ handler'.retries = handler.retries
<1>1. ASSUME ReturnAnswer PROVE stage' = "idle" /\ handler'.retries = handler.retries
  BY <1>1 DEF ReturnAnswer
<1>2. ASSUME NEW s, NEW f, ReturnStream(s, f)
      PROVE  stage' = "idle" /\ handler'.retries = handler.retries
  BY <1>2, HandlerKeepsRetries DEF ReturnStream
<1>3. ASSUME NEW e, ReturnError(e) PROVE stage' = "idle" /\ handler'.retries = handler.retries
  BY <1>3, HandlerKeepsRetries DEF ReturnError
<1>4. ASSUME NEW e, NEW b, Return(e, b)
      PROVE  stage' = "idle" /\ handler'.retries = handler.retries
  BY <1>2, <1>3, <1>4 DEF Return
<1>. QED BY <1>1, <1>2, <1>3, <1>4

LEMMA RetryWithin == ASSUME IInv, Within, Retry PROVE Within'
<1>1. /\ TypeOK /\ stage = "failed" /\ loop' = loop /\ calls' = calls /\ loop.round \in Nat
  BY LoopFields DEF IInv, TypeOK, Retry, history
<1>2. CASE ctxDone
  <2>1. stage' = "idle" /\ handler'.retries = handler.retries
    BY <1>1, <1>2, ReturnEnds DEF Retry
  <2>. QED BY <1>1, <2>1, EndedWithin
<1>3. CASE ~ctxDone
  <2>1. stage' = "waiting" /\ handler' = handler
    BY <1>3 DEF Retry, Elsewhere
  <2>2. PICK c \in Creds : loop.round < Retries[c]
    BY DEF Retry
  <2>3. loop.round + 1 \in Rounds
    <3>1. Retries[c] \in Nat /\ loop.round + 1 \in 1 .. Retries[c]
      BY <1>1, <2>2, LoopAssumption
    <3>. QED BY <3>1 DEF Rounds
  <2>4. Pending = 0 /\ Pending' = 0 /\ Granted' = Granted /\ GrantedWithThis' = GrantedWithThis
    BY <1>1, <2>1 DEF Pending, Granted, GrantedWithThis
  <2>. QED BY <1>1, <2>1, <2>3, <2>4 DEF Within
<1>. QED BY <1>2, <1>3

(* The credits fallback may call every model of its credentials, once.     *)
LEMMA GiveUpWithin == ASSUME IInv, IInv', Within, GiveUp PROVE Within'
<1>1. /\ TypeOK /\ TypeOK' /\ stage = "failed" /\ ~loop.credits /\ loop \in LoopType
      /\ calls' = calls /\ calls \in Nat
  BY DEF IInv, TypeOK, CreditsLast, GiveUp, history
<1>2. CASE Return(loop.err, loop.chunked) /\ UNCHANGED loop
  BY <1>1, <1>2, ReturnEnds, EndedWithin
<1>3. CASE /\ stage' = "credits"
           /\ loop' = [loop EXCEPT !.credits = TRUE, !.toTry = CreditCreds]
           /\ Elsewhere
  <2>1. /\ loop'.credits /\ loop'.toTry = CreditCreds /\ loop'.round = loop.round
        /\ handler' = handler
    BY <1>1, <1>3 DEF LoopType, Elsewhere
  <2>2. Pending = 0 /\ Pending' = 0 /\ GrantedWithThis' = GrantedWithThis
    BY <1>1, <1>3, <2>1 DEF Pending, GrantedWithThis
  <2>3. /\ loop.round \in Rounds
        /\ calls + Pending <= Granted + loop.round * Models(Creds) + Models(loop.tried)
        /\ calls <= GrantedWithThis
    BY <1>1 DEF Within
  <2>4. calls + 0 + Models(CreditCreds) <= GrantedWithThis
    <3>. DEFINE before == loop.round * Models(Creds)
    <3>1. /\ Granted \in Nat /\ GrantedWithThis \in Nat /\ before \in Nat
          /\ Models(loop.tried) \in Nat /\ Models(loop.tried) <= Models(Creds)
          /\ Models(Creds) \in Nat /\ Models(CreditCreds) \in Nat
          /\ Granted + before + Models(Creds) + Models(CreditCreds) <= GrantedWithThis
      BY <1>1, <2>3, StartFits
    <3>2. calls <= Granted + before + Models(loop.tried)
      BY <1>1, <2>2, <2>3, <3>1
    <3>. HIDE DEF before
    <3>. QED BY <1>1, <3>1, <3>2
  <2>. QED BY <1>1, <1>3, <2>1, <2>2, <2>3, <2>4 DEF Within
<1>. QED BY <1>2, <1>3 DEF GiveUp

LEMMA TryCreditsWithin == ASSUME IInv, IInv', Within, TryCredits PROVE Within'
<1>1. PICK c \in loop.toTry :
         /\ loop' = [loop EXCEPT !.toTry = @ \ {c}, !.cred = c, !.left = Pool[c]]
         /\ stage' = IF Pool[c] = 0 THEN "credits" ELSE "ready"
  BY DEF TryCredits
<1>2. /\ TypeOK /\ stage = "credits" /\ loop.credits /\ loop \in LoopType
      /\ loop.toTry \in SUBSET Creds /\ calls' = calls /\ calls \in Nat /\ handler' = handler
  BY LoopFields DEF IInv, TypeOK, CreditsLast, TryCredits, history, Elsewhere
<1>3. /\ loop'.toTry = loop.toTry \ {c} /\ loop'.left = Pool[c] /\ loop'.credits
      /\ loop'.round = loop.round
  BY <1>1, <1>2 DEF LoopType
<1>4. Models(loop.toTry) = Models(loop'.toTry) + Pool[c]
  BY <1>2, <1>3, ModelsSplit
<1>5. Pending = 0 /\ Pending' = Pool[c] /\ GrantedWithThis' = GrantedWithThis
  BY <1>1, <1>2, <1>3 DEF Pending, GrantedWithThis
<1>6. /\ loop.round \in Rounds /\ calls + Pending + Models(loop.toTry) <= GrantedWithThis
      /\ calls <= GrantedWithThis
  BY <1>2 DEF Within
<1>7. calls + Pool[c] + Models(loop'.toTry) <= GrantedWithThis
  <2>1. Pool[c] \in Nat /\ Models(loop'.toTry) \in Nat
    <3>1. loop'.toTry \in SUBSET Creds
      BY <1>2, <1>3
    <3>. QED BY <1>2, <3>1, PoolType, ModelsFinite
  <2>. QED BY <1>2, <1>4, <1>5, <1>6, <2>1
<1>8. stage' \in {"credits", "ready"}
  BY <1>1
<1>. QED BY <1>2, <1>3, <1>5, <1>6, <1>7, <1>8 DEF Within

(* A bootstrap retry is a start of its own.                                *)
LEMMA RestartWithin == ASSUME IInv, IInv', Within, Restart, calls' = calls PROVE Within'
<1>1. PICK limit \in Limits : loop' = NewLoop(limit)
  BY DEF Restart
<1>2. /\ handler'.retries = handler.retries + 1 /\ stage' = "round"
      /\ handler.retries \in Nat /\ calls \in Nat /\ TypeOK /\ TypeOK'
  BY LoopAssumption DEF IInv, TypeOK, Restart
<1>3. loop'.round = 0 /\ loop'.tried = {} /\ ~loop'.credits
  BY <1>1 DEF NewLoop
<1>4. /\ loop.round \in Rounds /\ calls <= GrantedWithThis
  BY DEF Within
<1>5. Granted' = GrantedWithThis /\ GrantedWithThis \in Nat
  BY <1>2, <1>4, StartFits DEF Granted, GrantedWithThis
<1>6. GrantedWithThis' = GrantedWithThis + CallsPerStart /\ CallsPerStart \in Nat
  <2>. DEFINE q == handler.retries + 1
  <2>1. q \in Nat /\ CallsPerStart \in Nat
    BY <1>2, CallsPerStartType
  <2>2. GrantedWithThis = q * CallsPerStart /\ GrantedWithThis' = (q + 1) * CallsPerStart
    BY <1>2 DEF GrantedWithThis
  <2>. HIDE DEF q
  <2>. QED BY <2>1, <2>2, OneMore
<1>7. calls <= GrantedWithThis'
  BY <1>2, <1>4, <1>5, <1>6
<1>8. Pending' = 0 /\ 0 * Models(Creds) = 0 /\ 0 \in Rounds
  BY <1>2, CallsPerStartType, OneMore DEF Pending, Rounds
<1>9. calls' + Pending' <= Granted' + loop'.round * Models(Creds) + Models(loop'.tried)
  BY <1>2, <1>3, <1>4, <1>5, <1>8, ModelsOfNone
<1>. QED BY <1>2, <1>3, <1>7, <1>8, <1>9 DEF Within

LEMMA HandleErrorWithin == ASSUME IInv, IInv', Within, HandleError PROVE Within'
<1>1. calls' = calls /\ TypeOK
  BY DEF IInv, HandleError, history
<1>2. PICK e \in Errors : IF MayRestart(e) THEN Restart ELSE Report(e)
  BY DEF HandleError
<1>3. CASE MayRestart(e)
  BY <1>1, <1>2, <1>3, RestartWithin
<1>4. CASE ~MayRestart(e)
  <2>1. stage' = stage /\ loop' = loop /\ handler'.retries = handler.retries
    BY <1>1, <1>2, <1>4, HandlerKeepsRetries DEF Report, conductor
  <2>. QED BY <1>1, <2>1, KeptWithin
<1>. QED BY <1>3, <1>4

LEMMA HandlingWithin ==
  ASSUME IInv, IInv', Within, Handling
  PROVE  Within'
<1>1. CASE HandleError
  BY <1>1, HandleErrorWithin
<1>2. CASE HandleData
  <2>1. UNCHANGED <<stage, loop, calls>>
    BY <1>2 DEF HandleData, Report, conductor, history
  <2>2. handler'.retries = handler.retries
    BY <1>2 DEF IInv, TypeOK, HandleData, Report
  <2>. QED BY <2>1, <2>2, KeptWithin
<1>3. CASE HandleBlank \/ HandlerReturns \/ HandlerCloses
  <2>1. UNCHANGED <<stage, loop, calls>>
    BY <1>3 DEF HandleBlank, HandlerReturns, HandlerCloses, conductor, history
  <2>2. handler'.retries = handler.retries
    BY <1>3 DEF IInv, TypeOK, HandleBlank, HandlerReturns, HandlerCloses
  <2>. QED BY <2>1, <2>2, KeptWithin
<1>. QED BY <1>1, <1>2, <1>3 DEF Handling

LEMMA ElsewhereWithin ==
  ASSUME IInv, Within, Forwarding \/ Answering \/ Disconnect \/ CancelContext \/ UNCHANGED vars
  PROVE  Within'
<1>1. UNCHANGED <<stage, loop, calls>>
  <2>1. CASE Forwarding
    BY <2>1 DEF Forwarding, ForwardReads, ForwardEnds, ForwardStops, Nobody, conductor, history
  <2>2. CASE Answering
    BY <2>2 DEF Answering, WriteChunk, WriteError, WriteDone, WriterGone, Unwritten,
       conductor, history
  <2>3. CASE Disconnect \/ CancelContext \/ UNCHANGED vars
    BY <2>3 DEF Disconnect, CancelContext, conductor, history, vars
  <2>. QED BY <2>1, <2>2, <2>3
<1>2. handler'.retries = handler.retries
  <2>1. CASE WriteChunk
    BY <2>1 DEF IInv, TypeOK, WriteChunk
  <2>2. CASE ~WriteChunk
    BY <2>2 DEF Forwarding, ForwardReads, ForwardEnds, ForwardStops, Answering, WriteError,
       WriteDone, WriterGone, Disconnect, CancelContext, vars
  <2>. QED BY <2>1, <2>2
<1>. QED BY <1>1, <1>2, KeptWithin

LEMMA ConductorWithin == ASSUME IInv, IInv', Within, Conductor PROVE Within'
<1>1. TypeOK /\ TypeOK' /\ loop \in LoopType /\ calls \in Nat
  BY DEF IInv, TypeOK
<1>2. CASE \E c \in Creds : Pick(c)
  BY <1>2, PickWithin
<1>3. CASE RoundEnds
  <2>1. /\ loop'.round = loop.round /\ loop'.tried = loop.tried
        /\ loop'.toTry = loop.toTry /\ loop'.credits = loop.credits
        /\ handler' = handler /\ calls' = calls /\ stage = "round" /\ stage' = "failed"
    BY <1>1, <1>3 DEF RoundEnds, Elsewhere, history, LoopType
  <2>2. Pending = 0 /\ Pending' = 0
    BY <2>1 DEF Pending
  <2>. QED BY <1>1, <2>1, <2>2, SpentWithin
<1>4. CASE Call
  BY <1>4, CallWithin
<1>5. ASSUME NEW e, CallFails(e) \/ BootstrapFails(e) PROVE Within'
  BY <1>5, FailureWithin DEF CallFails, BootstrapFails
<1>6. CASE BootstrapEmpty
  BY <1>6, FailureWithin DEF BootstrapEmpty
<1>7. CASE CallCancelled
  BY <1>7, CancelledWithin
<1>8. CASE CallSucceeds \/ BootstrapDone
  <2>1. UNCHANGED <<loop, calls>>
    BY <1>8 DEF CallSucceeds, BootstrapDone, history
  <2>2. stage' = "idle" /\ handler'.retries = handler.retries
    BY <1>1, <1>8, ReturnEnds DEF CallSucceeds, BootstrapDone
  <2>. QED BY <2>1, <2>2, EndedWithin
<1>9. CASE StreamOpens
  <2>1. /\ loop' = loop /\ handler' = handler /\ calls' = calls
        /\ stage = "call" /\ stage' = "bootstrap"
    BY <1>9 DEF StreamOpens, Elsewhere, history
  <2>2. Pending' = Pending /\ Pending \in Nat
    BY <1>1, <2>1, PendingType DEF Pending
  <2>. QED BY <1>1, <2>1, <2>2, SpentWithin
<1>10. CASE Retry
  BY <1>10, RetryWithin
<1>11. CASE WaitEnds
  <2>1. CASE stage' = "idle"
    <3>1. UNCHANGED <<loop, calls>> /\ handler'.retries = handler.retries
      BY <1>1, <1>11, <2>1, ReturnEnds DEF WaitEnds, history
    <3>. QED BY <2>1, <3>1, EndedWithin
  <2>. QED BY <1>11, <2>1, WaitWithin
<1>12. CASE GiveUp
  BY <1>12, GiveUpWithin
<1>13. CASE TryCredits
  BY <1>13, TryCreditsWithin
<1>14. CASE CreditsFail
  BY <1>1, <1>14, ReturnEnds, EndedWithin DEF CreditsFail, history
<1>. QED BY <1>2, <1>3, <1>4, <1>5, <1>6, <1>7, <1>8, <1>9, <1>10, <1>11, <1>12, <1>13, <1>14
         DEF Conductor

(* One request makes at most the upstream calls that the settings allow:   *)
(* in each start every round calls each model of each credential at most   *)
(* once, there are no more rounds than some credential allows, and the     *)
(* credits fallback calls each model of its credentials at most once.      *)
THEOREM CallsAreBounded == Spec => []CallsBounded
<1>. DEFINE Inv == IInv /\ Within
<1>1. Init => Inv
  BY InitIInv, InitWithin
<1>2. Inv /\ [Next]_vars => Inv'
  <2>. SUFFICES ASSUME Inv, [Next]_vars PROVE Within'
    BY NextIInv
  <2>1. IInv'
    BY NextIInv
  <2>. QED BY <2>1, ConductorWithin, HandlingWithin, ElsewhereWithin DEF Next, Over
<1>3. Inv => CallsBounded
  BY DEF Within, GrantedWithThis, CallsBounded
<1>. QED BY <1>1, <1>2, <1>3, PTL DEF Spec
=============================================================================
