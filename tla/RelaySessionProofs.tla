------------------------- MODULE RelaySessionProofs -------------------------
(***************************************************************************)
(* Proofs for RelaySession: types, that a caller takes only a whole answer *)
(* for one, and when the process may panic.                                *)
(*                                                                         *)
(* The first rests on what can be said of a call that still waits, as long *)
(* as its context lives and its channel lost nothing: whoever closed its   *)
(* channel, or took it out of the map, left a terminal message in the      *)
(* channel (Answered), and cleanup meets every call that a request could   *)
(* still have sent (Visited).                                              *)
(***************************************************************************)
EXTENDS RelaySession, TLAPS

-----------------------------------------------------------------------------
(* What a channel holds.                                                   *)
Successes == {"response", "end"}
HasEnd(s) == \E k \in 1 .. Len(s) : s[k] \in Terminals

(* The first terminal message, when it is no error, comes after all the    *)
(* chunks that the caller has not received yet.                            *)
Exact(s, n, p) ==
    \A k \in 1 .. Len(s) :
        s[k] \in Successes /\ (\A j \in 1 .. k - 1 : s[j] = "chunk")
            => p.ended /\ n + k - 1 = p.body

Peers == [body : Nat, ended : BOOLEAN]

LEMMA AppendMessage ==
    ASSUME NEW s \in Seq(Kinds), NEW kind \in Kinds
    PROVE  /\ Append(s, kind) \in Seq(Kinds) /\ Len(Append(s, kind)) = Len(s) + 1
           /\ \A k \in 1 .. Len(s) : Append(s, kind)[k] = s[k]
           /\ Append(s, kind)[Len(s) + 1] = kind
           /\ HasEnd(s) => HasEnd(Append(s, kind))
           /\ kind \in Terminals => HasEnd(Append(s, kind))
           /\ HasEnd(Append(s, kind)) => HasEnd(s) \/ kind \in Terminals
<1>1. /\ Append(s, kind) \in Seq(Kinds) /\ Len(Append(s, kind)) = Len(s) + 1
      /\ \A k \in 1 .. Len(s) : Append(s, kind)[k] = s[k]
      /\ Append(s, kind)[Len(s) + 1] = kind
  OBVIOUS
<1>2. Len(s) \in Nat
  OBVIOUS
<1>3. HasEnd(s) => HasEnd(Append(s, kind))
  BY <1>1, <1>2 DEF HasEnd
<1>4. kind \in Terminals => HasEnd(Append(s, kind))
  BY <1>1, <1>2 DEF HasEnd
<1>5. HasEnd(Append(s, kind)) => HasEnd(s) \/ kind \in Terminals
  <2> SUFFICES ASSUME NEW k \in 1 .. Len(Append(s, kind)), Append(s, kind)[k] \in Terminals,
                      kind \notin Terminals
               PROVE  HasEnd(s)
    BY DEF HasEnd
  <2>1. k \in 1 .. Len(s)
    BY <1>1, <1>2
  <2> QED BY <1>1, <2>1 DEF HasEnd
<1> QED BY <1>1, <1>3, <1>4, <1>5

LEMMA AppendExact ==
    ASSUME NEW s \in Seq(Kinds), NEW kind \in Kinds, NEW n \in Nat, NEW p \in Peers,
           Exact(s, n, p),
           ~HasEnd(s) /\ kind \in Successes => p.ended /\ n + Len(s) = p.body
    PROVE  Exact(Append(s, kind), n, p)
<1> SUFFICES ASSUME NEW k \in 1 .. Len(s) + 1,
                    Append(s, kind)[k] \in Successes,
                    \A j \in 1 .. k - 1 : Append(s, kind)[j] = "chunk"
             PROVE  p.ended /\ n + k - 1 = p.body
  BY AppendMessage DEF Exact
<1>1. Len(s) \in Nat
  OBVIOUS
<1>2. CASE k \in 1 .. Len(s)
  <2>1. s[k] \in Successes
    BY <1>2, AppendMessage
  <2>2. \A j \in 1 .. k - 1 : j \in 1 .. Len(s) /\ s[j] = "chunk"
    BY <1>1, <1>2, AppendMessage
  <2> QED BY <1>2, <2>1, <2>2 DEF Exact
<1>3. CASE k = Len(s) + 1
  <2>1. kind \in Successes
    BY <1>3, AppendMessage
  <2>2. \A j \in 1 .. Len(s) : s[j] = "chunk"
    BY <1>1, <1>3, AppendMessage
  <2>3. ~HasEnd(s)
    BY <2>2 DEF HasEnd, Terminals
  <2> QED BY <1>1, <1>3, <2>1, <2>3 DEF Peers
<1> QED BY <1>1, <1>2, <1>3

LEMMA TailMessage ==
    ASSUME NEW s \in Seq(Kinds), s # <<>>
    PROVE  /\ Tail(s) \in Seq(Kinds) /\ Len(Tail(s)) = Len(s) - 1 /\ Len(s) \in Nat \ {0}
           /\ \A k \in 1 .. Len(s) - 1 : Tail(s)[k] = s[k + 1]
           /\ Head(s) = s[1] /\ Head(s) \in Kinds
OBVIOUS

LEMMA TailExact ==
    ASSUME NEW s \in Seq(Kinds), s # <<>>, Head(s) = "chunk", NEW n \in Nat, NEW p \in Peers,
           Exact(s, n, p)
    PROVE  /\ Exact(Tail(s), n + 1, p)
           /\ HasEnd(s) <=> HasEnd(Tail(s))
<1>1. /\ Len(Tail(s)) = Len(s) - 1 /\ Len(s) \in Nat \ {0}
      /\ \A k \in 1 .. Len(s) - 1 : Tail(s)[k] = s[k + 1]
      /\ s[1] = "chunk"
  BY TailMessage
<1>2. Exact(Tail(s), n + 1, p)
  <2> SUFFICES ASSUME NEW k \in 1 .. Len(s) - 1, Tail(s)[k] \in Successes,
                      \A j \in 1 .. k - 1 : Tail(s)[j] = "chunk"
               PROVE  p.ended /\ n + 1 + k - 1 = p.body
    BY <1>1 DEF Exact
  <2>1. k + 1 \in 1 .. Len(s) /\ s[k + 1] \in Successes
    BY <1>1
  <2>2. ASSUME NEW j \in 1 .. k PROVE s[j] = "chunk"
    <3>1. CASE j = 1
      BY <1>1, <3>1
    <3>2. CASE j # 1
      <4>1. j - 1 \in 1 .. k - 1 /\ j - 1 \in 1 .. Len(s) - 1
        BY <1>1, <3>2
      <4>2. Tail(s)[j - 1] = s[j - 1 + 1] /\ j - 1 + 1 = j
        BY <1>1, <4>1
      <4> QED BY <4>1, <4>2
    <3> QED BY <3>1, <3>2
  <2>3. (k + 1) - 1 = k
    OBVIOUS
  <2>4. \A j \in 1 .. (k + 1) - 1 : s[j] = "chunk"
    BY <2>2, <2>3
  <2>5. p.ended /\ n + (k + 1) - 1 = p.body
    BY <2>1, <2>4 DEF Exact
  <2> QED BY <2>5
<1>3. HasEnd(s) => HasEnd(Tail(s))
  <2> SUFFICES ASSUME NEW k \in 1 .. Len(s), s[k] \in Terminals PROVE HasEnd(Tail(s))
    BY DEF HasEnd
  <2>1. k # 1
    BY <1>1 DEF Terminals
  <2>2. k - 1 \in 1 .. Len(s) - 1 /\ Tail(s)[k - 1] = s[k - 1 + 1] /\ k - 1 + 1 = k
    BY <1>1, <2>1
  <2> QED BY <1>1, <2>2 DEF HasEnd
<1>4. HasEnd(Tail(s)) => HasEnd(s)
  <2> SUFFICES ASSUME NEW k \in 1 .. Len(s) - 1, Tail(s)[k] \in Terminals PROVE HasEnd(s)
    BY <1>1 DEF HasEnd
  <2>1. k + 1 \in 1 .. Len(s) /\ s[k + 1] \in Terminals
    BY <1>1
  <2> QED BY <2>1 DEF HasEnd
<1> QED BY <1>2, <1>3, <1>4

LEMMA HeadExact ==
    ASSUME NEW s \in Seq(Kinds), s # <<>>, Head(s) \in Successes, NEW n \in Nat,
           NEW p \in Peers, Exact(s, n, p)
    PROVE  p.ended /\ n = p.body
<1>1. s[1] \in Successes /\ 1 \in 1 .. Len(s)
  BY TailMessage
<1>2. \A j \in 1 .. 1 - 1 : s[j] = "chunk"
  OBVIOUS
<1>3. p.ended /\ n + 1 - 1 = p.body
  BY <1>1, <1>2 DEF Exact
<1> QED BY <1>3

LEMMA HeardType ==
    ASSUME NEW p \in Peers, NEW kind \in Kinds
    PROVE  /\ Heard(p, kind) \in Peers
           /\ p.ended => Heard(p, kind) = p
           /\ ~p.ended /\ kind = "chunk" =>
                 ~Heard(p, kind).ended /\ Heard(p, kind).body = p.body + 1
           /\ ~p.ended /\ kind \in Terminals =>
                 Heard(p, kind).ended /\ Heard(p, kind).body = p.body
<1>1. CASE p.ended
  BY <1>1 DEF Heard, Peers
<1>2. CASE ~p.ended /\ kind = "chunk"
  BY <1>2 DEF Heard, Peers, Terminals
<1>3. CASE ~p.ended /\ kind # "chunk"
  BY <1>3 DEF Heard, Peers
<1> QED BY <1>1, <1>2, <1>3

LEMMA EmptyExact ==
    ASSUME NEW n, NEW p PROVE Exact(<<>>, n, p) /\ ~HasEnd(<<>>)
BY DEF Exact, HasEnd

-----------------------------------------------------------------------------
(* Types.                                                                  *)
Places == {"idle", "stored", "checked", "refused", "waiting"} \cup Results
Cleanups == [at : {"none", "range", "send", "replacing", "replaced", "done"},
             call : Calls \cup {NoCall},
             left : SUBSET Calls, seen : SUBSET Calls, stored : SUBSET Calls]
Readers == [at : {"read", "load", "send", "delete", "gone"},
            call : Calls \cup {NoCall}, kind : Kinds]

LEMMA ConstantTypes ==
    /\ Idle \in Cleanups /\ Reading \in Readers
    /\ Silent \in Peers
    /\ Idle.at = "none" /\ Idle.call = NoCall /\ Idle.left = {} /\ Idle.seen = {}
    /\ Reading.at = "read" /\ Reading.call = NoCall
BY DEF Idle, Reading, Silent, Cleanups, Readers, Peers, Kinds

(* What a delivery does to channels of the right type.                     *)
LEMMA DeliverType ==
    ASSUME TypeOK, NEW c \in Calls, NEW kind \in Kinds, Deliver(c, kind)
    PROVE  /\ channel' \in [Calls -> Seq(Kinds)]
           /\ \A d \in Calls : Len(channel'[d]) <= BufferSize
           /\ overflowed' \subseteq Calls
           /\ crashed' \in BOOLEAN
<1>1. CASE c \in shut
  BY <1>1 DEF Deliver, TypeOK
<1>2. CASE c \notin shut /\ Len(channel[c]) < BufferSize
  <2>1. channel' = [channel EXCEPT ![c] = Append(@, kind)]
    BY <1>2 DEF Deliver
  <2>2. channel[c] \in Seq(Kinds) /\ Len(Append(channel[c], kind)) = Len(channel[c]) + 1
        /\ Append(channel[c], kind) \in Seq(Kinds) /\ Len(channel[c]) \in Nat
    BY AppendMessage DEF TypeOK
  <2> QED BY <1>2, <2>1, <2>2, RelayAssumption DEF Deliver, TypeOK
<1>3. CASE c \notin shut /\ ~(Len(channel[c]) < BufferSize)
  BY <1>3 DEF Deliver, TypeOK
<1> QED BY <1>1, <1>2, <1>3

LEMMA TypeInit == Init => TypeOK
<1> SUFFICES ASSUME Init PROVE TypeOK
  OBVIOUS
<1>1. \A c \in Calls : channel[c] = <<>> /\ Len(channel[c]) = 0
  BY DEF Init
<1>2. /\ cleanup \in Cleanups /\ reader \in Readers
      /\ peer \in [Calls -> Peers] /\ got \in [Calls -> Nat]
      /\ call \in [Calls -> Places] /\ watcher \in [Calls -> {"none", "waiting", "gone"}]
  BY ConstantTypes DEF Init, Places
<1>3. channel \in [Calls -> Seq(Kinds)]
  BY DEF Init
<1>4. /\ \A c \in Calls : Len(channel[c]) <= BufferSize
      /\ messages \in 0 .. MaxMessages
  BY <1>1, RelayAssumption DEF Init
<1> QED BY <1>2, <1>3, <1>4 DEF Init, TypeOK, Cleanups, Readers, Peers, Places

LEMMA TypeCaller ==
    ASSUME TypeOK, NEW c \in Calls,
           Store(c) \/ Cancel(c) \/ CallerStep(c) \/ WatcherStep(c)
    PROVE  TypeOK'
<1>1. CASE Store(c)
  <2>1. cleanup' \in Cleanups
    BY <1>1 DEF Store, TypeOK, Cleanups
  <2> QED BY <1>1, <2>1 DEF Store, Goes, TypeOK, Cleanups, client
<1>2. CASE Cancel(c)
  BY <1>2 DEF Cancel, TypeOK, channels, session, client
<1>3. CASE Load(c)
  BY ZenonT(60), <1>3 DEF Load, Goes, TypeOK, channels, session, client, Results
<1>4. CASE Write(c) \/ WriteFails(c)
  BY <1>4 DEF Write, WriteFails, Goes, TypeOK, channels, session, client
<1>5. CASE Abandon(c)
  <2>1. call' \in [Calls -> Places]
    <3>1. \E to \in {"failed", "panicked"} : call' = [call EXCEPT ![c] = to]
      BY <1>5 DEF Abandon, Goes
    <3>2. call \in [Calls -> Places] /\ {"failed", "panicked"} \subseteq Places
      BY DEF TypeOK, Places, Results
    <3> QED BY <3>1, <3>2
  <2>2. pending' \subseteq Calls /\ shut' \subseteq Calls
    BY <1>5 DEF Abandon, Close, TypeOK
  <2>3. UNCHANGED <<channel, session, watcher, cancelled, got, client, overflowed, crashed>>
    BY <1>5 DEF Abandon
  <2> QED BY <2>1, <2>2, <2>3 DEF TypeOK, Places, session, client
<1>6. CASE Watch(c) \/ WatchEnds(c)
  BY <1>6 DEF Watch, WatchEnds, Close, TypeOK, channels, session, client
<1>7. CASE WatchTrips(c)
  BY <1>7 DEF WatchTrips, Crash, TypeOK, channels, session, callers, client
<1> QED BY <1>1, <1>2, <1>3, <1>4, <1>5, <1>6, <1>7 DEF CallerStep, WatcherStep

LEMMA TypeAwait ==
    ASSUME TypeOK, NEW c \in Calls, AwaitStep(c)
    PROVE  TypeOK'
<1>1. CASE Receive(c)
  <2>1. channel[c] \in Seq(Kinds) /\ channel[c] # <<>> /\ Len(channel[c]) <= BufferSize
    BY <1>1 DEF Receive, TypeOK
  <2>2. /\ Tail(channel[c]) \in Seq(Kinds)
        /\ Len(Tail(channel[c])) = Len(channel[c]) - 1 /\ Len(channel[c]) \in Nat
    BY <2>1, TailMessage
  <2>3. channel' = [channel EXCEPT ![c] = Tail(channel[c])]
    BY <1>1 DEF Receive
  <2>4. /\ channel' \in [Calls -> Seq(Kinds)]
        /\ \A d \in Calls : Len(channel'[d]) <= BufferSize
    BY <2>1, <2>2, <2>3, RelayAssumption DEF TypeOK
  <2>5. got' \in [Calls -> Nat] /\ call' \in [Calls -> Places]
    BY <1>1 DEF Receive, TypeOK, Places, Results
  <2> QED BY <1>1, <2>4, <2>5 DEF Receive, TypeOK, Places, session, client
<1>2. CASE ReceiveClosed(c)
  BY ZenonT(60), <1>2 DEF ReceiveClosed, Goes, TypeOK, channels, session, client, Results
<1>3. CASE GiveUp(c)
  BY <1>3 DEF GiveUp, Goes, TypeOK, channels, session, client, Results
<1> QED BY <1>1, <1>2, <1>3 DEF AwaitStep

(* What the moves of the reader and of the cleanup leave alone.            *)
LEMMA ReaderMoves ==
    ASSUME reader \in Readers, NEW at \in {"send", "delete"}
    PROVE  /\ [reader EXCEPT !.at = at] \in Readers
           /\ [reader EXCEPT !.at = at].at = at
           /\ [reader EXCEPT !.at = at].call = reader.call
           /\ [reader EXCEPT !.at = at].kind = reader.kind
           /\ [Reading EXCEPT !.at = "gone"] \in Readers
           /\ [Reading EXCEPT !.at = "gone"].at = "gone"
           /\ [Reading EXCEPT !.at = "gone"].call = NoCall
BY ConstantTypes DEF Readers

LEMMA CleanupRests ==
    ASSUME NEW at \in {"replaced", "done"}
    PROVE  /\ [Idle EXCEPT !.at = at] \in Cleanups
           /\ [Idle EXCEPT !.at = at].at = at
           /\ [Idle EXCEPT !.at = at].call = NoCall
BY ConstantTypes DEF Cleanups

LEMMA CleanupStarts ==
    ASSUME TypeOK, NEW next, next = [Idle EXCEPT !.at = "range", !.left = pending]
    PROVE  /\ next \in Cleanups
           /\ next.at = "range" /\ next.call = NoCall
           /\ next.left = pending /\ next.seen = {}
BY ConstantTypes DEF Cleanups, TypeOK

LEMMA CleanupVisits ==
    ASSUME cleanup \in Cleanups, NEW c \in Calls, NEW next,
           next = [cleanup EXCEPT !.at = "send", !.call = c, !.seen = @ \cup {c}]
    PROVE  /\ next \in Cleanups
           /\ next.at = "send" /\ next.call = c
           /\ next.left = cleanup.left /\ next.seen = cleanup.seen \cup {c}
BY DEF Cleanups

LEMMA CleanupReturns ==
    ASSUME cleanup \in Cleanups, NEW next,
           next = [cleanup EXCEPT !.at = "range", !.call = NoCall]
    PROVE  /\ next \in Cleanups
           /\ next.at = "range" /\ next.call = NoCall
           /\ next.left = cleanup.left /\ next.seen = cleanup.seen
BY DEF Cleanups

LEMMA CleanupReplaces ==
    ASSUME cleanup \in Cleanups, NEW next, next = [cleanup EXCEPT !.at = "replacing"]
    PROVE  /\ next \in Cleanups
           /\ next.at = "replacing" /\ next.call = cleanup.call
           /\ next.left = cleanup.left /\ next.seen = cleanup.seen
BY DEF Cleanups

LEMMA CleanupStores ==
    ASSUME cleanup \in Cleanups, NEW c \in Calls, NEW next,
           next = IF Replacing THEN [cleanup EXCEPT !.stored = @ \cup {c}] ELSE cleanup
    PROVE  /\ next \in Cleanups
           /\ next.at = cleanup.at /\ next.call = cleanup.call
           /\ next.left = cleanup.left /\ next.seen = cleanup.seen
<1>1. CASE Replacing
  BY <1>1 DEF Cleanups
<1>2. CASE ~Replacing
  BY <1>2
<1> QED BY <1>1, <1>2

LEMMA TypeReader ==
    ASSUME TypeOK,
           (\E c \in Calls, kind \in Kinds : Read(c, kind)) \/ Dispatch \/ ReaderTrips
               \/ ReaderFails,
           reader.at \in {"load", "send", "delete"} => reader.call \in Calls
    PROVE  TypeOK'
<1>0. reader \in Readers /\ cleanup \in Cleanups
  BY DEF TypeOK, Readers, Cleanups
<1>1. ASSUME NEW c \in Calls, NEW kind \in Kinds, Read(c, kind) PROVE TypeOK'
  <2>1. reader' \in Readers
    BY <1>1 DEF Read, Readers
  <2>2. peer' \in [Calls -> Peers]
    <3>1. peer \in [Calls -> Peers] /\ peer' = [peer EXCEPT ![c] = Heard(peer[c], kind)]
      BY <1>1 DEF Read, TypeOK, Peers
    <3>2. Heard(peer[c], kind) \in Peers
      BY <3>1, HeardType
    <3> QED BY <3>1, <3>2
  <2>3. messages' \in 0 .. MaxMessages
    BY <1>1, RelayAssumption DEF Read, TypeOK
  <2> QED BY <1>1, <2>1, <2>2, <2>3 DEF Read, TypeOK, Readers, Peers, channels, callers
<1>2. CASE Dispatch
  <2>1. reader' \in Readers
    BY <1>0, <1>2, ConstantTypes DEF Dispatch, Readers
  <2> QED BY <1>2, <2>1 DEF Dispatch, TypeOK, Readers, channels, callers, client
<1>3. CASE ReaderTrips
  BY <1>3 DEF ReaderTrips, Crash, TypeOK, channels, session, callers, client
<1>4. CASE ReaderFails
  <2>1. reader' \in Readers
    BY <1>4, ConstantTypes DEF ReaderFails, Readers
  <2>2. cleanup' \in Cleanups /\ closed' \in BOOLEAN
    BY ZenonT(60), <1>0, <1>4, ConstantTypes DEF ReaderFails, Cleanups, TypeOK
  <2> QED BY <1>4, <2>1, <2>2 DEF ReaderFails, TypeOK, Readers, Cleanups, channels, callers, client
<1> QED BY <1>1, <1>2, <1>3, <1>4

LEMMA TypeSends ==
    ASSUME TypeOK, Send \/ DeleteEntry,
           reader.at \in {"load", "send", "delete"} => reader.call \in Calls
    PROVE  TypeOK'
<1>0. reader \in Readers
  BY DEF TypeOK, Readers
<1>1. CASE Send
  <2>1. reader.call \in Calls /\ reader.kind \in Kinds /\ Deliver(reader.call, reader.kind)
    BY <1>0, <1>1 DEF Send, Readers
  <2>2. reader' \in Readers
    BY <1>0, <1>1, ReaderMoves, ConstantTypes DEF Send
  <2> QED BY <1>1, <2>1, <2>2, DeliverType DEF Send, TypeOK, Readers, callers, client
<1>2. CASE DeleteEntry
  <2>1. reader' \in Readers
    BY <1>2, ConstantTypes DEF DeleteEntry
  <2> QED BY <1>2, <2>1 DEF DeleteEntry, Close, TypeOK, Readers, callers, client
<1> QED BY <1>1, <1>2

LEMMA TypeCleanup ==
    ASSUME TypeOK, CleanupStep \/ StartCleanup,
           cleanup.at = "send" => cleanup.call \in Calls
    PROVE  TypeOK'
<1>0. cleanup \in Cleanups
  BY DEF TypeOK, Cleanups
<1>1. CASE StartCleanup
  <2>1. cleanup' \in Cleanups
    BY <1>1, CleanupStarts DEF StartCleanup
  <2> QED BY <1>1, <2>1 DEF StartCleanup, TypeOK, Cleanups, channels, callers, client
<1>2. ASSUME NEW c \in Calls, Visit(c) PROVE TypeOK'
  <2>1. cleanup' \in Cleanups
    BY <1>0, <1>2, CleanupVisits DEF Visit
  <2> QED BY <1>2, <2>1 DEF Visit, TypeOK, Cleanups, channels, callers, client
<1>3. CASE CloseWithError
  <2>1. cleanup.call \in Calls /\ "error" \in Kinds /\ Deliver(cleanup.call, "error")
    BY <1>3 DEF CloseWithError, Kinds, Terminals
  <2>2. cleanup' \in Cleanups
    BY <1>0, <1>3, CleanupReturns DEF CloseWithError
  <2> QED BY <1>3, <2>1, <2>2, DeliverType DEF CloseWithError, Close, TypeOK, Cleanups, callers, client
<1>4. CASE Replace
  <2>1. cleanup' \in Cleanups
    BY <1>0, <1>4, CleanupReplaces DEF Replace
  <2> QED BY <1>4, <2>1 DEF Replace, TypeOK, Cleanups, channels, callers, client
<1>5. ASSUME NEW kept \in SUBSET Calls, Replaced(kept) PROVE TypeOK'
  <2>1. cleanup' \in Cleanups
    BY <1>5, CleanupRests DEF Replaced
  <2> QED BY <1>5, <2>1 DEF Replaced, TypeOK, Cleanups, callers, client
<1>6. CASE Disconnect
  <2>1. cleanup' \in Cleanups
    BY <1>6, CleanupRests DEF Disconnect
  <2> QED BY <1>6, <2>1 DEF Disconnect, TypeOK, Cleanups, channels, callers, client
<1> QED BY <1>1, <1>2, <1>3, <1>4, <1>5, <1>6 DEF CleanupStep

-----------------------------------------------------------------------------
(* The invariant.                                                          *)
Dispatches(c) == reader.at \in {"load", "send"} /\ reader.call = c
ChunkInHand(c) == Dispatches(c) /\ reader.kind = "chunk"
EndInHand(c) == Dispatches(c) /\ reader.kind \in Terminals
Ranging == cleanup.at \in {"range", "send", "replacing"}
Calm == ~closed /\ cancelled = {}

(* Where the goroutines are, and what can be said of a call not yet sent.  *)
TurnsOK ==
    /\ closed <=> cleanup.at # "none"
    /\ cleanup.at = "send" => cleanup.call \in Calls /\ call[cleanup.call] # "idle"
    /\ cleanup.at # "send" => cleanup.call = NoCall
    /\ reader.at \in {"load", "send", "delete"} =>
          reader.call \in Calls /\ watcher[reader.call] # "none"
    /\ reader.at = "delete" => reader.kind \in Terminals
    /\ reader.at \in {"load", "send"} /\ reader.kind \in Terminals => peer[reader.call].ended

CallOK(c) ==
    /\ watcher[c] # "none" => call[c] \in {"waiting"} \cup Results
    /\ watcher[c] = "none" => peer[c] = Silent
    /\ call[c] = "idle" => /\ c \notin pending /\ c \notin shut
                           /\ channel[c] = <<>> /\ got[c] = 0

(* Without an end the map holds open channels only, and what the reader    *)
(* looked up stays in it until the reader deletes it.                      *)
CalmOK ==
    Calm => /\ pending \cap shut = {}
            /\ reader.at \in {"send", "delete"} => reader.call \in pending
            /\ ~crashed

(* cleanup meets every call that is sent, and shuts what it has met.       *)
Sent(c) == call[c] \in {"checked", "waiting"}
Visited(c) ==
    /\ Ranging /\ Sent(c) /\ c \in pending => c \in cleanup.left
    /\ Ranging /\ c \in cleanup.seen /\ c # cleanup.call => c \in shut
    /\ cleanup.at = "replacing" /\ Sent(c) /\ c \in pending => c \in shut

(* A call on its way to an answer, which nothing excuses from a whole one. *)
Due(c) == call[c] \in {"stored", "checked", "waiting"}
              /\ c \notin cancelled /\ c \notin overflowed

Answered(c) ==
    ~crashed /\ Due(c) =>
        /\ c \in shut => HasEnd(channel[c])
        /\ call[c] # "stored" /\ c \notin pending => HasEnd(channel[c])
        /\ reader.at = "delete" /\ reader.call = c => HasEnd(channel[c])
        /\ Exact(channel[c], got[c], peer[c])
        /\ ~HasEnd(channel[c]) =>
              /\ ChunkInHand(c) => peer[c].body = got[c] + Len(channel[c]) + 1
              /\ ~ChunkInHand(c) => peer[c].body = got[c] + Len(channel[c])
              /\ peer[c].ended => EndInHand(c)

Complete(c) ==
    call[c] = "ok" =>
        \/ peer[c].ended /\ got[c] = peer[c].body
        \/ c \in overflowed \/ c \in cancelled

IInv ==
    /\ TypeOK /\ TurnsOK /\ CalmOK
    /\ \A c \in Calls : CallOK(c) /\ Visited(c) /\ Answered(c) /\ Complete(c)

LEMMA TypeStep ==
    ASSUME TypeOK, TurnsOK, Next
    PROVE  TypeOK'
<1>1. ASSUME NEW c \in Calls, Store(c) \/ Cancel(c) \/ CallerStep(c) \/ WatcherStep(c)
      PROVE  TypeOK'
  BY <1>1, TypeCaller
<1>2. ASSUME NEW c \in Calls, AwaitStep(c) PROVE TypeOK'
  BY <1>2, TypeAwait
<1>3. CASE (\E c \in Calls, kind \in Kinds : Read(c, kind)) \/ Dispatch \/ ReaderTrips
              \/ ReaderFails
  BY <1>3, TypeReader DEF TurnsOK
<1>4. CASE Send \/ DeleteEntry
  BY <1>4, TypeSends DEF TurnsOK
<1>5. CASE CleanupStep \/ StartCleanup
  BY <1>5, TypeCleanup DEF TurnsOK
<1> QED BY <1>1, <1>2, <1>3, <1>4, <1>5 DEF Next, ReaderStep

(* The same facts, as the steps below cite them.                           *)
LEMMA Shapes ==
    ASSUME TypeOK
    PROVE  /\ reader \in Readers /\ cleanup \in Cleanups
           /\ reader.at \in {"read", "load", "send", "delete", "gone"}
           /\ reader.kind \in Kinds
           /\ cleanup.at \in {"none", "range", "send", "replacing", "replaced", "done"}
           /\ closed \in BOOLEAN /\ crashed \in BOOLEAN
           /\ \A c \in Calls :
                 /\ channel[c] \in Seq(Kinds) /\ got[c] \in Nat /\ peer[c] \in Peers
                 /\ peer[c].ended \in BOOLEAN /\ peer[c].body \in Nat
                 /\ Len(channel[c]) \in Nat
BY DEF TypeOK, Readers, Cleanups, Peers

-----------------------------------------------------------------------------
(* Who is where.                                                           *)

(* The steps of callers and watchers move neither reader nor cleanup.      *)
LEMMA TurnsCaller ==
    ASSUME TypeOK, TurnsOK, \A d \in Calls : CallOK(d), NEW c \in Calls,
           Cancel(c) \/ CallerStep(c) \/ WatcherStep(c) \/ AwaitStep(c)
    PROVE  /\ TurnsOK' /\ UNCHANGED <<reader, cleanup, closed, peer>>
           /\ \A d \in Calls \ {c} : UNCHANGED <<call[d], watcher[d], channel[d], got[d]>>
           /\ call[c] = "idle" => UNCHANGED <<call, watcher, channel, got, pending, shut>>
           /\ call[c] # "idle" => call'[c] # "idle"
           /\ pending' \ pending = {} /\ shut' \ shut \subseteq {c}
           /\ watcher[c] # "none" => watcher'[c] # "none"
           /\ watcher[c] = "none" /\ watcher'[c] # "none" => call'[c] = "waiting"
           /\ call[c] \in {"waiting"} \cup Results => call'[c] \in {"waiting"} \cup Results
<1>1. UNCHANGED <<reader, cleanup, closed, peer>>
  BY DEF Cancel, CallerStep, WatcherStep, AwaitStep, Load, Write, WriteFails, Abandon, Watch,
         WatchTrips, WatchEnds, Crash, Receive, ReceiveClosed, GiveUp, session, client, channels,
         callers
<1>2. \A d \in Calls \ {c} : UNCHANGED <<call[d], watcher[d], channel[d], got[d]>>
  BY DEF TypeOK, Cancel, CallerStep, WatcherStep, AwaitStep, Load, Write, WriteFails, Abandon,
         Watch, WatchTrips, WatchEnds, Crash, Receive, ReceiveClosed, GiveUp, Goes, session,
         client, channels, callers
<1>3. pending' \ pending = {} /\ shut' \ shut \subseteq {c}
  BY DEF Cancel, CallerStep, WatcherStep, AwaitStep, Load, Write, WriteFails, Abandon, Watch,
         WatchTrips, WatchEnds, Crash, Receive, ReceiveClosed, GiveUp, Close, channels
<1>4. /\ call[c] = "idle" => UNCHANGED <<call, watcher, channel, got, pending, shut>>
      /\ call[c] # "idle" => call'[c] # "idle"
      /\ watcher[c] # "none" => watcher'[c] # "none"
      /\ watcher[c] = "none" /\ watcher'[c] # "none" => call'[c] = "waiting"
      /\ call[c] \in {"waiting"} \cup Results => call'[c] \in {"waiting"} \cup Results
  <2>0. /\ call[c] = "idle" => watcher[c] = "none"
        /\ c \in Calls /\ call \in [Calls -> Places]
        /\ watcher \in [Calls -> {"none", "waiting", "gone"}]
    BY DEF CallOK, TypeOK, Results, Places
  <2>1. CASE Cancel(c)
    BY <2>0, <2>1 DEF Cancel, channels
  <2>2. CASE CallerStep(c)
    BY <2>0, <2>2 DEF CallerStep, Load, Write, WriteFails, Abandon, Goes, channels, Results
  <2>3. CASE WatcherStep(c)
    BY <2>0, <2>3 DEF WatcherStep, Watch, WatchTrips, WatchEnds, Crash, channels, callers
  <2>4. CASE AwaitStep(c)
    BY <2>0, <2>4 DEF AwaitStep, Receive, ReceiveClosed, GiveUp, Goes, channels, Results
  <2> QED BY <2>1, <2>2, <2>3, <2>4
<1>5. TurnsOK'
  <2>1. cleanup.at = "send" => call'[cleanup.call] # "idle"
    BY <1>2, <1>4 DEF TurnsOK
  <2>2. reader.at \in {"load", "send", "delete"} => watcher'[reader.call] # "none"
    BY <1>2, <1>4 DEF TurnsOK
  <2> QED BY <1>1, <2>1, <2>2 DEF TurnsOK
<1> QED BY <1>1, <1>2, <1>3, <1>4, <1>5

LEMMA CallsCaller ==
    ASSUME TypeOK, TurnsOK, \A d \in Calls : CallOK(d), NEW c \in Calls,
           Cancel(c) \/ CallerStep(c) \/ WatcherStep(c) \/ AwaitStep(c)
    PROVE  \A d \in Calls : CallOK(d)'
<1> SUFFICES ASSUME NEW d \in Calls PROVE CallOK(d)'
  OBVIOUS
<1>1. CASE d = c
  BY <1>1, TurnsCaller DEF CallOK
<1>2. CASE d # c
  BY <1>2, TurnsCaller DEF CallOK
<1> QED BY <1>1, <1>2

LEMMA TurnsStore ==
    ASSUME TypeOK, TurnsOK, \A d \in Calls : CallOK(d), NEW c \in Calls, Store(c)
    PROVE  /\ TurnsOK' /\ \A d \in Calls : CallOK(d)'
           /\ UNCHANGED <<cleanup.at, cleanup.call, cleanup.left, cleanup.seen>>
           /\ call[c] = "idle" /\ call'[c] = "stored"
           /\ \A d \in Calls \ {c} : UNCHANGED call[d]
<1>1. UNCHANGED <<cleanup.at, cleanup.call, cleanup.left, cleanup.seen>>
  BY Shapes, CleanupStores DEF Store
<1>2. /\ call[c] = "idle" /\ call'[c] = "stored"
      /\ \A d \in Calls \ {c} : UNCHANGED call[d]
      /\ UNCHANGED <<reader, closed, watcher, peer, channel, shut, got>>
      /\ pending' = pending \cup {c}
  BY DEF Store, Goes, TypeOK, client
<1>3. TurnsOK'
  BY <1>1, <1>2 DEF TurnsOK
<1>4. ASSUME NEW d \in Calls PROVE CallOK(d)'
  <2>1. CASE d = c
    BY <1>2, <2>1 DEF CallOK, Results
  <2>2. CASE d # c
    BY <1>2, <2>2 DEF CallOK
  <2> QED BY <2>1, <2>2
<1> QED BY <1>1, <1>2, <1>3, <1>4

(* What a delivery can change.                                             *)
LEMMA DeliverFrame ==
    ASSUME TypeOK, NEW c \in Calls, NEW kind \in Kinds, Deliver(c, kind)
    PROVE  /\ \A d \in Calls \ {c} : channel'[d] = channel[d] /\ (d \in overflowed' <=> d \in overflowed)
           /\ crashed => crashed'
           /\ overflowed \subseteq overflowed'
           /\ c \in shut => crashed'
           /\ c \notin shut => crashed' = crashed
           /\ c \notin shut /\ c \notin overflowed' => channel'[c] = Append(channel[c], kind)
BY DEF Deliver, TypeOK

LEMMA TurnsReader ==
    ASSUME TypeOK, TurnsOK, \A d \in Calls : CallOK(d),
           Dispatch \/ ReaderTrips \/ Send \/ DeleteEntry \/ ReaderFails
    PROVE  TurnsOK' /\ \A d \in Calls : CallOK(d)'
<1>0. /\ reader \in Readers /\ reader.kind \in Kinds
      /\ Reading.at = "read" /\ Reading.call = NoCall
      /\ UNCHANGED <<call, watcher, got, peer>>
  BY Shapes, ConstantTypes DEF Dispatch, ReaderTrips, Send, DeleteEntry, ReaderFails, Crash,
     callers, client
<1>1. CASE Dispatch
  <2>1. UNCHANGED <<closed, cleanup, pending, shut, channel>>
    BY <1>1 DEF Dispatch, channels
  <2>2. \/ reader'.at = "send" /\ reader'.call = reader.call /\ reader'.kind = reader.kind
        \/ reader'.at = "read"
    BY <1>0, <1>1, ReaderMoves DEF Dispatch
  <2>3. reader.at = "load"
    BY <1>1 DEF Dispatch
  <2>4. TurnsOK'
    BY <1>0, <2>1, <2>2, <2>3 DEF TurnsOK
  <2> QED BY <1>0, <2>1, <2>4 DEF CallOK
<1>2. CASE ReaderTrips
  BY <1>2 DEF ReaderTrips, Crash, TurnsOK, CallOK, channels, session, callers, client
<1>3. CASE Send
  <2>1. reader.at = "send" /\ reader.call \in Calls /\ watcher[reader.call] # "none"
    BY <1>3 DEF Send, TurnsOK
  <2>2. \A d \in Calls \ {reader.call} : channel'[d] = channel[d]
    BY <1>0, <1>3, <2>1, DeliverFrame DEF Send
  <2>3. UNCHANGED <<closed, cleanup, pending, shut>>
    BY <1>3 DEF Send
  <2>4. \/ reader'.at = "delete" /\ reader'.call = reader.call /\ reader'.kind = reader.kind
           /\ reader.kind \in Terminals
        \/ reader'.at = "read"
    BY <1>0, <1>3, ReaderMoves DEF Send
  <2>5. TurnsOK'
    BY <1>0, <2>1, <2>3, <2>4 DEF TurnsOK
  <2>6. call[reader.call] # "idle"
    BY <2>1 DEF CallOK, Results
  <2> QED BY <1>0, <2>2, <2>3, <2>5, <2>6 DEF CallOK
<1>4. CASE DeleteEntry
  <2>1. reader.at = "delete" /\ reader.call \in Calls /\ watcher[reader.call] # "none"
    BY <1>4 DEF DeleteEntry, TurnsOK
  <2>2. call[reader.call] # "idle"
    BY <2>1 DEF CallOK, Results
  <2>3. /\ UNCHANGED <<closed, cleanup, channel>> /\ reader'.at = "read"
        /\ pending' \subseteq pending /\ shut' \subseteq shut \cup {reader.call}
    BY <1>0, <1>4 DEF DeleteEntry, Close
  <2>4. TurnsOK'
    BY <1>0, <2>3 DEF TurnsOK
  <2> QED BY <1>0, <2>2, <2>3, <2>4 DEF CallOK
<1>5. CASE ReaderFails
  <2>1. UNCHANGED <<pending, shut, channel>> /\ reader'.at = "gone"
    BY <1>0, <1>5, ReaderMoves DEF ReaderFails, channels
  <2>2. \/ UNCHANGED <<closed, cleanup>>
        \/ closed' /\ cleanup'.at = "range" /\ cleanup'.call = NoCall
    BY <1>5, CleanupStarts DEF ReaderFails
  <2>3. TurnsOK'
    BY <1>0, <2>1, <2>2 DEF TurnsOK
  <2> QED BY <1>0, <2>1, <2>3 DEF CallOK
<1> QED BY <1>1, <1>2, <1>3, <1>4, <1>5

LEMMA TurnsRead ==
    ASSUME TypeOK, TurnsOK, \A d \in Calls : CallOK(d),
           NEW c \in Calls, NEW kind \in Kinds, Read(c, kind)
    PROVE  /\ TurnsOK' /\ \A d \in Calls : CallOK(d)'
           /\ reader.at = "read"
           /\ reader'.at = "load" /\ reader'.call = c /\ reader'.kind = kind
           /\ peer'[c] = Heard(peer[c], kind)
           /\ \A d \in Calls \ {c} : peer'[d] = peer[d]
           /\ UNCHANGED <<pending, channel, shut, closed, cleanup, call, watcher, cancelled, got,
                          overflowed, crashed>>
           /\ watcher[c] # "none"
<1>1. /\ reader'.at = "load" /\ reader'.call = c /\ reader'.kind = kind
      /\ reader.at = "read" /\ watcher[c] # "none"
      /\ UNCHANGED <<pending, channel, shut, closed, cleanup, call, watcher, cancelled, got,
                     overflowed, crashed>>
  BY DEF Read, channels, callers
<1>2. peer'[c] = Heard(peer[c], kind) /\ \A d \in Calls \ {c} : peer'[d] = peer[d]
  BY DEF Read, TypeOK
<1>3. kind \in Terminals => peer'[c].ended
  <2>1. peer[c] \in Peers /\ peer[c].ended \in BOOLEAN
    BY Shapes
  <2> QED BY <1>2, <2>1, HeardType
<1>4. TurnsOK'
  BY <1>1, <1>3 DEF TurnsOK
<1>5. ASSUME NEW d \in Calls PROVE CallOK(d)'
  BY <1>1, <1>2 DEF CallOK
<1> QED BY <1>1, <1>2, <1>4, <1>5

LEMMA TurnsCleanup ==
    ASSUME TypeOK, TurnsOK, \A d \in Calls : CallOK(d), StartCleanup \/ CleanupStep
    PROVE  TurnsOK' /\ \A d \in Calls : CallOK(d)'
<1>0. /\ cleanup \in Cleanups
      /\ UNCHANGED <<call, watcher, got, peer, reader>>
  BY Shapes DEF StartCleanup, CleanupStep, Visit, CloseWithError, Replace, Replaced,
     Disconnect, callers, client
<1>1. CASE StartCleanup
  <2>1. closed' /\ cleanup'.at = "range" /\ cleanup'.call = NoCall
        /\ UNCHANGED <<pending, shut, channel>>
    BY <1>1, CleanupStarts DEF StartCleanup, channels
  <2> QED BY <1>0, <2>1 DEF TurnsOK, CallOK
<1>2. ASSUME NEW c \in Calls, Visit(c) PROVE TurnsOK' /\ \A d \in Calls : CallOK(d)'
  <2>1. /\ cleanup.at = "range" /\ cleanup'.at = "send" /\ cleanup'.call = c
        /\ UNCHANGED <<closed, pending, shut, channel>> /\ c \in pending
    BY <1>0, <1>2, CleanupVisits DEF Visit, channels
  <2> QED BY <1>0, <2>1 DEF TurnsOK, CallOK
<1>3. CASE CloseWithError
  <2>1. /\ cleanup.at = "send" /\ cleanup.call \in Calls /\ call[cleanup.call] # "idle"
        /\ cleanup'.at = "range" /\ cleanup'.call = NoCall
        /\ UNCHANGED <<closed, pending>> /\ shut' = shut \cup {cleanup.call}
    BY <1>0, <1>3, CleanupReturns DEF CloseWithError, Close, TurnsOK
  <2>2. \A d \in Calls \ {cleanup.call} : channel'[d] = channel[d]
    BY <1>3, <2>1, DeliverFrame DEF CloseWithError, Kinds, Terminals
  <2> QED BY <1>0, <2>1, <2>2 DEF TurnsOK, CallOK
<1>4. CASE Replace
  <2>1. /\ cleanup.at = "range" /\ cleanup'.at = "replacing" /\ cleanup'.call = cleanup.call
        /\ UNCHANGED <<closed, pending, shut, channel>>
    BY <1>0, <1>4, CleanupReplaces DEF Replace, channels
  <2> QED BY <1>0, <2>1 DEF TurnsOK, CallOK
<1>5. ASSUME NEW kept \in SUBSET Calls, Replaced(kept)
      PROVE  TurnsOK' /\ \A d \in Calls : CallOK(d)'
  <2>1. /\ cleanup.at = "replacing" /\ cleanup'.at = "replaced" /\ cleanup'.call = NoCall
        /\ UNCHANGED <<closed, shut, channel>> /\ pending' \subseteq pending
    BY <1>5, CleanupRests DEF Replaced, Replacing
  <2> QED BY <1>0, <2>1 DEF TurnsOK, CallOK
<1>6. CASE Disconnect
  <2>1. /\ cleanup.at = "replaced" /\ cleanup'.at = "done" /\ cleanup'.call = NoCall
        /\ UNCHANGED <<closed, pending, shut, channel>>
    BY <1>6, CleanupRests DEF Disconnect, channels
  <2> QED BY <1>0, <2>1 DEF TurnsOK, CallOK
<1> QED BY <1>1, <1>2, <1>3, <1>4, <1>5, <1>6 DEF CleanupStep

LEMMA TurnsStep ==
    ASSUME TypeOK, TurnsOK, \A d \in Calls : CallOK(d), Next
    PROVE  TurnsOK' /\ \A d \in Calls : CallOK(d)'
<1>1. ASSUME NEW c \in Calls, Store(c) PROVE TurnsOK' /\ \A d \in Calls : CallOK(d)'
  BY <1>1, TurnsStore
<1>2. ASSUME NEW c \in Calls,
             Cancel(c) \/ CallerStep(c) \/ WatcherStep(c) \/ AwaitStep(c)
      PROVE  TurnsOK' /\ \A d \in Calls : CallOK(d)'
  BY <1>2, TurnsCaller, CallsCaller
<1>3. ASSUME NEW c \in Calls, NEW kind \in Kinds, Read(c, kind)
      PROVE  TurnsOK' /\ \A d \in Calls : CallOK(d)'
  BY <1>3, TurnsRead
<1>4. CASE ReaderStep \/ ReaderFails
  BY <1>4, TurnsReader DEF ReaderStep
<1>5. CASE StartCleanup \/ CleanupStep
  BY <1>5, TurnsCleanup
<1> QED BY <1>1, <1>2, <1>3, <1>4, <1>5 DEF Next

-----------------------------------------------------------------------------
(* While nothing ends, every entry of the map has an open channel, and the *)
(* reader is the only one who takes entries of sent calls out.             *)
LEMMA CalmCaller ==
    ASSUME TypeOK, TurnsOK, \A d \in Calls : CallOK(d), CalmOK, NEW c \in Calls,
           Store(c) \/ Cancel(c) \/ CallerStep(c) \/ WatcherStep(c) \/ AwaitStep(c)
    PROVE  CalmOK'
<1> SUFFICES ASSUME Calm' PROVE CalmOK'
  BY DEF CalmOK
<1>1. CASE Store(c)
  <2>1. /\ UNCHANGED <<closed, cancelled, shut, reader, crashed>>
        /\ pending' = pending \cup {c} /\ call[c] = "idle"
    BY <1>1 DEF Store, Goes
  <2>2. c \notin shut
    BY <2>1 DEF CallOK
  <2> QED BY <2>1, <2>2 DEF CalmOK, Calm
<1>2. CASE Cancel(c)
  BY <1>2 DEF Cancel, Calm
<1>3. CASE WatcherStep(c)
  <2>1. CASE Watch(c) \/ WatchTrips(c)
    BY <2>1 DEF Watch, WatchTrips, Crash, Calm, callers
  <2>2. CASE WatchEnds(c)
    BY <2>2 DEF WatchEnds, Calm, session
  <2> QED BY <1>3, <2>1, <2>2 DEF WatcherStep
<1>4. CASE Abandon(c)
  <2>1. /\ UNCHANGED <<closed, cancelled, reader, crashed>> /\ call[c] = "refused"
        /\ \/ UNCHANGED <<pending, shut>>
           \/ pending' = pending \ {c} /\ shut' = shut \cup {c}
    BY <1>4 DEF Abandon, Goes, Close, session
  <2>2. watcher[c] = "none"
    BY <2>1 DEF CallOK, Results
  <2>3. reader.at \in {"send", "delete"} => reader.call # c
    BY <2>2 DEF TurnsOK
  <2> QED BY <2>1, <2>3 DEF CalmOK, Calm
<1>5. CASE Load(c) \/ Write(c) \/ WriteFails(c)
  BY <1>5 DEF Load, Write, WriteFails, CalmOK, Calm, channels, session
<1>6. CASE AwaitStep(c)
  BY <1>6 DEF AwaitStep, Receive, ReceiveClosed, GiveUp, CalmOK, Calm, channels, session
<1> QED BY <1>1, <1>2, <1>3, <1>4, <1>5, <1>6 DEF CallerStep

LEMMA CalmReader ==
    ASSUME TypeOK, TurnsOK, \A d \in Calls : CallOK(d), CalmOK,
           (\E c \in Calls, kind \in Kinds : Read(c, kind)) \/ ReaderStep \/ ReaderFails
    PROVE  CalmOK'
<1> SUFFICES ASSUME Calm' PROVE CalmOK'
  BY DEF CalmOK
<1>0. reader \in Readers /\ reader.kind \in Kinds /\ Reading.at = "read"
  BY Shapes, ConstantTypes
<1>1. ASSUME NEW c \in Calls, NEW kind \in Kinds, Read(c, kind) PROVE CalmOK'
  BY <1>1, TurnsRead DEF CalmOK, Calm
<1>2. CASE Dispatch
  <2>1. UNCHANGED <<closed, cancelled, pending, shut, crashed>> /\ reader.at = "load"
    BY <1>2 DEF Dispatch, channels, callers
  <2>2. \/ reader'.at = "send" /\ reader'.call = reader.call /\ reader.call \in pending
        \/ reader'.at = "read"
    BY <1>0, <1>2, ReaderMoves DEF Dispatch, Finds
  <2> QED BY <2>1, <2>2 DEF CalmOK, Calm
<1>3. CASE ReaderTrips
  BY <1>3 DEF ReaderTrips, Trips, Replacing, Crash, TurnsOK, Calm, session
<1>4. CASE Send
  <2>1. /\ reader.at = "send" /\ reader.call \in Calls
        /\ UNCHANGED <<closed, cancelled, pending, shut>>
    BY <1>4 DEF Send, TurnsOK, callers
  <2>2. reader.call \notin shut
    BY <2>1 DEF CalmOK, Calm
  <2>3. crashed' = crashed
    BY <1>0, <1>4, <2>1, <2>2, DeliverFrame DEF Send
  <2>4. \/ reader'.at = "delete" /\ reader'.call = reader.call
        \/ reader'.at = "read"
    BY <1>0, <1>4, ReaderMoves DEF Send
  <2> QED BY <2>1, <2>3, <2>4 DEF CalmOK, Calm
<1>5. CASE DeleteEntry
  <2>1. /\ reader.at = "delete" /\ reader'.at = "read"
        /\ UNCHANGED <<closed, cancelled, crashed>>
        /\ \/ UNCHANGED <<pending, shut>>
           \/ pending' = pending \ {reader.call} /\ shut' = shut \cup {reader.call}
    BY <1>0, <1>5 DEF DeleteEntry, Close, callers
  <2> QED BY <2>1 DEF CalmOK, Calm
<1>6. CASE ReaderFails
  BY <1>6 DEF ReaderFails, Calm
<1> QED BY <1>1, <1>2, <1>3, <1>4, <1>5, <1>6 DEF ReaderStep

LEMMA CalmStep ==
    ASSUME TypeOK, TurnsOK, \A d \in Calls : CallOK(d), CalmOK, Next
    PROVE  CalmOK'
<1>1. CASE StartCleanup
  BY <1>1 DEF StartCleanup, CalmOK, Calm
<1>2. CASE CleanupStep
  <2>1. closed
    BY <1>2 DEF CleanupStep, Visit, CloseWithError, Replace, Replaced, Replacing, Disconnect,
       TurnsOK
  <2>2. closed'
    BY <1>2, <2>1 DEF CleanupStep, Visit, CloseWithError, Replace, Replaced, Disconnect
  <2> QED BY <2>2 DEF CalmOK, Calm
<1>3. ASSUME NEW c \in Calls,
             Store(c) \/ Cancel(c) \/ CallerStep(c) \/ WatcherStep(c) \/ AwaitStep(c)
      PROVE  CalmOK'
  BY <1>3, CalmCaller
<1>4. CASE (\E c \in Calls, kind \in Kinds : Read(c, kind)) \/ ReaderStep \/ ReaderFails
  BY <1>4, CalmReader
<1> QED BY <1>1, <1>2, <1>3, <1>4 DEF Next

-----------------------------------------------------------------------------
(* What cleanup has met.                                                   *)
LEMMA VisitedKept ==
    ASSUME NEW c \in Calls, Visited(c),
           UNCHANGED <<cleanup.at, cleanup.call, cleanup.left, cleanup.seen>>,
           shut \subseteq shut',
           Ranging /\ Sent(c)' /\ c \in pending' => Sent(c) /\ c \in pending
    PROVE  Visited(c)'
BY DEF Visited, Ranging

LEMMA VisitedCaller ==
    ASSUME TypeOK, TurnsOK, \A d \in Calls : CallOK(d) /\ Visited(d), NEW c \in Calls,
           Cancel(c) \/ CallerStep(c) \/ WatcherStep(c) \/ AwaitStep(c)
    PROVE  \A d \in Calls : Visited(d)'
<1> SUFFICES ASSUME NEW d \in Calls PROVE Visited(d)'
  OBVIOUS
<1>1. /\ UNCHANGED <<cleanup, closed>>
      /\ \A e \in Calls \ {c} : call'[e] = call[e]
      /\ pending' \ pending = {}
  BY TurnsCaller
<1>2. shut \subseteq shut'
  BY DEF Cancel, CallerStep, WatcherStep, AwaitStep, Load, Write, WriteFails, Abandon, Watch,
         WatchTrips, WatchEnds, Crash, Receive, ReceiveClosed, GiveUp, Close, channels
<1>3. Sent(c)' => Sent(c) \/ ~closed
  <2>0. c \in Calls /\ call \in [Calls -> Places]
    BY DEF TypeOK, Places
  <2>1. CASE Load(c)
    BY <2>0, <2>1 DEF Load, Goes, Sent
  <2>2. CASE Write(c) \/ WriteFails(c) \/ Abandon(c)
    BY <2>0, <2>2 DEF Write, WriteFails, Abandon, Goes, Sent
  <2>3. CASE AwaitStep(c)
    BY <2>0, <2>3 DEF AwaitStep, Receive, ReceiveClosed, GiveUp, Goes, Sent
  <2>4. CASE Cancel(c) \/ WatcherStep(c)
    BY <2>4 DEF Cancel, WatcherStep, Watch, WatchTrips, WatchEnds, Crash, callers, Sent
  <2> QED BY <2>1, <2>2, <2>3, <2>4 DEF CallerStep
<1>4. Ranging => closed
  BY DEF Ranging, TurnsOK
<1>5. Ranging /\ Sent(d)' /\ d \in pending' => Sent(d) /\ d \in pending
  <2>1. d \in pending' => d \in pending
    BY <1>1
  <2>2. CASE d = c
    BY <1>3, <1>4, <2>1, <2>2
  <2>3. CASE d # c
    BY <1>1, <2>1, <2>3 DEF Sent
  <2> QED BY <2>2, <2>3
<1> QED BY <1>1, <1>2, <1>5, VisitedKept

LEMMA VisitedReader ==
    ASSUME TypeOK, TurnsOK, \A d \in Calls : CallOK(d) /\ Visited(d),
           (\E c \in Calls, kind \in Kinds : Read(c, kind)) \/ ReaderStep \/ ReaderFails
    PROVE  \A d \in Calls : Visited(d)'
<1> SUFFICES ASSUME NEW d \in Calls PROVE Visited(d)'
  OBVIOUS
<1>1. CASE ReaderFails /\ ~closed
  <2>1. /\ cleanup'.at = "range" /\ cleanup'.left = pending /\ cleanup'.seen = {}
        /\ UNCHANGED <<pending, shut, call>>
    BY <1>1, CleanupStarts DEF ReaderFails, channels, callers
  <2> QED BY <2>1 DEF Visited
<1>2. CASE ~(ReaderFails /\ ~closed)
  <2>1. UNCHANGED <<cleanup, call>> /\ pending' \subseteq pending /\ shut \subseteq shut'
    BY <1>2 DEF Read, ReaderStep, ReaderFails, Dispatch, ReaderTrips, Send, DeleteEntry, Crash,
       Close, channels, callers, session
  <2> QED BY <2>1, VisitedKept DEF Sent
<1> QED BY <1>1, <1>2

LEMMA VisitedCleanup ==
    ASSUME TypeOK, TurnsOK, \A d \in Calls : CallOK(d) /\ Visited(d),
           StartCleanup \/ CleanupStep
    PROVE  \A d \in Calls : Visited(d)'
<1> SUFFICES ASSUME NEW d \in Calls PROVE Visited(d)'
  OBVIOUS
<1>0. cleanup \in Cleanups /\ NoCall \notin Calls
  BY Shapes, RelayAssumption
<1>1. CASE StartCleanup
  <2>1. /\ cleanup'.at = "range" /\ cleanup'.left = pending /\ cleanup'.seen = {}
        /\ UNCHANGED <<pending, shut, call>>
    BY <1>1, CleanupStarts DEF StartCleanup, channels, callers
  <2> QED BY <2>1 DEF Visited
<1>2. ASSUME NEW c \in Calls, Visit(c) PROVE Visited(d)'
  <2>1. /\ cleanup.at = "range" /\ cleanup.call = NoCall
        /\ cleanup'.at = "send" /\ cleanup'.call = c
        /\ cleanup'.left = cleanup.left /\ cleanup'.seen = cleanup.seen \cup {c}
        /\ UNCHANGED <<pending, shut, call>>
    BY <1>0, <1>2, CleanupVisits DEF Visit, channels, callers, TurnsOK
  <2> QED BY <1>0, <2>1 DEF Visited, Ranging, Sent
<1>3. CASE CloseWithError
  <2>1. /\ cleanup.at = "send" /\ cleanup'.at = "range" /\ cleanup'.call = NoCall
        /\ cleanup'.left = cleanup.left /\ cleanup'.seen = cleanup.seen
        /\ UNCHANGED <<pending, call>> /\ shut' = shut \cup {cleanup.call}
    BY <1>0, <1>3, CleanupReturns DEF CloseWithError, Close, callers
  <2> QED BY <1>0, <2>1 DEF Visited, Ranging, Sent
<1>4. CASE Replace
  <2>1. /\ cleanup.at = "range" /\ cleanup.call = NoCall
        /\ cleanup.left \cap pending \subseteq cleanup.seen
        /\ cleanup'.at = "replacing" /\ cleanup'.call = NoCall
        /\ cleanup'.left = cleanup.left /\ cleanup'.seen = cleanup.seen
        /\ UNCHANGED <<pending, shut, call>>
    BY <1>0, <1>4, CleanupReplaces DEF Replace, channels, callers, TurnsOK
  <2> QED BY <1>0, <2>1 DEF Visited, Ranging, Sent
<1>5. CASE (\E kept \in SUBSET Calls : Replaced(kept)) \/ Disconnect
  <2>1. cleanup'.at \in {"replaced", "done"}
    BY <1>5, CleanupRests DEF Replaced, Disconnect
  <2> QED BY <2>1 DEF Visited, Ranging
<1> QED BY <1>1, <1>2, <1>3, <1>4, <1>5 DEF CleanupStep

LEMMA VisitedStep ==
    ASSUME TypeOK, TurnsOK, \A d \in Calls : CallOK(d) /\ Visited(d), Next
    PROVE  \A d \in Calls : Visited(d)'
<1>1. ASSUME NEW c \in Calls, Store(c) PROVE \A d \in Calls : Visited(d)'
  <2> SUFFICES ASSUME NEW d \in Calls PROVE Visited(d)'
    OBVIOUS
  <2>1. /\ UNCHANGED <<cleanup.at, cleanup.call, cleanup.left, cleanup.seen>>
        /\ call'[c] = "stored" /\ \A e \in Calls \ {c} : call'[e] = call[e]
    BY <1>1, TurnsStore
  <2>2. UNCHANGED shut /\ pending' = pending \cup {c}
    BY <1>1 DEF Store
  <2> QED BY <2>1, <2>2, VisitedKept DEF Sent
<1>2. ASSUME NEW c \in Calls,
             Cancel(c) \/ CallerStep(c) \/ WatcherStep(c) \/ AwaitStep(c)
      PROVE  \A d \in Calls : Visited(d)'
  BY <1>2, VisitedCaller
<1>3. CASE (\E c \in Calls, kind \in Kinds : Read(c, kind)) \/ ReaderStep \/ ReaderFails
  BY <1>3, VisitedReader
<1>4. CASE StartCleanup \/ CleanupStep
  BY <1>4, VisitedCleanup
<1> QED BY <1>1, <1>2, <1>3, <1>4 DEF Next

-----------------------------------------------------------------------------
(* What is owed to a call that is due.                                     *)
LEMMA AnsweredKept ==
    ASSUME NEW d \in Calls, Answered(d),
           crashed => crashed',
           ~crashed' /\ Due(d)' => Due(d),
           call'[d] # "stored" => call[d] # "stored",
           channel'[d] = channel[d], got'[d] = got[d], peer'[d] = peer[d],
           d \in shut' => d \in shut,
           d \in pending => d \in pending',
           reader'.at = "delete" /\ reader'.call = d => reader.at = "delete" /\ reader.call = d,
           ChunkInHand(d)' <=> ChunkInHand(d),
           EndInHand(d) => EndInHand(d)'
    PROVE  Answered(d)'
BY DEF Answered

LEMMA AnsweredEnded ==
    ASSUME NEW d \in Calls,
           ~crashed' /\ Due(d)' =>
               HasEnd(channel'[d]) /\ Exact(channel'[d], got'[d], peer'[d])
    PROVE  Answered(d)'
BY DEF Answered

LEMMA AnsweredExcused ==
    ASSUME NEW d \in Calls, ~Due(d)'
    PROVE  Answered(d)'
BY DEF Answered

(* A step of a caller or a watcher, seen by the other calls.               *)
LEMMA AnsweredOthers ==
    ASSUME TypeOK, TurnsOK, \A e \in Calls : CallOK(e), NEW c \in Calls,
           Cancel(c) \/ CallerStep(c) \/ WatcherStep(c) \/ AwaitStep(c),
           NEW d \in Calls \ {c}, Answered(d), Complete(d)
    PROVE  Answered(d)' /\ Complete(d)'
<1>1. /\ UNCHANGED <<call[d], channel[d], got[d], peer, reader>>
      /\ shut' \ shut \subseteq {c}
  BY TurnsCaller
<1>2. /\ pending \ pending' \subseteq {c} /\ cancelled \subseteq cancelled'
      /\ overflowed' = overflowed /\ (crashed => crashed')
  BY DEF Cancel, CallerStep, WatcherStep, AwaitStep, Load, Write, WriteFails, Abandon, Watch,
         WatchTrips, WatchEnds, Crash, Receive, ReceiveClosed, GiveUp, Close, channels, callers
<1>3. Due(d)' => Due(d)
  BY <1>1, <1>2 DEF Due
<1>4. Answered(d)'
  BY <1>1, <1>2, <1>3, AnsweredKept DEF ChunkInHand, EndInHand, Dispatches
<1>5. Complete(d)'
  BY <1>1, <1>2 DEF Complete
<1> QED BY <1>4, <1>5

LEMMA AnsweredCaller ==
    ASSUME TypeOK, TurnsOK, \A e \in Calls : CallOK(e), NEW c \in Calls,
           Cancel(c) \/ CallerStep(c) \/ WatcherStep(c), Answered(c), Complete(c)
    PROVE  Answered(c)' /\ Complete(c)'
<1>0. /\ c \in Calls /\ call \in [Calls -> Places]
      /\ UNCHANGED <<peer, reader, got, channel>> /\ overflowed' = overflowed
      /\ cancelled \subseteq cancelled'
  BY DEF TypeOK, Places, Cancel, CallerStep, WatcherStep, Load, Write, WriteFails, Abandon,
         Watch, WatchTrips, WatchEnds, Crash, channels, callers, client, session
<1>1. Complete(c)'
  <2>1. call'[c] = "ok" => call[c] = "ok"
    BY <1>0 DEF Cancel, CallerStep, WatcherStep, Load, Write, WriteFails, Abandon, Watch,
       WatchTrips, WatchEnds, Crash, Goes, callers
  <2> QED BY <1>0, <2>1 DEF Complete
<1>2. CASE Cancel(c) \/ Watch(c) \/ WatchTrips(c)
  <2>1. c \in cancelled'
    BY <1>2, <1>0 DEF Cancel, Watch, WatchTrips
  <2> QED BY <1>1, <2>1, AnsweredExcused DEF Due
<1>3. CASE WriteFails(c) \/ Abandon(c)
  <2>1. call'[c] \in {"refused", "failed", "panicked"}
    BY <1>0, <1>3 DEF WriteFails, Abandon, Goes
  <2> QED BY <1>1, <2>1, AnsweredExcused DEF Due
<1>4. CASE Load(c)
  <2>1. \/ call'[c] \in {"refused", "panicked"}
        \/ call[c] = "stored" /\ call'[c] = "checked" /\ c \in pending
    BY <1>0, <1>4 DEF Load, Goes, Finds
  <2>2. UNCHANGED <<pending, shut, cancelled, overflowed, crashed>>
    BY <1>4 DEF Load, channels
  <2>3. Answered(c)'
    BY <1>0, <2>1, <2>2 DEF Answered, Due, ChunkInHand, EndInHand, Dispatches
  <2> QED BY <1>1, <2>3
<1>5. CASE Write(c) \/ WatchEnds(c)
  <2>1. \/ call'[c] = call[c]
        \/ call[c] = "checked" /\ call'[c] = "waiting"
    BY <1>0, <1>5 DEF Write, WatchEnds, Goes
  <2>2. UNCHANGED <<pending, shut, cancelled, overflowed, crashed>>
    BY <1>5 DEF Write, WatchEnds, channels
  <2>3. Due(c)' => Due(c)
    BY <2>1, <2>2 DEF Due
  <2>4. Answered(c)'
    BY <1>0, <2>1, <2>2, <2>3, AnsweredKept DEF ChunkInHand, EndInHand, Dispatches
  <2> QED BY <1>1, <2>4
<1> QED BY <1>2, <1>3, <1>4, <1>5 DEF CallerStep, WatcherStep

LEMMA AnsweredAwait ==
    ASSUME TypeOK, TurnsOK, ~crashed, NEW c \in Calls, AwaitStep(c), Answered(c), Complete(c)
    PROVE  Answered(c)' /\ Complete(c)'
<1>0. /\ c \in Calls /\ call \in [Calls -> Places] /\ got \in [Calls -> Nat]
      /\ channel[c] \in Seq(Kinds) /\ got[c] \in Nat /\ peer[c] \in Peers
      /\ peer[c].body \in Nat
      /\ UNCHANGED <<peer, reader, overflowed, cancelled, crashed, pending, shut>>
  BY Shapes DEF TypeOK, Places, AwaitStep, Receive, ReceiveClosed, GiveUp, channels, client,
     session
<1>1. call[c] = "waiting"
  BY DEF AwaitStep, Receive, ReceiveClosed, GiveUp, Goes
<1>2. CASE GiveUp(c)
  <2>1. call'[c] = "cancelled"
    BY <1>0, <1>2 DEF GiveUp, Goes
  <2> QED BY <2>1, AnsweredExcused DEF Due, Complete
<1>3. CASE ReceiveClosed(c)
  <2>1. call'[c] \in {"ok", "failed"} /\ c \in shut /\ channel[c] = <<>>
    BY <1>0, <1>3 DEF ReceiveClosed, Goes
  <2>2. ~HasEnd(channel[c])
    BY <2>1, EmptyExact
  <2>3. ~Due(c)
    BY <2>1, <2>2 DEF Answered
  <2>4. c \in overflowed \/ c \in cancelled
    BY <1>1, <2>3 DEF Due
  <2> QED BY <1>0, <2>1, <2>4, AnsweredExcused DEF Due, Complete
<1>4. CASE Receive(c)
  <2>0. /\ channel[c] # <<>> /\ channel'[c] = Tail(channel[c])
        /\ Head(channel[c]) \in Kinds
    <3>1. channel[c] # <<>>
      BY <1>4 DEF Receive
    <3> QED BY <1>0, <1>4, <3>1, TailMessage DEF Receive, TypeOK
  <2>1. CASE Head(channel[c]) = "chunk"
    <3>1. got'[c] = got[c] + 1 /\ call'[c] = call[c]
      BY <1>0, <1>4, <2>1 DEF Receive
    <3>2. Complete(c)'
      BY <1>1, <3>1 DEF Complete
    <3>3. Due(c)' => Due(c)
      BY <1>0, <3>1 DEF Due
    <3>4. Len(channel'[c]) = Len(channel[c]) - 1 /\ Len(channel[c]) \in Nat
      BY <1>0, <2>0, TailMessage
    <3>5. CASE ~Due(c)
      BY <3>2, <3>3, <3>5, AnsweredExcused
    <3>6. CASE Due(c)
      <4>1. Exact(channel[c], got[c], peer[c])
        BY <3>6 DEF Answered
      <4>2. /\ Exact(channel'[c], got'[c], peer'[c])
            /\ HasEnd(channel[c]) <=> HasEnd(channel'[c])
        BY <1>0, <2>0, <2>1, <3>1, <4>1, TailExact
      <4>3. got'[c] + Len(channel'[c]) = got[c] + Len(channel[c])
        BY <1>0, <3>1, <3>4
      <4>4. Answered(c)'
        BY <1>0, <3>1, <3>6, <4>2, <4>3 DEF Answered, ChunkInHand, EndInHand, Dispatches
      <4> QED BY <3>2, <4>4
    <3> QED BY <3>5, <3>6
  <2>2. CASE Head(channel[c]) \in Terminals
    <3>1. /\ call'[c] \in {"ok", "failed"} /\ got'[c] = got[c]
          /\ call'[c] = "ok" => Head(channel[c]) \in Successes
      BY <1>0, <1>4, <2>2 DEF Receive, Terminals, Successes
    <3>2. Answered(c)'
      BY <3>1, AnsweredExcused DEF Due
    <3>3. ASSUME Due(c), Head(channel[c]) \in Successes
          PROVE  peer[c].ended /\ got[c] = peer[c].body
      <4>1. Exact(channel[c], got[c], peer[c])
        BY <3>3 DEF Answered
      <4> QED BY <1>0, <2>0, <3>3, <4>1, HeadExact
    <3>4. Complete(c)'
      <4>1. CASE Due(c)
        BY <1>0, <3>1, <3>3, <4>1 DEF Complete
      <4>2. CASE ~Due(c)
        BY <1>0, <1>1, <4>2 DEF Complete, Due
      <4> QED BY <4>1, <4>2
    <3> QED BY <3>2, <3>4
  <2> QED BY <2>0, <2>1, <2>2 DEF Kinds
<1> QED BY <1>2, <1>3, <1>4 DEF AwaitStep

LEMMA AnsweredStore ==
    ASSUME TypeOK, TurnsOK, \A e \in Calls : CallOK(e), NEW c \in Calls, Store(c),
           NEW d \in Calls, Answered(d), Complete(d)
    PROVE  Answered(d)' /\ Complete(d)'
<1>1. /\ call[c] = "idle" /\ call'[c] = "stored"
      /\ \A e \in Calls \ {c} : call'[e] = call[e]
  BY TurnsStore
<1>2. /\ UNCHANGED <<channel, shut, reader, cancelled, overflowed, crashed, got, peer>>
      /\ pending' = pending \cup {c}
  BY DEF Store, client
<1>3. CASE d # c
  <2>1. Due(d)' => Due(d)
    BY <1>1, <1>2, <1>3 DEF Due
  <2>2. Answered(d)'
    BY <1>1, <1>2, <1>3, <2>1, AnsweredKept DEF ChunkInHand, EndInHand, Dispatches
  <2> QED BY <1>1, <1>2, <1>3, <2>2 DEF Complete
<1>4. CASE d = c
  <2>1. /\ c \notin shut /\ channel[c] = <<>> /\ got[c] = 0 /\ watcher[c] = "none"
        /\ peer[c] = Silent
    <3>1. watcher[c] = "none"
      BY <1>1 DEF CallOK, Results
    <3> QED BY <1>1, <3>1 DEF CallOK
  <2>2. ~(reader.at \in {"load", "send", "delete"} /\ reader.call = c)
    BY <2>1 DEF TurnsOK
  <2>3. Exact(channel[c], got[c], peer[c])
    BY <2>1, EmptyExact
  <2>4. peer[c].body = 0 /\ peer[c].ended = FALSE /\ got[c] + Len(channel[c]) = 0
    BY <2>1 DEF Silent
  <2>5. Answered(c)'
    BY <1>1, <1>2, <2>1, <2>2, <2>3, <2>4 DEF Answered, ChunkInHand, Dispatches
  <2> QED BY <1>1, <1>4, <2>5 DEF Complete
<1> QED BY <1>3, <1>4

LEMMA AnsweredRead ==
    ASSUME TypeOK, TurnsOK, \A e \in Calls : CallOK(e),
           NEW c \in Calls, NEW kind \in Kinds, Read(c, kind),
           NEW d \in Calls, Answered(d), Complete(d)
    PROVE  Answered(d)' /\ Complete(d)'
<1>1. /\ reader.at = "read"
      /\ reader'.at = "load" /\ reader'.call = c /\ reader'.kind = kind
      /\ peer'[c] = Heard(peer[c], kind)
      /\ \A e \in Calls \ {c} : peer'[e] = peer[e]
      /\ UNCHANGED <<pending, channel, shut, call, cancelled, got, overflowed, crashed>>
  BY TurnsRead
<1>2. Due(d)' <=> Due(d)
  BY <1>1 DEF Due
<1>3. CASE d # c
  <2>1. Answered(d)'
    BY <1>1, <1>2, <1>3, AnsweredKept DEF ChunkInHand, EndInHand, Dispatches
  <2> QED BY <1>1, <1>3, <2>1 DEF Complete
<1>4. CASE d = c
  <2>0. /\ peer[c] \in Peers /\ peer[c].ended \in BOOLEAN /\ got[c] \in Nat
        /\ peer[c].body \in Nat /\ Len(channel[c]) \in Nat
    BY Shapes
  <2>1. /\ peer[c].ended => peer'[c] = peer[c]
        /\ ~peer[c].ended /\ kind = "chunk" =>
              ~peer'[c].ended /\ peer'[c].body = peer[c].body + 1
        /\ ~peer[c].ended /\ kind \in Terminals =>
              peer'[c].ended /\ peer'[c].body = peer[c].body
    BY <1>1, <2>0, HeardType
  <2>2. Complete(c)'
    BY <1>1, <1>4, <2>1 DEF Complete
  <2>3. CASE crashed \/ ~Due(c)
    BY <1>1, <1>2, <1>4, <2>2, <2>3 DEF Answered
  <2>4. CASE ~crashed /\ Due(c)
    <3>1. Exact(channel[c], got[c], peer[c])
      BY <1>4, <2>4 DEF Answered
    <3>2. Exact(channel[c], got[c], peer'[c])
      BY <2>1, <3>1 DEF Exact
    <3>3. CASE HasEnd(channel[c])
      BY <1>1, <1>4, <2>2, <3>2, <3>3, AnsweredEnded
    <3>4. CASE ~HasEnd(channel[c])
      <4>1. ~peer[c].ended /\ peer[c].body = got[c] + Len(channel[c])
        BY <1>1, <1>4, <2>4, <3>4 DEF Answered, ChunkInHand, EndInHand, Dispatches
      <4>2. ChunkInHand(c)' <=> kind = "chunk"
        BY <1>1 DEF ChunkInHand, Dispatches
      <4>3. EndInHand(c)' <=> kind \in Terminals
        BY <1>1 DEF EndInHand, Dispatches
      <4>4. /\ ChunkInHand(c)' => peer'[c].body = got'[c] + Len(channel'[c]) + 1
            /\ ~ChunkInHand(c)' => peer'[c].body = got'[c] + Len(channel'[c])
            /\ peer'[c].ended => EndInHand(c)'
        BY <1>1, <2>0, <2>1, <4>1, <4>2, <4>3 DEF Kinds
      <4>5. /\ c \in shut => HasEnd(channel[c])
            /\ call[c] # "stored" /\ c \notin pending => HasEnd(channel[c])
        BY <1>4, <2>4 DEF Answered
      <4>6. Answered(c)'
        BY <1>1, <3>2, <3>4, <4>4, <4>5 DEF Answered
      <4> QED BY <1>4, <2>2, <4>6
    <3> QED BY <3>3, <3>4
  <2> QED BY <2>3, <2>4
<1> QED BY <1>3, <1>4

LEMMA AnsweredDispatch ==
    ASSUME TypeOK, TurnsOK, Dispatch,
           NEW d \in Calls, CallOK(d), Visited(d), Answered(d), Complete(d)
    PROVE  Answered(d)' /\ Complete(d)'
<1>1. /\ reader.at = "load" /\ reader.call \in Calls /\ watcher[reader.call] # "none"
      /\ UNCHANGED <<channel, pending, shut, peer, call, cancelled, got, overflowed, crashed>>
  BY DEF Dispatch, TurnsOK, channels, callers, client
<1>2. Complete(d)' /\ (Due(d)' <=> Due(d))
  BY <1>1 DEF Complete, Due
<1>3. CASE Finds(reader.call) /\ reader' = [reader EXCEPT !.at = "send"]
  <2>1. reader'.at = "send" /\ reader'.call = reader.call /\ reader'.kind = reader.kind
    BY <1>3, Shapes, ReaderMoves
  <2> QED BY <1>1, <1>2, <2>1, AnsweredKept DEF ChunkInHand, EndInHand, Dispatches
<1>4. CASE Misses(reader.call) /\ reader' = Reading
  <2>1. reader'.at = "read"
    BY <1>4, ConstantTypes
  <2>2. CASE d # reader.call
    BY <1>1, <1>2, <2>1, <2>2, AnsweredKept DEF ChunkInHand, EndInHand, Dispatches
  <2>3. CASE d = reader.call
    <3>1. ASSUME ~crashed, Due(d)
          PROVE  HasEnd(channel[d]) /\ Exact(channel[d], got[d], peer[d])
      <4>1. call[d] = "waiting"
        BY <1>1, <2>3, <3>1 DEF CallOK, Due, Results
      <4>2. CASE d \notin pending
        BY <3>1, <4>1, <4>2 DEF Answered
      <4>3. CASE d \in pending /\ Replacing
        <5>1. d \in shut
          BY <4>1, <4>3 DEF Visited, Sent, Replacing
        <5> QED BY <3>1, <5>1 DEF Answered
      <4> QED BY <1>4, <2>3, <4>2, <4>3 DEF Misses
    <3> QED BY <1>1, <1>2, <3>1, AnsweredEnded
  <2> QED BY <2>2, <2>3
<1> QED BY <1>3, <1>4 DEF Dispatch

LEMMA AnsweredSend ==
    ASSUME TypeOK, TurnsOK, Send, NEW d \in Calls, Answered(d), Complete(d)
    PROVE  Answered(d)' /\ Complete(d)'
<1>1. /\ reader.at = "send" /\ reader.call \in Calls /\ reader.kind \in Kinds
      /\ reader.kind \in Terminals => peer[reader.call].ended
      /\ UNCHANGED <<pending, shut, peer, call, cancelled, got>>
  BY Shapes DEF Send, TurnsOK, callers, client
<1>2. /\ \A e \in Calls \ {reader.call} :
            channel'[e] = channel[e] /\ (e \in overflowed' <=> e \in overflowed)
      /\ crashed => crashed'
      /\ overflowed \subseteq overflowed'
      /\ reader.call \in shut => crashed'
      /\ reader.call \notin shut => crashed' = crashed
      /\ reader.call \notin shut /\ reader.call \notin overflowed' =>
            channel'[reader.call] = Append(channel[reader.call], reader.kind)
  BY <1>1, DeliverFrame DEF Send
<1>3. \/ /\ reader'.at = "delete" /\ reader'.call = reader.call /\ reader.kind \in Terminals
      \/ reader'.at = "read" /\ reader.kind \notin Terminals
  BY Shapes, ReaderMoves, ConstantTypes DEF Send
<1>4. Complete(d)'
  BY <1>1, <1>2 DEF Complete
<1>5. Due(d)' => Due(d)
  BY <1>1, <1>2 DEF Due
<1>6. CASE d # reader.call
  BY <1>1, <1>2, <1>3, <1>4, <1>5, <1>6, AnsweredKept DEF ChunkInHand, EndInHand, Dispatches
<1>7. CASE d = reader.call
  <2> DEFINE s == channel[d]
  <2>0. /\ s \in Seq(Kinds) /\ got[d] \in Nat /\ peer[d] \in Peers /\ Len(s) \in Nat
        /\ peer[d].body \in Nat
    BY Shapes
  <2>1. SUFFICES ASSUME ~crashed', Due(d)' PROVE Answered(d)'
    BY <1>4 DEF Answered
  <2>2. /\ ~crashed /\ d \notin shut /\ Due(d) /\ d \notin overflowed'
    BY <1>2, <1>5, <1>7, <2>1 DEF Due
  <2>3. channel'[d] = Append(s, reader.kind)
    BY <1>2, <1>7, <2>2
  <2>4. /\ Exact(s, got[d], peer[d])
        /\ call[d] # "stored" /\ d \notin pending => HasEnd(s)
        /\ ~HasEnd(s) =>
              /\ ChunkInHand(d) => peer[d].body = got[d] + Len(s) + 1
              /\ ~ChunkInHand(d) => peer[d].body = got[d] + Len(s)
              /\ peer[d].ended => EndInHand(d)
    BY <2>2 DEF Answered
  <2>5. /\ ChunkInHand(d) <=> reader.kind = "chunk"
        /\ EndInHand(d) <=> reader.kind \in Terminals
    BY <1>1, <1>7 DEF ChunkInHand, EndInHand, Dispatches
  <2>6. ~HasEnd(s) /\ reader.kind \in Successes => peer[d].ended /\ got[d] + Len(s) = peer[d].body
    BY <1>1, <1>7, <2>4, <2>5 DEF Successes, Terminals
  <2>7. Exact(channel'[d], got[d], peer[d])
    BY <1>1, <2>0, <2>3, <2>4, <2>6, AppendExact
  <2>8. /\ Len(channel'[d]) = Len(s) + 1
        /\ HasEnd(s) => HasEnd(channel'[d])
        /\ reader.kind \in Terminals => HasEnd(channel'[d])
    BY <1>1, <2>0, <2>3, AppendMessage
  <2>9. CASE HasEnd(channel'[d])
    BY <1>1, <2>7, <2>9, AnsweredEnded
  <2>10. CASE ~HasEnd(channel'[d])
    <3>1. reader.kind = "chunk" /\ ~HasEnd(s)
      BY <1>1, <2>8, <2>10 DEF Kinds
    <3>2. peer[d].body = got[d] + Len(s) + 1 /\ ~peer[d].ended
      <4>1. "chunk" \notin Terminals
        BY DEF Terminals
      <4> QED BY <2>4, <2>5, <3>1, <4>1
    <3>3. ~ChunkInHand(d)' /\ reader'.at = "read"
      BY <1>3, <3>1 DEF ChunkInHand, Dispatches, Terminals
    <3>4. peer[d].body = got[d] + Len(channel'[d])
      BY <2>0, <2>8, <3>2
    <3>5. call[d] # "stored" /\ d \notin pending => HasEnd(channel'[d])
      BY <2>4, <3>1
    <3> QED BY <1>1, <2>2, <2>7, <2>10, <3>2, <3>3, <3>4, <3>5 DEF Answered
  <2> QED BY <2>9, <2>10
<1> QED BY <1>6, <1>7

LEMMA AnsweredReader ==
    ASSUME TypeOK, TurnsOK, ReaderTrips \/ DeleteEntry \/ ReaderFails,
           NEW d \in Calls, Answered(d), Complete(d)
    PROVE  Answered(d)' /\ Complete(d)'
<1>1. /\ UNCHANGED <<channel, peer, call, cancelled, got, overflowed>>
      /\ crashed => crashed'
  BY DEF ReaderTrips, DeleteEntry, ReaderFails, Crash, channels, callers, client
<1>2. Complete(d)' /\ (Due(d)' <=> Due(d))
  BY <1>1 DEF Complete, Due
<1>3. CASE ReaderTrips
  BY <1>2, <1>3 DEF ReaderTrips, Crash, Answered
<1>4. CASE ReaderFails
  <2>1. reader.at = "read" /\ reader'.at = "gone" /\ UNCHANGED <<pending, shut, crashed>>
    BY <1>4, Shapes, ReaderMoves DEF ReaderFails, channels
  <2> QED BY <1>1, <1>2, <2>1, AnsweredKept DEF ChunkInHand, EndInHand, Dispatches
<1>5. CASE DeleteEntry
  <2>1. /\ reader.at = "delete" /\ reader'.at = "read"
        /\ UNCHANGED crashed
        /\ pending \ pending' \subseteq {reader.call} /\ shut' \ shut \subseteq {reader.call}
    BY <1>5, ConstantTypes DEF DeleteEntry, Close
  <2>2. CASE d # reader.call
    BY <1>1, <1>2, <2>1, <2>2, AnsweredKept DEF ChunkInHand, EndInHand, Dispatches
  <2>3. CASE d = reader.call
    <3>1. ~crashed /\ Due(d) => HasEnd(channel[d]) /\ Exact(channel[d], got[d], peer[d])
      BY <2>1, <2>3 DEF Answered
    <3> QED BY <1>1, <1>2, <2>1, <3>1, AnsweredEnded
  <2> QED BY <2>2, <2>3
<1> QED BY <1>3, <1>4, <1>5

LEMMA AnsweredCleanup ==
    ASSUME TypeOK, TurnsOK, StartCleanup \/ CleanupStep,
           NEW d \in Calls, Visited(d), Answered(d), Complete(d)
    PROVE  Answered(d)' /\ Complete(d)'
<1>1. UNCHANGED <<peer, call, cancelled, got, reader>>
  BY DEF StartCleanup, CleanupStep, Visit, CloseWithError, Replace, Replaced, Disconnect,
     callers, client
<1>2. CASE CloseWithError
  <2>1. /\ cleanup.call \in Calls /\ "error" \in Kinds /\ Deliver(cleanup.call, "error")
        /\ UNCHANGED pending /\ shut' = shut \cup {cleanup.call}
    BY <1>2 DEF CloseWithError, Close, TurnsOK, Kinds, Terminals
  <2>2. /\ \A e \in Calls \ {cleanup.call} :
              channel'[e] = channel[e] /\ (e \in overflowed' <=> e \in overflowed)
        /\ crashed => crashed'
        /\ overflowed \subseteq overflowed'
        /\ cleanup.call \in shut => crashed'
        /\ cleanup.call \notin shut => crashed' = crashed
        /\ cleanup.call \notin shut /\ cleanup.call \notin overflowed' =>
              channel'[cleanup.call] = Append(channel[cleanup.call], "error")
    BY <2>1, DeliverFrame
  <2>3. Complete(d)' /\ (Due(d)' => Due(d))
    BY <1>1, <2>2 DEF Complete, Due
  <2>4. CASE d # cleanup.call
    BY <1>1, <2>1, <2>2, <2>3, <2>4, AnsweredKept DEF ChunkInHand, EndInHand, Dispatches
  <2>5. CASE d = cleanup.call
    <3>1. ASSUME ~crashed', Due(d)'
          PROVE  HasEnd(channel'[d]) /\ Exact(channel'[d], got'[d], peer'[d])
      <4>1. ~crashed /\ Due(d) /\ channel'[d] = Append(channel[d], "error")
        BY <2>2, <2>3, <2>5, <3>1 DEF Due
      <4>2. Exact(channel[d], got[d], peer[d])
        BY <4>1 DEF Answered
      <4>3. /\ channel[d] \in Seq(Kinds) /\ got[d] \in Nat /\ peer[d] \in Peers
            /\ "error" \in Terminals /\ "error" \notin Successes
        BY Shapes DEF Terminals, Successes
      <4> QED BY <1>1, <2>1, <4>1, <4>2, <4>3, AppendExact, AppendMessage
    <3> QED BY <2>3, <3>1, AnsweredEnded
  <2> QED BY <2>4, <2>5
<1>3. CASE \E kept \in SUBSET Calls : Replaced(kept)
  <2>1. UNCHANGED <<channel, shut, overflowed, crashed>> /\ Replacing
    BY <1>3 DEF Replaced
  <2>2. Complete(d)' /\ (Due(d)' <=> Due(d))
    BY <1>1, <2>1 DEF Complete, Due
  <2>3. CASE call[d] = "stored" \/ d \notin pending
    BY <1>1, <2>1, <2>2, <2>3 DEF Answered, ChunkInHand, EndInHand, Dispatches
  <2>4. CASE call[d] # "stored" /\ d \in pending
    <3>1. ~crashed /\ Due(d) => d \in shut
      BY <2>1, <2>4 DEF Visited, Sent, Due, Replacing
    <3>2. ~crashed /\ Due(d) => HasEnd(channel[d]) /\ Exact(channel[d], got[d], peer[d])
      BY <3>1 DEF Answered
    <3> QED BY <1>1, <2>1, <2>2, <3>2, AnsweredEnded
  <2> QED BY <2>3, <2>4
<1>4. CASE StartCleanup \/ (\E c \in Calls : Visit(c)) \/ Replace \/ Disconnect
  <2>1. UNCHANGED <<channel, shut, overflowed, crashed, pending>>
    BY <1>4 DEF StartCleanup, Visit, Replace, Disconnect, channels
  <2>2. Complete(d)' /\ (Due(d)' <=> Due(d))
    BY <1>1, <2>1 DEF Complete, Due
  <2> QED BY <1>1, <2>1, <2>2, AnsweredKept DEF ChunkInHand, EndInHand, Dispatches
<1> QED BY <1>2, <1>3, <1>4 DEF CleanupStep

-----------------------------------------------------------------------------
(* The invariant is one.                                                   *)
LEMMA InvInit == Init => IInv
<1> SUFFICES ASSUME Init PROVE IInv
  OBVIOUS
<1>1. TypeOK
  BY TypeInit
<1>2. TurnsOK /\ CalmOK
  BY ConstantTypes DEF Init, TurnsOK, CalmOK
<1>3. ASSUME NEW c \in Calls PROVE CallOK(c) /\ Visited(c) /\ Answered(c) /\ Complete(c)
  <2>1. call[c] = "idle" /\ watcher[c] = "none" /\ peer[c] = Silent /\ channel[c] = <<>>
        /\ got[c] = 0
    BY DEF Init
  <2> QED BY <2>1, ConstantTypes DEF Init, CallOK, Visited, Ranging, Answered, Due, Complete
<1> QED BY <1>1, <1>2, <1>3 DEF IInv

LEMMA InvStep == IInv /\ [Next]_vars => IInv'
<1> SUFFICES ASSUME IInv, [Next]_vars PROVE IInv'
  OBVIOUS
<1>0. /\ TypeOK /\ TurnsOK /\ CalmOK
      /\ \A c \in Calls : CallOK(c) /\ Visited(c) /\ Answered(c) /\ Complete(c)
  BY DEF IInv
<1>1. CASE Next
  <2>1. TypeOK' /\ TurnsOK' /\ CalmOK' /\ \A c \in Calls : CallOK(c)' /\ Visited(c)'
    BY <1>0, <1>1, TypeStep, TurnsStep, CalmStep, VisitedStep
  <2>2. ASSUME NEW d \in Calls PROVE Answered(d)' /\ Complete(d)'
    <3>1. ASSUME NEW c \in Calls, Store(c) PROVE Answered(d)' /\ Complete(d)'
      BY <1>0, <3>1, AnsweredStore
    <3>2. ASSUME NEW c \in Calls,
                 Cancel(c) \/ CallerStep(c) \/ WatcherStep(c) \/ AwaitStep(c)
          PROVE  Answered(d)' /\ Complete(d)'
      <4>1. CASE d # c
        BY <1>0, <3>2, <4>1, AnsweredOthers
      <4>2. CASE d = c /\ AwaitStep(c)
        BY <1>0, <1>1, <4>2, AnsweredAwait DEF Next
      <4>3. CASE d = c /\ ~AwaitStep(c)
        BY <1>0, <3>2, <4>3, AnsweredCaller
      <4> QED BY <4>1, <4>2, <4>3
    <3>3. ASSUME NEW c \in Calls, NEW kind \in Kinds, Read(c, kind)
          PROVE  Answered(d)' /\ Complete(d)'
      BY <1>0, <3>3, AnsweredRead
    <3>4. CASE Dispatch
      BY <1>0, <3>4, AnsweredDispatch
    <3>5. CASE Send
      BY <1>0, <3>5, AnsweredSend
    <3>6. CASE ReaderTrips \/ DeleteEntry \/ ReaderFails
      BY <1>0, <3>6, AnsweredReader
    <3>7. CASE StartCleanup \/ CleanupStep
      BY <1>0, <3>7, AnsweredCleanup
    <3> QED BY <1>1, <3>1, <3>2, <3>3, <3>4, <3>5, <3>6, <3>7 DEF Next, ReaderStep
  <2> QED BY <2>1, <2>2 DEF IInv
<1>2. CASE UNCHANGED vars
  <2>1. TypeOK' /\ TurnsOK' /\ CalmOK'
    BY <1>0, <1>2 DEF TypeOK, TurnsOK, CalmOK, Calm, vars, channels, session, callers, client
  <2>2. ASSUME NEW c \in Calls
        PROVE  CallOK(c)' /\ Visited(c)' /\ Answered(c)' /\ Complete(c)'
    BY <1>0, <1>2 DEF CallOK, Visited, Ranging, Sent, Answered, Due, ChunkInHand, EndInHand,
       Dispatches, Complete, vars, channels, session, callers, client
  <2> QED BY <2>1, <2>2 DEF IInv
<1> QED BY <1>1, <1>2

LEMMA Invariance == Spec => []IInv
BY InvInit, InvStep, PTL DEF Spec

-----------------------------------------------------------------------------
(* Every state of a session is of the declared types; a buffer never holds *)
(* more than it may.                                                       *)
THEOREM SessionTypes == Spec => []TypeOK
<1>1. IInv => TypeOK
  BY DEF IInv
<1> QED BY <1>1, Invariance, PTL

(* What a caller takes for a whole answer is one, but for an overflow of   *)
(* its buffer and the end of its context, for any number of calls, any     *)
(* buffer and whatever the client sends, also while the session fails.     *)
THEOREM AnswersAreComplete == Spec => []SuccessIsComplete
<1>1. IInv => SuccessIsComplete
  BY DEF IInv, Complete, SuccessIsComplete
<1> QED BY <1>1, Invariance, PTL

(* No goroutine of a session panics as long as no context and no session   *)
(* ends.                                                                   *)
THEOREM PanicsNeedAnEnd == Spec => []CrashNeedsAnEnd
<1>1. IInv => CrashNeedsAnEnd
  BY DEF IInv, CalmOK, Calm, CrashNeedsAnEnd
<1> QED BY <1>1, Invariance, PTL
=============================================================================
