---------------------------- MODULE RelaySession ----------------------------
(***************************************************************************)
(* One session of the websocket relay: calls that wait for their answer,  *)
(* each on a buffered channel of its own, and the goroutines that find     *)
(* these channels in the session's map, send on them and close them: the   *)
(* reader that dispatches what the client sends, one watcher per call that *)
(* waits for the end of its context, and the cleanup, which runs once, for *)
(* the reader, the heartbeat or Manager.Stop.                              *)
(*                                                                         *)
(* How sessions come and go in the manager is the subject of AuthUpdates.  *)
(* A message is its kind; a "chunk" stands for stream_start as well, as    *)
(* both begin or continue a body.  Pings change no state.                  *)
(***************************************************************************)
EXTENDS Integers, Sequences, FiniteSets

CONSTANTS
    Calls,        \* requests, by the identifier of their message
    Mortal,       \* bound: the calls whose context may end
    NoCall,       \* nobody's turn
    BufferSize,   \* capacity of pendingRequest.ch
    MaxMessages   \* bound: messages of the client

ASSUME RelayAssumption ==
    /\ NoCall \notin Calls /\ Mortal \subseteq Calls
    /\ BufferSize \in Nat \ {0} /\ MaxMessages \in Nat

Terminals == {"response", "end", "error"}
Kinds == Terminals \cup {"chunk"}
Results == {"ok", "failed", "cancelled", "panicked"}

VARIABLES
    pending,     \* session.pending: calls whose channel can be found
    channel,     \* pendingRequest.ch: what its buffer holds
    shut,        \* calls whose channel is closed
    closed,      \* session.closed is closed
    open,        \* session.conn is open
    cleanup,     \* where session.cleanup is, and what its Range holds
    reader,      \* where session.run is, and the message it dispatches
    call,        \* where each caller is: request, the wait, the result
    watcher,     \* where the goroutine that request starts is
    cancelled,   \* calls whose context has ended
    got,         \* chunks a call has received
    peer,        \* what the client has sent about each call
    messages,    \* number of messages the client has sent
    overflowed,  \* calls that lost a message to a full buffer
    crashed      \* a panic of a goroutine nobody recovers: the process ends

channels == <<pending, channel, shut>>
session == <<closed, open, cleanup, reader>>
callers == <<call, watcher, cancelled, got>>
client == <<peer, messages>>
vars == <<channels, session, callers, client, overflowed, crashed>>

Idle == [at |-> "none", call |-> NoCall, left |-> {}, seen |-> {}, stored |-> {}]
Reading == [at |-> "read", call |-> NoCall, kind |-> "chunk"]

(* body counts the chunks before the first terminal message, and ended     *)
(* says whether that was sent.                                             *)
Silent == [body |-> 0, ended |-> FALSE]

Init ==
    /\ pending = {} /\ shut = {}
    /\ channel = [c \in Calls |-> <<>>]
    /\ closed = FALSE /\ open = TRUE
    /\ cleanup = Idle
    /\ reader = Reading
    /\ call = [c \in Calls |-> "idle"]
    /\ watcher = [c \in Calls |-> "none"]
    /\ cancelled = {}
    /\ got = [c \in Calls |-> 0]
    /\ peer = [c \in Calls |-> Silent]
    /\ messages = 0
    /\ overflowed = {}
    /\ crashed = FALSE

-----------------------------------------------------------------------------
(* The map is safe for concurrent use, but cleanup overwrites it with a    *)
(* new one without any lock: an operation of another goroutine meanwhile   *)
(* sees the old map or the new one, or trips over one that is half of each.*)
Replacing == cleanup.at = "replacing"
Finds(c) == c \in pending
Misses(c) == c \notin pending \/ Replacing
Trips == Replacing

(* close(ch) through closeOnce.                                            *)
Close(c) == shut' = shut \cup {c}

(* select { case req.ch <- msg: default: }: a closed channel panics, a     *)
(* full one loses the message.                                             *)
Deliver(c, kind) ==
    IF c \in shut
    THEN crashed' = TRUE /\ UNCHANGED <<channel, overflowed>>
    ELSE /\ UNCHANGED crashed
         /\ IF Len(channel[c]) < BufferSize
            THEN /\ channel' = [channel EXCEPT ![c] = Append(@, kind)]
                 /\ UNCHANGED overflowed
            ELSE /\ overflowed' = overflowed \cup {c}
                 /\ UNCHANGED channel

Crash == crashed' = TRUE /\ UNCHANGED <<channels, session, callers, client, overflowed>>

-----------------------------------------------------------------------------
(* A caller: Manager.Send, session.request.                                *)
Goes(c, from, to) == call[c] = from /\ call' = [call EXCEPT ![c] = to]

(* LoadOrStore; identifiers are fresh, so nothing is found.                *)
Store(c) ==
    /\ Goes(c, "idle", "stored")
    /\ pending' = pending \cup {c}
    /\ cleanup' = IF Replacing THEN [cleanup EXCEPT !.stored = @ \cup {c}] ELSE cleanup
    /\ UNCHANGED <<channel, shut, closed, open, reader, watcher, cancelled, got,
                   client, overflowed, crashed>>

(* The Load that follows, with its unchecked type assertion, and send's    *)
(* look at session.closed; the recovery of the HTTP server catches a       *)
(* panic.  Whatever comes between the two could have come before both.     *)
Load(c) ==
    /\ \/ Finds(c) /\ Goes(c, "stored", IF closed THEN "refused" ELSE "checked")
       \/ (Misses(c) \/ Trips) /\ Goes(c, "stored", "panicked")
    /\ UNCHANGED <<channels, session, watcher, cancelled, got, client, overflowed, crashed>>

(* WriteJSON; afterwards request starts the watcher and returns the        *)
(* channel.                                                                *)
Write(c) ==
    /\ open
    /\ Goes(c, "checked", "waiting")
    /\ watcher' = [watcher EXCEPT ![c] = "waiting"]
    /\ UNCHANGED <<channels, session, cancelled, got, client, overflowed, crashed>>

WriteFails(c) ==
    /\ Goes(c, "checked", "refused")
    /\ UNCHANGED <<channels, session, watcher, cancelled, got, client,
                   overflowed, crashed>>

(* LoadAndDelete and close after a send that failed.                       *)
Abandon(c) ==
    /\ \/ /\ Finds(c) /\ Goes(c, "refused", "failed")
          /\ pending' = pending \ {c} /\ Close(c)
       \/ Misses(c) /\ Goes(c, "refused", "failed") /\ UNCHANGED <<pending, shut>>
       \/ Trips /\ Goes(c, "refused", "panicked") /\ UNCHANGED <<pending, shut>>
    /\ UNCHANGED <<channel, session, watcher, cancelled, got, client,
                   overflowed, crashed>>

(* The loop of NonStream and of the goroutine of Stream.                   *)
Receive(c) ==
    /\ call[c] = "waiting" /\ channel[c] # <<>>
    /\ channel' = [channel EXCEPT ![c] = Tail(@)]
    /\ LET kind == Head(channel[c])
       IN /\ got' = IF kind = "chunk" THEN [got EXCEPT ![c] = @ + 1] ELSE got
          /\ call' = CASE kind = "chunk" -> call
                       [] kind = "error" -> [call EXCEPT ![c] = "failed"]
                       [] OTHER          -> [call EXCEPT ![c] = "ok"]
    /\ UNCHANGED <<pending, shut, session, watcher, cancelled, client,
                   overflowed, crashed>>

(* A closed channel is the end of the body to NonStream once it has seen a *)
(* part of it; otherwise, and to Stream always, it is an error.            *)
ReceiveClosed(c) ==
    /\ c \in shut /\ channel[c] = <<>>
    /\ \/ got[c] > 0 /\ Goes(c, "waiting", "ok")
       \/ Goes(c, "waiting", "failed")
    /\ UNCHANGED <<channels, session, watcher, cancelled, got, client,
                   overflowed, crashed>>

GiveUp(c) ==
    /\ c \in cancelled
    /\ Goes(c, "waiting", "cancelled")
    /\ UNCHANGED <<channels, session, watcher, cancelled, got, client,
                   overflowed, crashed>>

(* The context ends: the client of the proxy goes away, or the handler has *)
(* returned.                                                               *)
Cancel(c) ==
    /\ c \in Mortal /\ c \notin cancelled /\ call[c] # "idle"
    /\ cancelled' = cancelled \cup {c}
    /\ UNCHANGED <<channels, session, call, watcher, got, client,
                   overflowed, crashed>>

(* The watcher: LoadAndDelete when the context ends, and close.  Who takes *)
(* an entry out, closes its channel: nobody else finds it any more, and    *)
(* who found it before may as well be first.                               *)
Watch(c) ==
    /\ watcher[c] = "waiting" /\ c \in cancelled
    /\ \/ Finds(c) /\ pending' = pending \ {c} /\ Close(c)
       \/ Misses(c) /\ UNCHANGED <<pending, shut>>
    /\ watcher' = [watcher EXCEPT ![c] = "gone"]
    /\ UNCHANGED <<channel, session, call, cancelled, got, client, overflowed, crashed>>

WatchTrips(c) == watcher[c] = "waiting" /\ c \in cancelled /\ Trips /\ Crash

WatchEnds(c) ==
    /\ watcher[c] = "waiting" /\ closed
    /\ watcher' = [watcher EXCEPT ![c] = "gone"]
    /\ UNCHANGED <<channels, session, call, cancelled, got, client,
                   overflowed, crashed>>

-----------------------------------------------------------------------------
Heard(p, kind) ==
    CASE p.ended                      -> p
      [] ~p.ended /\ kind = "chunk"   -> [p EXCEPT !.body = @ + 1]
      [] ~p.ended /\ kind # "chunk"   -> [p EXCEPT !.ended = TRUE]

(* The reader: session.run, session.dispatch.  The client may send what it *)
(* likes about a call it was asked, several terminal messages included.    *)
Read(c, kind) ==
    /\ reader.at = "read" /\ open
    /\ messages < MaxMessages /\ messages' = messages + 1
    /\ watcher[c] # "none"          \* its request was written
    /\ reader' = [at |-> "load", call |-> c, kind |-> kind]
    /\ peer' = [peer EXCEPT ![c] = Heard(@, kind)]
    /\ UNCHANGED <<channels, closed, open, cleanup, callers, overflowed, crashed>>

Dispatch ==
    /\ reader.at = "load"
    /\ \/ Finds(reader.call) /\ reader' = [reader EXCEPT !.at = "send"]
       \/ Misses(reader.call) /\ reader' = Reading
    /\ UNCHANGED <<channels, closed, open, cleanup, callers, client, overflowed, crashed>>

ReaderTrips == reader.at \in {"load", "delete"} /\ Trips /\ Crash

Send ==
    /\ reader.at = "send"
    /\ Deliver(reader.call, reader.kind)
    /\ reader' = IF reader.kind \in Terminals THEN [reader EXCEPT !.at = "delete"] ELSE Reading
    /\ UNCHANGED <<pending, shut, closed, open, cleanup, callers, client>>

(* LoadAndDelete and close after a terminal message.                       *)
\* Mutant: Load in place of LoadAndDelete.
CloseEntry ==
    /\ reader.at = "delete"
    /\ IF Finds(reader.call) THEN Close(reader.call) ELSE UNCHANGED shut
    /\ reader' = Reading
    /\ UNCHANGED <<pending, channel, closed, open, cleanup, callers, client, overflowed, crashed>>

DeleteEntry ==
    /\ reader.at = "delete"
    /\ \/ /\ Finds(reader.call)
          /\ pending' = pending \ {reader.call} /\ Close(reader.call)
       \/ Misses(reader.call) /\ UNCHANGED <<pending, shut>>
    /\ reader' = Reading
    /\ UNCHANGED <<channel, closed, open, cleanup, callers, client, overflowed, crashed>>

(* ReadJSON fails, or the connection was closed: the reader calls cleanup  *)
(* and ends; a second call of cleanup waits for the first.                 *)
ReaderFails ==
    /\ reader.at = "read"
    /\ reader' = [Reading EXCEPT !.at = "gone"]
    /\ IF closed
       THEN UNCHANGED <<closed, cleanup>>
       ELSE closed' = TRUE /\ cleanup' = [Idle EXCEPT !.at = "range", !.left = pending]
    /\ UNCHANGED <<channels, open, callers, client, overflowed, crashed>>

-----------------------------------------------------------------------------
(* session.cleanup: close(closed), then Range over the map as it is found. *)

(* A heartbeat that cannot write, or Manager.Stop; the reader goes on.     *)
StartCleanup ==
    /\ ~closed
    /\ closed' = TRUE
    /\ cleanup' = [Idle EXCEPT !.at = "range", !.left = pending]
    /\ UNCHANGED <<channels, open, reader, callers, client, overflowed, crashed>>

(* Range meets every entry that was there when it began and is not deleted *)
(* before it comes by, and maybe later ones.                               *)
Visit(c) ==
    /\ cleanup.at = "range"
    /\ c \in pending \ cleanup.seen
    /\ cleanup' = [cleanup EXCEPT !.at = "send", !.call = c, !.seen = @ \cup {c}]
    /\ UNCHANGED <<channels, closed, open, reader, callers, client, overflowed, crashed>>

(* The error for the caller and the close; in between nobody gains from    *)
(* what he could do.                                                       *)
\* Mutant: the channel is closed without an error.
CloseSilently ==
    /\ cleanup.at = "send"
    /\ Close(cleanup.call)
    /\ cleanup' = [cleanup EXCEPT !.at = "range", !.call = NoCall]
    /\ UNCHANGED <<pending, channel, closed, open, reader, callers, client, overflowed, crashed>>

\* Mutant: the error is sent and the channel left open.
LeaveOpen ==
    /\ cleanup.at = "send"
    /\ Deliver(cleanup.call, "error")
    /\ cleanup' = [cleanup EXCEPT !.at = "range", !.call = NoCall]
    /\ UNCHANGED <<pending, shut, closed, open, reader, callers, client>>

CloseWithError ==
    /\ cleanup.at = "send"
    /\ Deliver(cleanup.call, "error")
    /\ Close(cleanup.call)
    /\ cleanup' = [cleanup EXCEPT !.at = "range", !.call = NoCall]
    /\ UNCHANGED <<pending, closed, open, reader, callers, client>>

Replace ==
    /\ cleanup.at = "range"
    /\ cleanup.left \cap pending \subseteq cleanup.seen
    /\ cleanup' = [cleanup EXCEPT !.at = "replacing"]
    /\ UNCHANGED <<channels, closed, open, reader, callers, client, overflowed, crashed>>

(* What was stored meanwhile went into the new map, or into the old one.   *)
Replaced(kept) ==
    /\ Replacing
    /\ kept \subseteq pending \cap cleanup.stored
    /\ pending' = kept
    /\ cleanup' = [Idle EXCEPT !.at = "replaced"]
    /\ UNCHANGED <<channel, shut, closed, open, reader, callers, client, overflowed, crashed>>

(* conn.Close; the manager forgets the session.                            *)
Disconnect ==
    /\ cleanup.at = "replaced"
    /\ open' = FALSE
    /\ cleanup' = [Idle EXCEPT !.at = "done"]
    /\ UNCHANGED <<channels, closed, reader, callers, client, overflowed, crashed>>

-----------------------------------------------------------------------------
CallerStep(c) == Load(c) \/ Write(c) \/ WriteFails(c) \/ Abandon(c)
AwaitStep(c) == Receive(c) \/ ReceiveClosed(c) \/ GiveUp(c)
WatcherStep(c) == Watch(c) \/ WatchTrips(c) \/ WatchEnds(c)
ReaderStep == Dispatch \/ ReaderTrips \/ Send \/ DeleteEntry
CleanupStep ==
    \/ \E c \in Calls : Visit(c)
    \/ CloseWithError \/ Replace \/ Disconnect
    \/ \E kept \in SUBSET Calls : Replaced(kept)

Next ==
    /\ ~crashed
    /\ \/ \E c \in Calls : \/ Store(c) \/ Cancel(c)
                           \/ CallerStep(c) \/ AwaitStep(c) \/ WatcherStep(c)
       \/ \E c \in Calls, kind \in Kinds : Read(c, kind)
       \/ ReaderStep
       \/ ReaderFails \/ StartCleanup
       \/ CleanupStep

Spec == Init /\ [][Next]_vars

(* Goroutines that can go on do.  That a client answers, that a context    *)
(* ends and that a session fails is assumed of nobody.                     *)
FairSpec ==
    /\ Spec
    /\ \A c \in Calls : /\ WF_vars(~crashed /\ CallerStep(c))
                        /\ WF_vars(~crashed /\ AwaitStep(c))
                        /\ WF_vars(~crashed /\ WatcherStep(c))
    /\ WF_vars(~crashed /\ ReaderStep)
    /\ WF_vars(~crashed /\ CleanupStep)

-----------------------------------------------------------------------------
TypeOK ==
    /\ pending \subseteq Calls /\ shut \subseteq Calls
    /\ channel \in [Calls -> Seq(Kinds)]
    /\ \A c \in Calls : Len(channel[c]) <= BufferSize
    /\ closed \in BOOLEAN /\ open \in BOOLEAN /\ crashed \in BOOLEAN
    /\ cleanup \in [at : {"none", "range", "send", "replacing", "replaced", "done"},
                    call : Calls \cup {NoCall},
                    left : SUBSET Calls, seen : SUBSET Calls, stored : SUBSET Calls]
    /\ reader \in [at : {"read", "load", "send", "delete", "gone"},
                   call : Calls \cup {NoCall}, kind : Kinds]
    /\ call \in [Calls -> {"idle", "stored", "checked", "refused", "waiting"}
                              \cup Results]
    /\ watcher \in [Calls -> {"none", "waiting", "gone"}]
    /\ cancelled \subseteq Calls /\ overflowed \subseteq Calls
    /\ got \in [Calls -> Nat]
    /\ peer \in [Calls -> [body : Nat, ended : BOOLEAN]]
    /\ messages \in 0 .. MaxMessages

(* What a caller takes for a whole answer is one: the client ended it, and *)
(* no chunk of it is missing.  The code breaks this in two ways only, a    *)
(* channel whose buffer overflowed (dispatch and cleanup drop the message) *)
(* and a context that ended (its watcher closes the channel without an     *)
(* error, and NonStream takes that for the end of the body).               *)
SuccessIsComplete ==
    \A c \in Calls :
        call[c] = "ok" =>
            \/ peer[c].ended /\ got[c] = peer[c].body
            \/ c \in overflowed \/ c \in cancelled

(* As long as no context ends and the session stays up, no send meets a    *)
(* closed channel and no lookup an overwritten map, whatever the client    *)
(* sends.  (dispatch and cleanup send on a channel that they looked up     *)
(* before, and a watcher, or the cleanup, may have closed it since: then   *)
(* the whole process panics.)                                              *)
CrashNeedsAnEnd == crashed => closed \/ cancelled # {}

(* A call does not outlive what it waits for: when its context has ended,  *)
(* its session closes or its terminal message was read, it returns, also   *)
(* if it was on its way into the map while cleanup went through it.        *)
Ended(c) == call[c] \in Results
CallsEnd ==
    \A c \in Calls :
        (call[c] # "idle" /\ (c \in cancelled \/ closed \/ peer[c].ended))
            ~> (Ended(c) \/ crashed)
=============================================================================
