------------------------- MODULE CredentialRequest -------------------------
(***************************************************************************)
(* What a request asks for when it needs a credential, and the snapshots   *)
(* of the credentials the choice is made from: the part that does not      *)
(* change, shared by CredentialChoice and AuthScheduler.                   *)
(***************************************************************************)
EXTENDS Integers, Sequences, FiniteSets

CONSTANTS
    Creds,          \* the credentials: numbers, in the order of their IDs
    Providers,
    Models,         \* the model keys a request can name; the empty one is a
                    \* key that every credential supports
    Priorities,
    Parents,        \* the accounts of virtual Gemini credentials: numbers
    WebsocketProviders,     \* the providers that take websocket requests: codex
    Requests,       \* the choices requests ask for
    NoCred          \* no credential

NoParent == 0

ShapeType == [ provider : Providers,
               priority : Priorities,
               parent   : Parents \cup {NoParent},
               ws       : BOOLEAN,
               off      : BOOLEAN,      \* Status is StatusDisabled
               models   : SUBSET Models ]

HoldType == [exceeded : BOOLEAN, retry : Nat, recover : Nat]

RequestType == [ route : Seq(Providers),
                 model : Models,
                 pin   : Creds \cup {NoCred},
                 ws    : BOOLEAN,       \* the client is on a websocket
                 tried : SUBSET Creds ]
Snapshots == [shape : ShapeType, hold : [Models -> HoldType]]

ASSUME RequestAssumption ==
    /\ Creds \subseteq Nat /\ IsFiniteSet(Creds)
    /\ NoCred \notin Creds /\ NoCred \notin Snapshots
    /\ Priorities \subseteq Int
    /\ Parents \subseteq Nat \ {NoParent} /\ IsFiniteSet(Parents)
    /\ WebsocketProviders \subseteq Providers
    /\ Requests \subseteq RequestType

RouteProviders(r) == {r.route[i] : i \in 1 .. Len(r.route)}

Wanted(r) == {c \in Creds : c \notin r.tried /\ r.pin \in {c, NoCred}}

(* Credentials that can take the client's websocket come first, whatever   *)
(* their priority.                                                         *)
PrefersWebsocket(r) ==
    /\ r.ws /\ r.pin = NoCred
    /\ Len(r.route) = 1 /\ r.route[1] \in WebsocketProviders
=============================================================================
