-------------------------------- MODULE Hub --------------------------------
(***************************************************************************)
(* The event hub of the web UI (web/hub.go) and the SSE handlers that      *)
(* stream from it (handleSSE in web/server.go).                            *)
(*                                                                         *)
(* Producers put messages on the hub's broadcast channel without blocking. *)
(* The hub goroutine registers and unregisters clients and copies each     *)
(* message to the channel of every client; a client whose channel is full  *)
(* is dropped.  Closing a Go channel twice, or sending on a closed one,    *)
(* panics and would take the whole server down.                            *)
(***************************************************************************)
EXTENDS Integers, Sequences, FiniteSets

CONSTANTS
    Client,         \* SSE connections; each is made once
    BroadcastCap,   \* capacity of the broadcast channel (1024)
    SendCap,        \* capacity of a client's send channel (256)
    MaxMessages     \* bound on the number of Broadcast calls

ASSUME HubAssumption ==
    /\ BroadcastCap \in Nat \ {0}
    /\ SendCap \in Nat \ {0}
    /\ MaxMessages \in Nat

VARIABLES
    clients,    \* h.clients
    queue,      \* the broadcast channel
    offered,    \* number of Broadcast calls so far; names the messages
    log,        \* messages the hub has dispatched, in order
    handler,    \* position of each connection's SSE handler
    send,       \* the send channel of each client
    closes,     \* how often each send channel was closed
    joined,     \* Len(log) when the client was registered
    got         \* messages written to each connection

hubVars == <<clients, queue, offered, log, handler, send, closes, joined, got>>

HubInit ==
    /\ clients = {}
    /\ queue = <<>> /\ offered = 0 /\ log = <<>>
    /\ handler = [c \in Client |-> "connecting"]
    /\ send = [c \in Client |-> <<>>]
    /\ closes = [c \in Client |-> 0]
    /\ joined = [c \in Client |-> 0]
    /\ got = [c \in Client |-> <<>>]

-----------------------------------------------------------------------------
(* Producers *)

\* Broadcast drops the message when the channel is full.
Broadcast ==
    /\ offered < MaxMessages
    /\ offered' = offered + 1
    /\ queue' = IF Len(queue) < BroadcastCap
                THEN Append(queue, offered + 1) ELSE queue
    /\ UNCHANGED <<clients, log, handler, send, closes, joined, got>>

-----------------------------------------------------------------------------
(* The hub goroutine.  register and unregister are unbuffered: the handler  *)
(* and the hub meet in one step.                                            *)

Register(c) ==
    /\ handler[c] = "connecting"
    /\ clients' = clients \cup {c}
    /\ handler' = [handler EXCEPT ![c] = "streaming"]
    /\ joined' = [joined EXCEPT ![c] = Len(log)]
    /\ UNCHANGED <<queue, offered, log, send, closes, got>>

\* Faulty variant: the channel is closed whether or not the hub still has the
\* client.
UnregisterAlways(c) ==
    /\ handler[c] = "leaving"
    /\ clients' = clients \ {c}
    /\ closes' = [closes EXCEPT ![c] = @ + 1]
    /\ handler' = [handler EXCEPT ![c] = "gone"]
    /\ UNCHANGED <<queue, offered, log, send, joined, got>>

\* A client that was dropped before is not in the map any more, and its
\* channel is already closed.
Unregister(c) ==
    /\ handler[c] = "leaving"
    /\ clients' = clients \ {c}
    /\ closes' = IF c \in clients THEN [closes EXCEPT ![c] = @ + 1] ELSE closes
    /\ handler' = [handler EXCEPT ![c] = "gone"]
    /\ UNCHANGED <<queue, offered, log, send, joined, got>>

Full(c) == Len(send[c]) >= SendCap

Stale == {c \in clients : Full(c)}

\* Faulty variant: a full client misses the message and stays.
DispatchSkips ==
    /\ queue # <<>>
    /\ queue' = Tail(queue)
    /\ log' = Append(log, Head(queue))
    /\ send' = [c \in Client |-> IF c \in clients \ Stale
                                 THEN Append(send[c], Head(queue)) ELSE send[c]]
    /\ UNCHANGED <<clients, closes, offered, handler, joined, got>>

\* Copy the message to every client that has room, then close and remove the
\* others.
Dispatch ==
    /\ queue # <<>>
    /\ queue' = Tail(queue)
    /\ log' = Append(log, Head(queue))
    /\ send' = [c \in Client |-> IF c \in clients \ Stale
                                 THEN Append(send[c], Head(queue)) ELSE send[c]]
    /\ closes' = [c \in Client |-> IF c \in Stale THEN closes[c] + 1 ELSE closes[c]]
    /\ clients' = clients \ Stale
    /\ UNCHANGED <<offered, handler, joined, got>>

-----------------------------------------------------------------------------
(* The SSE handler *)

Stream(c) ==
    /\ handler[c] = "streaming"
    /\ send[c] # <<>>
    /\ got' = [got EXCEPT ![c] = Append(@, Head(send[c]))]
    /\ send' = [send EXCEPT ![c] = Tail(@)]
    /\ UNCHANGED <<clients, queue, offered, log, handler, closes, joined>>

\* Faulty variant: a closed channel is taken for an empty message and ignored.
SeesNothing(c) ==
    /\ handler[c] = "streaming"
    /\ send[c] = <<>> /\ closes[c] > 0
    /\ UNCHANGED hubVars

\* A receive on the closed channel reports so only once it is empty.
SeesClosed(c) ==
    /\ handler[c] = "streaming"
    /\ send[c] = <<>> /\ closes[c] > 0
    /\ handler' = [handler EXCEPT ![c] = "leaving"]
    /\ UNCHANGED <<clients, queue, offered, log, send, closes, joined, got>>

\* The browser goes away.
Disconnect(c) ==
    /\ handler[c] = "streaming"
    /\ handler' = [handler EXCEPT ![c] = "leaving"]
    /\ UNCHANGED <<clients, queue, offered, log, send, closes, joined, got>>

HandlerStep(c) == Stream(c) \/ SeesClosed(c)

HubNext ==
    \/ Broadcast
    \/ Dispatch
    \/ \E c \in Client : Register(c) \/ Unregister(c) \/ HandlerStep(c)
                         \/ Disconnect(c)

HubSpec == HubInit /\ [][HubNext]_hubVars

\* The hub's select picks among its ready cases at random, so none starves;
\* a handler keeps writing as long as its connection takes data.
HubFairness ==
    /\ WF_hubVars(Dispatch)
    /\ \A c \in Client : /\ WF_hubVars(Register(c))
                         /\ WF_hubVars(Unregister(c))
                         /\ WF_hubVars(HandlerStep(c))

HubFairSpec == HubSpec /\ HubFairness

-----------------------------------------------------------------------------
(* Properties *)

\* Every variable of the hub stays in its range; in particular neither channel
\* ever holds more than its capacity.
HubTypeOK ==
    /\ clients \in SUBSET Client
    /\ queue \in Seq(Nat) /\ Len(queue) <= BroadcastCap
    /\ offered \in Nat
    /\ log \in Seq(Nat)
    /\ handler \in [Client -> {"connecting", "streaming", "leaving", "gone"}]
    /\ send \in [Client -> Seq(Nat)]
    /\ \A c \in Client : Len(send[c]) <= SendCap
    /\ closes \in [Client -> Nat]
    /\ joined \in [Client -> Nat]
    /\ got \in [Client -> Seq(Nat)]

\* The hub never closes a client's channel twice and never sends on a closed
\* one, although a client can be dropped for being slow while its handler is
\* on its way to unregister it.
NoPanic ==
    \A c \in Client : closes[c] <= 1 /\ (c \in clients => closes[c] = 0)

\* What the hub's loop keeps: every channel within its capacity, and none
\* closed twice or written to when closed.
HubSound == HubTypeOK /\ NoPanic

\* What a connection has been sent, with what waits in its channel, is the
\* dispatched messages from its registration on, in order and without a gap:
\* all of them while it is registered, an initial part once it is not.
Delivered(c) == got[c] \o send[c]
Due(c) == SubSeq(log, joined[c] + 1, Len(log))

InOrderNoGap ==
    \A c \in Client :
        /\ c \in clients => Delivered(c) = Due(c)
        /\ handler[c] # "connecting" =>
              Len(Delivered(c)) <= Len(Due(c))
              /\ Delivered(c) = SubSeq(Due(c), 1, Len(Delivered(c)))

\* A client that was dropped leaves: its handler reads what is left, sees the
\* closed channel and returns.
DroppedLeaves == \A c \in Client : closes[c] > 0 ~> handler[c] = "gone"

=============================================================================
