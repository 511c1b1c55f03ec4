-------------------------------- MODULE ApiServer --------------------------------
(***************************************************************************)
(* The process of the API server (keeper/cmd/api and keeper/internal/api): *)
(* the indexer's loop and the HTTP server beside each other, the hub of    *)
(* the WebSocket clients, and how all of it ends after a signal.           *)
(*                                                                         *)
(* What a round of the indexer does is in the module Indexer. Of net/http  *)
(* it is used that Shutdown makes ListenAndServe return at once, waits for *)
(* the requests that are being handled until its context expires, and      *)
(* knows nothing of connections that were taken over, as those of          *)
(* WebSockets are, nor do the server's time limits hold for them. Of       *)
(* golang.org/x/net/websocket it is used that Write and Close send under   *)
(* the connection's write lock, so that a peer that does not read can hold *)
(* them up for ever.                                                       *)
(***************************************************************************)
EXTENDS Naturals

CONSTANTS
    Requests,       \* HTTP requests, one each
    Clients,        \* WebSocket connections and their handlers, numbered as they come
    Broadcasts      \* calls of Broadcast, numbered as they come

ASSUME ApiAssumption ==
    /\ Clients \cup Broadcasts \subseteq Nat
    /\ Clients \cap Broadcasts = {}

\* Who calls removeClient: the handler of a client, or a broadcast.
Callers == Clients \cup Broadcasts

VARIABLES
    cancelled,      \* the context: a signal has arrived
    indexer,        \* the indexer's loop: "running", "stopped"
    server,         \* server.Start: "starting", "listening", "returned"
    shutdown,       \* its goroutine: "none", "waiting", "expired"
    request,        \* per request: "none", "handling", "cut"
    main,           \* main: "waiting", "exited"
    connection,     \* per client: "none", "open", "stalled" (the peer has stopped reading),
                    \* "ended" (by the peer), "closed" (by us)
    handler,        \* per client its handler: "none", "accepted", "reading", "leaving",
                    \* "returned"
    clients,        \* hub: the set behind the lock
    called,         \* the broadcasts that have made their copy of it
    targets,        \* per broadcast: the clients of its copy it has not come to yet
    writing,        \* broadcasts in Write, with the client whose write lock they hold
    removing,       \* callers waiting for the hub's lock, with the client to remove
    closing,        \* the caller that holds the hub's lock, with the client it closes
    due             \* history: per broadcast the clients of its copy that the message was
                    \* not written to and that have not left the hub

processVars == <<cancelled, indexer, server, shutdown, request, main>>
peerVars == <<connection, handler>>
lockVars == <<writing, removing, closing>>
castVars == <<called, targets, due>>
hubVars == <<peerVars, clients, lockVars, castVars>>
apiVars == <<processVars, hubVars>>

ApiInit ==
    /\ cancelled = FALSE
    /\ indexer = "running"
    /\ server = "starting"
    /\ shutdown = "none"
    /\ request = [r \in Requests |-> "none"]
    /\ main = "waiting"
    /\ connection = [c \in Clients |-> "none"]
    /\ handler = [c \in Clients |-> "none"]
    /\ clients = {}
    /\ called = {}
    /\ targets = [b \in Broadcasts |-> {}]
    /\ writing = {}
    /\ removing = {}
    /\ closing = {}
    /\ due = [b \in Broadcasts |-> {}]

Up == main # "exited"

-------------------------------------------------------------------------------
\* The process.

Signal ==
    /\ Up
    /\ ~cancelled
    /\ cancelled' = TRUE
    /\ UNCHANGED <<indexer, server, shutdown, request, main, hubVars>>

\* A round of it under way is finished first.
IndexerStops ==
    /\ cancelled
    /\ indexer = "running"
    /\ indexer' = "stopped"
    /\ UNCHANGED <<cancelled, server, shutdown, request, main, hubVars>>

\* ListenAndServe; it returns an error when the address is taken.
Listen ==
    /\ server = "starting"
    /\ server' \in IF shutdown = "none" THEN {"listening", "returned"} ELSE {"returned"}
    /\ UNCHANGED <<cancelled, indexer, shutdown, request, main, hubVars>>

Accepting == server = "listening"

RequestArrives(r) ==
    /\ Accepting
    /\ request[r] = "none"
    /\ request' = [request EXCEPT ![r] = "handling"]
    /\ UNCHANGED <<cancelled, indexer, server, shutdown, main, hubVars>>

RequestAnswered(r) ==
    /\ Up
    /\ request[r] = "handling"
    /\ request' = [request EXCEPT ![r] = "none"]
    /\ UNCHANGED <<cancelled, indexer, server, shutdown, main, hubVars>>

\* Mutant: ListenAndServe, too, waits until the hub is empty.
BeginShutdownEmpty ==
    /\ cancelled
    /\ Up
    /\ shutdown = "none"
    /\ clients = {}
    /\ shutdown' = "waiting"
    /\ server' = IF server = "listening" THEN "returned" ELSE server
    /\ UNCHANGED <<cancelled, indexer, request, main, hubVars>>

\* Shutdown: ListenAndServe returns when it begins, not when it is through.
BeginShutdown ==
    /\ cancelled
    /\ Up
    /\ shutdown = "none"
    /\ shutdown' = "waiting"
    /\ server' = IF server = "listening" THEN "returned" ELSE server
    /\ UNCHANGED <<cancelled, indexer, request, main, hubVars>>

\* The context Shutdown was given expires.  That it returns before, when no request
\* is being handled, has no effect on anything.
ShutdownExpires ==
    /\ Up
    /\ shutdown = "waiting"
    /\ shutdown' = "expired"
    /\ UNCHANGED <<cancelled, indexer, server, request, main, hubVars>>

\* The wait group is empty: main closes the database and returns, and with it every
\* goroutine ends, every connection, and what the hub held.
MainExits ==
    /\ Up
    /\ indexer = "stopped"
    /\ server = "returned"
    /\ main' = "exited"
    /\ request' = [r \in Requests |->
                      IF request[r] = "handling" THEN "cut" ELSE request[r]]
    /\ connection' = [c \in Clients |-> IF connection[c] = "none" THEN "none" ELSE "closed"]
    /\ handler' = [c \in Clients |-> IF handler[c] = "none" THEN "none" ELSE "returned"]
    /\ clients' = {}
    /\ writing' = {}
    /\ removing' = {}
    /\ closing' = {}
    /\ targets' = [b \in Broadcasts |-> {}]
    /\ due' = [b \in Broadcasts |-> {}]
    /\ UNCHANGED <<cancelled, indexer, server, shutdown, called>>

-------------------------------------------------------------------------------
\* The peers.

\* A handshake, after which the connection is the handler's; it may reach the hub
\* long after Shutdown has begun.
Accept(c) ==
    /\ Accepting
    /\ handler[c] = "none"
    /\ \A d \in Clients : d < c => handler[d] # "none"
    /\ connection' = [connection EXCEPT ![c] = "open"]
    /\ handler' = [handler EXCEPT ![c] = "accepted"]
    /\ UNCHANGED <<processVars, clients, lockVars, castVars>>

\* The peer goes away.
Disconnect(c) ==
    /\ connection[c] \in {"open", "stalled"}
    /\ connection' = [connection EXCEPT ![c] = "ended"]
    /\ UNCHANGED <<processVars, handler, clients, lockVars, castVars>>

\* The peer stops reading; nothing says that it ever goes away.
Stall(c) ==
    /\ connection[c] = "open"
    /\ connection' = [connection EXCEPT ![c] = "stalled"]
    /\ UNCHANGED <<processVars, handler, clients, lockVars, castVars>>

-------------------------------------------------------------------------------
\* The hub.  A read lock is held for the copy alone, which is one step.

\* Mutant: Broadcast holds its read lock until it returns.
LockFreeOfReaders == closing = {} /\ \A b \in called : targets[b] = {} /\ ~\E c \in Clients :
                         <<b, c>> \in writing \cup removing

\* hub.mu can be taken.
LockFree == closing = {}

AddClient(c) ==
    /\ Up
    /\ handler[c] = "accepted"
    /\ LockFree
    /\ clients' = clients \cup {c}
    /\ handler' = [handler EXCEPT ![c] = "reading"]
    /\ UNCHANGED <<processVars, connection, lockVars, castVars>>

\* Mutant: the handler leaves it to the next broadcast to remove the client.
HandlerForgets(c) ==
    /\ Up
    /\ handler[c] = "reading"
    /\ connection[c] \in {"ended", "closed"}
    /\ handler' = [handler EXCEPT ![c] = "returned"]
    /\ UNCHANGED <<processVars, connection, clients, lockVars, castVars>>

\* The read fails; removeClient is deferred.
ReadFails(c) ==
    /\ Up
    /\ handler[c] = "reading"
    /\ connection[c] \in {"ended", "closed"}
    /\ handler' = [handler EXCEPT ![c] = "leaving"]
    /\ removing' = removing \cup {<<c, c>>}
    /\ UNCHANGED <<processVars, connection, clients, writing, closing, castVars>>

\* Mutant: removeClient does not take the lock.
RemoveClientUnlocked(caller, c) ==
    /\ Up
    /\ <<caller, c>> \in removing
    /\ clients' = clients \ {c}
    /\ removing' = removing \ {<<caller, c>>}
    /\ closing' = closing \cup {<<caller, c>>}
    /\ due' = [b \in Broadcasts |-> due[b] \ {c}]
    /\ UNCHANGED <<processVars, peerVars, writing, called, targets>>

\* removeClient: takes the lock and removes the client, if it is still there.
RemoveClient(caller, c) ==
    /\ Up
    /\ <<caller, c>> \in removing
    /\ LockFree
    /\ clients' = clients \ {c}
    /\ removing' = removing \ {<<caller, c>>}
    /\ closing' = {<<caller, c>>}
    /\ due' = [b \in Broadcasts |-> due[b] \ {c}]
    /\ UNCHANGED <<processVars, peerVars, writing, called, targets>>

Writing(c) == \E b \in Broadcasts : <<b, c>> \in writing

\* removeClient goes on, still with the lock: Close waits for the write lock, sends
\* a close frame and closes, so that the handler's read fails.  All of it is this
\* one step: until then nothing is seen of it but that the hub's lock is held.
CloseClient(caller, c) ==
    /\ Up
    /\ <<caller, c>> \in closing
    /\ ~Writing(c)
    /\ closing' = {}
    /\ connection' = [connection EXCEPT ![c] = "closed"]
    /\ handler' = IF caller = c THEN [handler EXCEPT ![c] = "returned"] ELSE handler
    /\ UNCHANGED <<processVars, clients, writing, removing, castVars>>

\* Broadcast copies the set.
Broadcast(b) ==
    /\ Up
    /\ b \notin called
    /\ \A a \in Broadcasts : a < b => a \in called
    /\ LockFree
    /\ called' = called \cup {b}
    /\ targets' = [targets EXCEPT ![b] = clients]
    /\ due' = [due EXCEPT ![b] = clients]
    /\ UNCHANGED <<processVars, peerVars, clients, lockVars>>

Busy(b) == \E c \in Clients : <<b, c>> \in writing \cup removing \cup closing

\* The loop comes to the next client; Write takes its write lock.
BeginWrite(b, c) ==
    /\ Up
    /\ ~Busy(b)
    /\ c \in targets[b]
    /\ ~Writing(c)
    /\ targets' = [targets EXCEPT ![b] = @ \ {c}]
    /\ writing' = writing \cup {<<b, c>>}
    /\ UNCHANGED <<processVars, peerVars, clients, removing, closing, called, due>>

\* The write goes through, which may take as long as the peer likes.
Written(b, c) ==
    /\ Up
    /\ <<b, c>> \in writing
    /\ connection[c] # "closed"
    /\ writing' = writing \ {<<b, c>>}
    /\ due' = [due EXCEPT ![b] = @ \ {c}]
    /\ UNCHANGED <<processVars, peerVars, clients, removing, closing, called, targets>>

\* Mutant: the broadcast ends with the first client that cannot be written to.
WriteFailsAndReturns(b, c) ==
    /\ Up
    /\ <<b, c>> \in writing
    /\ writing' = writing \ {<<b, c>>}
    /\ removing' = removing \cup {<<b, c>>}
    /\ targets' = [targets EXCEPT ![b] = {}]
    /\ UNCHANGED <<processVars, peerVars, clients, closing, called, due>>

\* The write fails, and the broadcast calls removeClient.
WriteFails(b, c) ==
    /\ Up
    /\ <<b, c>> \in writing
    /\ writing' = writing \ {<<b, c>>}
    /\ removing' = removing \cup {<<b, c>>}
    /\ UNCHANGED <<processVars, peerVars, clients, closing, castVars>>

ProcessStep ==
    \/ Signal
    \/ IndexerStops
    \/ Listen
    \/ BeginShutdown
    \/ ShutdownExpires
    \/ MainExits

RequestStep == \E r \in Requests : RequestArrives(r) \/ RequestAnswered(r)

PeerStep == \E c \in Clients : Accept(c) \/ Disconnect(c) \/ Stall(c)

HubStep ==
    \/ \E c \in Clients :
        \/ AddClient(c)
        \/ ReadFails(c)
        \/ \E caller \in Callers : RemoveClient(caller, c) \/ CloseClient(caller, c)
        \/ \E b \in Broadcasts : BeginWrite(b, c) \/ Written(b, c) \/ WriteFails(b, c)
    \/ \E b \in Broadcasts : Broadcast(b)

ApiNext == ProcessStep \/ RequestStep \/ PeerStep \/ HubStep

\* What is sent to the peer ends: the peer reads, or the connection is dead.
Answering(c) == connection[c] # "stalled"

AllAnswer == \A c \in Clients : Answering(c)

\* Goroutines that can go on do so: a round of the indexer ends in time (the client's
\* timeout, the database's busy timeout), and its select picks the cancellation some
\* time.
ProcessFairness ==
    /\ WF_apiVars(Listen)
    /\ WF_apiVars(IndexerStops)
    /\ WF_apiVars(BeginShutdown)
    /\ WF_apiVars(MainExits)

\* Whoever waits for a lock gets it when it stays free, which is less than Go's locks
\* promise.  Of writes and closes it is assumed that they end unless the peer has
\* stopped reading; of peers nothing is assumed.
HubFairness ==
    /\ \A c \in Clients : WF_apiVars(ReadFails(c))
    /\ \A caller \in Callers : WF_apiVars(\E c \in Clients : RemoveClient(caller, c))
    /\ WF_apiVars(\E caller \in Callers, c \in Clients :
                      Answering(c) /\ CloseClient(caller, c))
    /\ \A b \in Broadcasts :
        /\ WF_apiVars(\E c \in Clients : BeginWrite(b, c))
        /\ WF_apiVars(\E c \in Clients :
                          Answering(c) /\ (Written(b, c) \/ WriteFails(b, c)))

ApiSpec == ApiInit /\ [][ApiNext]_apiVars /\ ProcessFairness /\ HubFairness

-------------------------------------------------------------------------------
\* Properties.

ApiTypeOK ==
    /\ cancelled \in BOOLEAN
    /\ indexer \in {"running", "stopped"}
    /\ server \in {"starting", "listening", "returned"}
    /\ shutdown \in {"none", "waiting", "expired"}
    /\ request \in [Requests -> {"none", "handling", "cut"}]
    /\ main \in {"waiting", "exited"}
    /\ connection \in [Clients -> {"none", "open", "stalled", "ended", "closed"}]
    /\ handler \in [Clients -> {"none", "accepted", "reading", "leaving", "returned"}]
    /\ clients \subseteq Clients
    /\ called \subseteq Broadcasts
    /\ writing \subseteq Broadcasts \X Clients
    /\ removing \cup closing \subseteq Callers \X Clients
    /\ targets \in [Broadcasts -> SUBSET Clients]
    /\ due \in [Broadcasts -> SUBSET clients]
    /\ \A held, other \in closing : held = other

\* A client of the hub has a handler that will remove it: no broadcast, working
\* on a copy that is out of date, leaves a connection in the set for good.
ClientsAreRead == \A c \in clients : handler[c] \in {"reading", "leaving"}

Done(b) == b \in called /\ targets[b] = {} /\ ~Busy(b)

\* Broadcast "sends a message to all connected WebSocket clients": when it returns,
\* every client of its copy that is still in the hub was written to, whatever other
\* broadcasts and handlers have removed meanwhile.
BroadcastReaches == \A b \in Broadcasts : Done(b) => due[b] = {}

\* A client whose connection has ended leaves the hub, with or without broadcasts,
\* unless some peer has stopped reading: with the hub's lock held over Close, one
\* such peer may keep everybody else in.
EndedClientLeaves ==
    \A c \in Clients :
        (connection[c] \in {"ended", "closed"}) ~> (c \notin clients \/ ~AllAnswer)

\* A broadcast comes to its end, unless some peer has stopped reading: the locks it
\* takes on its way (the hub's, those of the clients, each held by others over the
\* other) never leave it waiting for itself or for another broadcast.
BroadcastEnds ==
    \A b \in Broadcasts : (b \in called) ~> (Done(b) \/ ~AllAnswer)

\* The process ends after the signal, whatever requests and clients do.
ApiExits == cancelled ~> ~Up

\* "Graceful shutdown", and the log line "API server shut down cleanly": a request
\* being handled when the process exits has had the time Shutdown grants.
RequestsAreDrained ==
    [][\A r \in Requests : request'[r] = "cut" /\ request[r] # "cut"
           => shutdown = "expired"]_apiVars
===============================================================================
