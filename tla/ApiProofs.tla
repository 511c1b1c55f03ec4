------------------------------- MODULE ApiProofs -------------------------------
(***************************************************************************)
(* The hub of the API server, for any number of clients and broadcasts     *)
(* under way at once: it neither keeps a client nobody reads nor passes    *)
(* one over.                                                               *)
(***************************************************************************)
EXTENDS ApiServer, TLAPS

-------------------------------------------------------------------------------
\* The inductive invariant.

\* Whoever closes a client with the hub's lock held has removed it, and nobody adds
\* one meanwhile: so a handler that returns leaves nothing behind.
GoneWhenClosing == \A held \in closing : held[2] \notin clients

\* What a broadcast has not written to is still ahead of it, is being written to or
\* removed by it, or has left.
NobodyPassedOver ==
    \A b \in Broadcasts : \A c \in due[b] :
        c \in targets[b] \/ <<b, c>> \in writing \cup removing

ApiInv ==
    /\ ApiTypeOK
    /\ ClientsAreRead
    /\ GoneWhenClosing
    /\ NobodyPassedOver

LEMMA ApiInitInv == ApiInit => ApiInv
BY DEF ApiInit, ApiInv, ApiTypeOK, ClientsAreRead, GoneWhenClosing, NobodyPassedOver

\* The process and the requests leave the hub alone, until main returns.
LEMMA HubUntouched ==
    ASSUME ApiInv, UNCHANGED hubVars
    PROVE  ClientsAreRead' /\ GoneWhenClosing' /\ NobodyPassedOver'
BY DEF ApiInv, hubVars, peerVars, lockVars, castVars, ClientsAreRead, GoneWhenClosing,
       NobodyPassedOver

LEMMA ProcessKeeps ==
    ASSUME ApiInv, ProcessStep
    PROVE  ApiInv'
<1>1. CASE UNCHANGED hubVars /\ ~MainExits
    <2>1. UNCHANGED <<connection, handler, clients, called, writing, removing, closing,
                      targets, due>>
        BY <1>1 DEF hubVars, peerVars, lockVars, castVars
    <2>2. ApiTypeOK'
        BY <1>1, <2>1 DEF ApiInv, ApiTypeOK, ProcessStep, Signal, IndexerStops, Listen,
                          BeginShutdown, ShutdownExpires
    <2>3. QED BY <1>1, <2>2, HubUntouched DEF ApiInv
<1>2. CASE MainExits
    BY <1>2 DEF MainExits, ApiInv, ApiTypeOK, ClientsAreRead, GoneWhenClosing,
                NobodyPassedOver
<1>3. QED
    BY <1>1, <1>2 DEF ProcessStep, Signal, IndexerStops, Listen, BeginShutdown,
                      ShutdownExpires

LEMMA RequestKeeps ==
    ASSUME ApiInv, RequestStep
    PROVE  ApiInv'
<1>1. UNCHANGED hubVars
    BY DEF RequestStep, RequestArrives, RequestAnswered
<1>2. ApiTypeOK'
    BY <1>1 DEF ApiInv, ApiTypeOK, hubVars, peerVars, lockVars, castVars, RequestStep,
                RequestArrives, RequestAnswered
<1>3. QED BY <1>1, <1>2, HubUntouched DEF ApiInv

LEMMA PeersKeep ==
    ASSUME ApiInv, PeerStep
    PROVE  ApiInv'
<1>. USE DEF ApiInv, ApiTypeOK, ClientsAreRead, GoneWhenClosing, NobodyPassedOver,
             processVars, lockVars, castVars
<1>1. ASSUME NEW c \in Clients, Accept(c) PROVE ApiInv'
    BY <1>1 DEF Accept
<1>2. ASSUME NEW c \in Clients, Disconnect(c) PROVE ApiInv'
    BY <1>2 DEF Disconnect
<1>3. ASSUME NEW c \in Clients, Stall(c) PROVE ApiInv'
    BY <1>3 DEF Stall
<1>4. QED BY <1>1, <1>2, <1>3 DEF PeerStep

\* One step per action of the hub; what matters is which of them remove a client
\* and which of them a broadcast's copy has to survive.
LEMMA HubKeeps ==
    ASSUME ApiInv, HubStep
    PROVE  ApiInv'
<1>. USE DEF ApiInv, ApiTypeOK, ClientsAreRead, GoneWhenClosing, NobodyPassedOver,
             processVars, peerVars, lockVars, castVars
<1>1. ASSUME NEW c \in Clients, AddClient(c) PROVE ApiInv'
    BY <1>1 DEF AddClient, LockFree
<1>2. ASSUME NEW c \in Clients, ReadFails(c) PROVE ApiInv'
    BY <1>2 DEF ReadFails, Callers
<1>3. ASSUME NEW c \in Clients, NEW caller \in Callers, RemoveClient(caller, c)
      PROVE  ApiInv'
    BY <1>3 DEF RemoveClient, LockFree
<1>4. ASSUME NEW c \in Clients, NEW caller \in Callers, CloseClient(caller, c)
      PROVE  ApiInv'
    BY <1>4 DEF CloseClient
<1>5. ASSUME NEW c \in Clients, NEW b \in Broadcasts, BeginWrite(b, c) PROVE ApiInv'
    BY <1>5 DEF BeginWrite
<1>6. ASSUME NEW c \in Clients, NEW b \in Broadcasts, Written(b, c) PROVE ApiInv'
    BY <1>6 DEF Written
<1>7. ASSUME NEW c \in Clients, NEW b \in Broadcasts, WriteFails(b, c) PROVE ApiInv'
    BY <1>7 DEF WriteFails, Callers
<1>8. ASSUME NEW b \in Broadcasts, Broadcast(b) PROVE ApiInv'
    BY <1>8 DEF Broadcast
<1>9. QED BY <1>1, <1>2, <1>3, <1>4, <1>5, <1>6, <1>7, <1>8 DEF HubStep

LEMMA ApiNextKeeps == ApiInv /\ [ApiNext]_apiVars => ApiInv'
<1>1. SUFFICES ASSUME ApiInv, [ApiNext]_apiVars PROVE ApiInv' OBVIOUS
<1>2. CASE UNCHANGED apiVars
    BY <1>1, <1>2 DEF apiVars, processVars, hubVars, peerVars, lockVars, castVars, ApiInv,
                      ApiTypeOK, ClientsAreRead, GoneWhenClosing, NobodyPassedOver
<1>3. QED BY <1>1, <1>2, ProcessKeeps, RequestKeeps, PeersKeep, HubKeeps DEF ApiNext

\* The invariant of the API process and its hub.
THEOREM ApiInvariant == ApiSpec => []ApiInv
BY ApiInitInv, ApiNextKeeps, PTL DEF ApiSpec

-------------------------------------------------------------------------------
\* The properties.

\* The hub's set, the copies of broadcasts and the states of the parts stay
\* well-formed, and one goroutine at a time holds the hub's lock (Hub, server.Start,
\* main).
THEOREM ApiTypeCorrect == ApiSpec => []ApiTypeOK
<1>1. ApiInv => ApiTypeOK BY DEF ApiInv
<1>2. QED BY <1>1, ApiInvariant, PTL

\* Every client of the hub has a handler reading from it, however registrations,
\* removals by handlers and broadcasts, and peers that stop reading interleave
\* (addClient, removeClient).
THEOREM HubHasNoOrphans == ApiSpec => []ClientsAreRead
<1>1. ApiInv => ClientsAreRead BY DEF ApiInv
<1>2. QED BY <1>1, ApiInvariant, PTL

\* A broadcast that returns has written to every client of its copy that is still in
\* the hub, whatever other broadcasts do at the same time (Broadcast).
THEOREM BroadcastsReachAll == ApiSpec => []BroadcastReaches
<1>1. ApiInv => BroadcastReaches
    BY DEF ApiInv, ApiTypeOK, NobodyPassedOver, BroadcastReaches, Done, Busy
<1>2. QED BY <1>1, ApiInvariant, PTL
===============================================================================
