------------------------------ MODULE Presence ------------------------------
(***************************************************************************)
(* The registry of online users.  Every WebSocket connection is handed to  *)
(* the handleConnection of each gateway (user, upload, chat), which share  *)
(* one ws server; each of them awaits UserService.getUserByID and then     *)
(* calls WebSocketService.addClient.  The chat gateway goes on to replay   *)
(* the queued notifications before it listens.  The close event of a       *)
(* socket runs handleDisconnect, and a restart of the process empties the  *)
(* in-memory registry.                                                     *)
(***************************************************************************)
EXTENDS Naturals, FiniteSets

CONSTANTS Users,        \* user ids, as they are written in the connection URL
          Sockets,      \* connections; each one is opened at most once
          Gateways,     \* the gateways whose handleConnection a connection runs
          ChatGateway,  \* the one that replays the queue before it listens
          NoSocket,     \* a user id that usersOnline has no entry for
          NoUser        \* the owner of a connection that was not admitted

ASSUME PresenceAssumption == /\ ChatGateway \in Gateways
                             /\ NoSocket \notin Sockets
                             /\ NoUser \notin Users

VARIABLES
  readyState,   \* the socket's state as ws reports it; "UNUSED" before it opens
  owner,        \* the userId of the connection URL
  stage,        \* where the handleConnection of each gateway is, per socket
  usersOnline,  \* WebSocketService.usersOnline, a total function
  told,         \* history: the last status each open client was sent of each user
  refused,      \* history: sockets whose addClient found another one registered
  closedEarly   \* history: sockets closed while a gateway awaited the user

vars == <<readyState, owner, stage, usersOnline, told, refused, closedEarly>>

Stages == {"idle", "lookup", "drain", "ready", "done"}
Status == {"unknown", "online", "offline"}
Ignorance == [u \in Users |-> "unknown"]

TypeOK ==
  /\ readyState \in [Sockets -> {"UNUSED", "OPEN", "CLOSING", "CLOSED"}]
  /\ owner \in [Sockets -> Users \cup {NoUser}]
  /\ stage \in [Sockets -> [Gateways -> Stages]]
  /\ usersOnline \in [Users -> Sockets \cup {NoSocket}]
  /\ told \in [Sockets -> [Users -> Status]]
  /\ refused \subseteq Sockets
  /\ closedEarly \subseteq Sockets

Init ==
  /\ readyState = [s \in Sockets |-> "UNUSED"]
  /\ owner = [s \in Sockets |-> NoUser]
  /\ stage = [s \in Sockets |-> [g \in Gateways |-> "idle"]]
  /\ usersOnline = [u \in Users |-> NoSocket]
  /\ told = [s \in Sockets |-> Ignorance]
  /\ refused = {}
  /\ closedEarly = {}

-----------------------------------------------------------------------------
(* WebSocketService *)

getUserIdByID_online(u) == usersOnline[u] # NoSocket

Registered(s) == \E u \in Users : usersOnline[u] = s

StatusOf(u) == IF getUserIdByID_online(u) THEN "online" ELSE "offline"

\* told after broadcasting the status st of u to the open sockets of a registry
broadcast(online, u, st) ==
  [s \in Sockets |->
     IF readyState[s] = "OPEN" /\ \E v \in Users : online[v] = s
     THEN [told[s] EXCEPT ![u] = st]
     ELSE told[s]]

\* Variant: the last socket of a user takes the entry over.
addClient_lastWins(u, s) ==
  /\ usersOnline' = [usersOnline EXCEPT ![u] = s]
  /\ told' = broadcast(usersOnline', u, "online")
  /\ UNCHANGED refused

\* Only the first socket of a user is entered; the entry is announced to all
\* registered clients, the new one included.
addClient(u, s) ==
  \/ /\ ~ getUserIdByID_online(u)
     /\ usersOnline' = [usersOnline EXCEPT ![u] = s]
     /\ told' = broadcast(usersOnline', u, "online")
     /\ UNCHANGED refused
  \/ /\ getUserIdByID_online(u)
     /\ refused' = IF usersOnline[u] = s THEN refused ELSE refused \cup {s}
     /\ UNCHANGED <<usersOnline, told>>

\* Variants: the departure is not announced; the entry is kept; the entry is
\* overwritten instead of deleted.
removeClient_silent(u) ==
  usersOnline' = [usersOnline EXCEPT ![u] = NoSocket] /\ UNCHANGED told
removeClient_keepsEntry(u) ==
  told' = broadcast(usersOnline, u, "offline") /\ UNCHANGED usersOnline
removeClient_blanksEntry(u) ==
  usersOnline' = [usersOnline EXCEPT ![u] = NoUser] /\ UNCHANGED told

\* The entry goes first, so the departing user is not told.
removeClient(u) ==
  /\ usersOnline' = [usersOnline EXCEPT ![u] = NoSocket]
  /\ told' = broadcast(usersOnline', u, "offline")

-----------------------------------------------------------------------------
(* The handleConnection of the gateways *)

\* The URL has a userId and a valid token: every gateway starts its lookup.
Connect(s, u) ==
  /\ readyState[s] = "UNUSED"
  /\ readyState' = [readyState EXCEPT ![s] = "OPEN"]
  /\ owner' = [owner EXCEPT ![s] = u]
  /\ stage' = [stage EXCEPT ![s] = [g \in Gateways |-> "lookup"]]
  /\ UNCHANGED <<usersOnline, told, refused, closedEarly>>

\* No userId, no token or a token that does not verify: closed with 1008.
ConnectRejected(s) ==
  /\ readyState[s] = "UNUSED"
  /\ readyState' = [readyState EXCEPT ![s] = "CLOSING"]
  /\ stage' = [stage EXCEPT ![s] = [g \in Gateways |-> "done"]]
  /\ UNCHANGED <<owner, usersOnline, told, refused, closedEarly>>

\* Variant: the user id is a field of the gateway that another connection sets.
LookupFound_sharedUserId(s, g) ==
  /\ stage[s][g] = "lookup"
  /\ stage' = [stage EXCEPT ![s][g] = IF g = ChatGateway THEN "drain" ELSE "ready"]
  /\ \E u \in Users : addClient(u, s)
  /\ UNCHANGED <<readyState, owner, closedEarly>>

\* getUserByID answers gateway g.  Nothing looks at the state of the socket.
LookupFound(s, g) ==
  /\ stage[s][g] = "lookup"
  /\ stage' = [stage EXCEPT ![s][g] = IF g = ChatGateway THEN "drain" ELSE "ready"]
  /\ addClient(owner[s], s)
  /\ UNCHANGED <<readyState, owner, closedEarly>>

\* Variant: the gateway returns without closing the socket.
LookupFails_keepsOpen(s, g) ==
  /\ stage[s][g] = "lookup"
  /\ stage' = [stage EXCEPT ![s][g] = "done"]
  /\ UNCHANGED <<readyState, owner, usersOnline, told, refused, closedEarly>>

\* getUserByID throws: this gateway closes the socket and returns.
LookupFails(s, g) ==
  /\ stage[s][g] = "lookup"
  /\ stage' = [stage EXCEPT ![s][g] = "done"]
  /\ readyState' = [readyState EXCEPT ![s] = IF @ = "OPEN" THEN "CLOSING" ELSE @]
  /\ told' = [told EXCEPT ![s] = Ignorance]
  /\ UNCHANGED <<owner, usersOnline, refused, closedEarly>>

\* The three replays of the chat gateway are over: it starts to listen.
Drained(s) ==
  /\ stage[s][ChatGateway] = "drain"
  /\ stage' = [stage EXCEPT ![s][ChatGateway] = "ready"]
  /\ UNCHANGED <<readyState, owner, usersOnline, told, refused, closedEarly>>

-----------------------------------------------------------------------------
(* The client, the close event and the process *)

PeerCloses(s) ==
  /\ readyState[s] = "OPEN"
  /\ readyState' = [readyState EXCEPT ![s] = "CLOSING"]
  /\ told' = [told EXCEPT ![s] = Ignorance]
  /\ UNCHANGED <<owner, stage, usersOnline, refused, closedEarly>>

\* Variant: the user of the URL is removed, whichever socket is registered.
CloseEvent_byUser(s) ==
  /\ readyState[s] = "CLOSING"
  /\ readyState' = [readyState EXCEPT ![s] = "CLOSED"]
  /\ \/ owner[s] \in Users /\ removeClient(owner[s])
     \/ owner[s] = NoUser /\ UNCHANGED <<usersOnline, told>>
  /\ UNCHANGED <<owner, stage, refused, closedEarly>>

\* The close event: the handleDisconnect of every gateway, of which the first
\* one to find the socket in the registry removes its user.
CloseEvent(s) ==
  /\ readyState[s] = "CLOSING"
  /\ readyState' = [readyState EXCEPT ![s] = "CLOSED"]
  /\ closedEarly' = IF \E g \in Gateways : stage[s][g] = "lookup"
                    THEN closedEarly \cup {s} ELSE closedEarly
  /\ \/ \E u \in Users : usersOnline[u] = s /\ removeClient(u)
     \/ ~ Registered(s) /\ UNCHANGED <<usersOnline, told>>
  /\ UNCHANGED <<owner, stage, refused>>

\* Some gateway has attached its "message" listener to the open socket.
Listening(s) == /\ readyState[s] = "OPEN"
                /\ \E g \in Gateways : stage[s][g] = "ready"

\* handleMessage, "users.online": the keys of the registry.
QueryOnline(s) ==
  /\ Listening(s)
  /\ told' = [told EXCEPT ![s] = [u \in Users |-> StatusOf(u)]]
  /\ UNCHANGED <<readyState, owner, stage, usersOnline, refused, closedEarly>>

\* handleMessage, "user.isOnline".
QueryIsOnline(s, u) ==
  /\ Listening(s)
  /\ told' = [told EXCEPT ![s][u] = StatusOf(u)]
  /\ UNCHANGED <<readyState, owner, stage, usersOnline, refused, closedEarly>>

\* The process dies and is started again: its sockets, its coroutines and the
\* registry are gone.
Crash ==
  /\ readyState' = [s \in Sockets |->
                      IF readyState[s] = "UNUSED" THEN "UNUSED" ELSE "CLOSED"]
  /\ stage' = [s \in Sockets |-> [g \in Gateways |->
                      IF readyState[s] = "UNUSED" THEN "idle" ELSE "done"]]
  /\ usersOnline' = [u \in Users |-> NoSocket]
  /\ told' = [s \in Sockets |-> Ignorance]
  /\ UNCHANGED <<owner, refused, closedEarly>>

-----------------------------------------------------------------------------
SocketStep(s) ==
  \/ \E u \in Users : Connect(s, u)
  \/ ConnectRejected(s)
  \/ \E g \in Gateways : LookupFound(s, g) \/ LookupFails(s, g)
  \/ Drained(s)
  \/ PeerCloses(s)
  \/ CloseEvent(s)
  \/ QueryOnline(s)
  \/ \E u \in Users : QueryIsOnline(s, u)

Next == Crash \/ \E s \in Sockets : SocketStep(s)

Spec == Init /\ [][Next]_vars

\* The user lookup and the queue reads end, and ws emits the close event of a
\* closing socket (after its close timeout at the latest).
Fairness ==
  \A s \in Sockets :
    /\ \A g \in Gateways : WF_vars(LookupFound(s, g) \/ LookupFails(s, g))
    /\ WF_vars(Drained(s))
    /\ WF_vars(CloseEvent(s))

LiveSpec == Spec /\ Fairness

-----------------------------------------------------------------------------
(* Properties *)

\* A registry entry points at a connection of the user it is filed under, which
\* is what sendToUser and getUserIdBySocket rely on to address notifications.
RegistryConsistent ==
  \A u \in Users : getUserIdByID_online(u) => owner[usersOnline[u]] = u

\* An open socket that some gateway admitted, and that did not lose its place
\* to an earlier connection, is the registered one of its user, so it is
\* reached by sendToUser: no interleaving of three lookups, other connections
\* of the user and their close events takes it out of the registry.
AdmittedIsRegistered ==
  \A s \in Sockets \ refused :
    readyState[s] = "OPEN" /\ (\E g \in Gateways : stage[s][g] \in {"drain", "ready"})
      => usersOnline[owner[s]] = s

\* What an admitted client was last told of a user, by a broadcast or by an
\* answer of handleMessage, is what the registry holds now: the sequence of
\* broadcasts leaves no gap between a registration and the first answer.
ToldAccurate ==
  \A s \in Sockets \ refused, u \in Users :
    readyState[s] = "OPEN" /\ told[s][u] # "unknown" => told[s][u] = StatusOf(u)

\* A closed socket is in the registry only if its close event came while a
\* gateway still awaited getUserByID: no other order leaves a ghost behind.
GhostOnlyFromHandshakeRace ==
  \A s \in Sockets : Registered(s) /\ readyState[s] = "CLOSED" => s \in closedEarly

\* An entry is never handed from one socket to another, and it is dropped only
\* when the socket it names is closed: a second connection, a failed lookup or
\* another user's close event does not log anyone off.
EntryOutlivesOpenSocket ==
  [][\A u \in Users : getUserIdByID_online(u) /\ usersOnline'[u] # usersOnline[u]
        => /\ usersOnline'[u] = NoSocket
           /\ readyState'[usersOnline[u]] = "CLOSED"]_vars

\* A ghost stays until the process restarts: handleDisconnect has already run
\* and addClient lets no later connection of the user replace it.
GhostStays ==
  [][\A u \in Users, s \in Sockets :
        usersOnline[u] = s /\ readyState[s] = "CLOSED" /\ ~ Crash
          => usersOnline'[u] = s]_vars

\* A connection that passed the URL checks ends admitted by every gateway, with
\* its socket registered or refused, or it does not stay open.
AdmittedOrClosed ==
  \A s \in Sockets :
    (readyState[s] = "OPEN" /\ \E g \in Gateways : stage[s][g] = "lookup")
      ~> \/ readyState[s] # "OPEN"
         \/ /\ \A g \in Gateways : stage[s][g] = "ready"
            /\ usersOnline[owner[s]] = s \/ s \in refused

\* A user who is online has a connection that is not closed.  The code does not
\* keep this: see the findings.
OnlineMeansConnected ==
  \A u \in Users : getUserIdByID_online(u) => readyState[usersOnline[u]] # "CLOSED"
=============================================================================
