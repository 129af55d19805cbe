--------------------------- MODULE PresenceProofs ---------------------------
(***************************************************************************)
(* Proofs about the registry of online users, for any set of users,        *)
(* connections and gateways.                                               *)
(***************************************************************************)
EXTENDS Presence, TLAPS

USE DEF Stages, Status, Ignorance

(* The inductive invariant *)

Admitted(s) == \E g \in Gateways : stage[s][g] \in {"drain", "ready"}

\* A connection that was never opened has left no trace, and only one that
\* passed the URL checks has a coroutine that goes on after its lookup.
Handshakes ==
  \A s \in Sockets :
    /\ readyState[s] = "UNUSED" => ~ Registered(s) /\ \A g \in Gateways : stage[s][g] = "idle"
    /\ \A g \in Gateways : stage[s][g] \in {"lookup", "drain", "ready"} => owner[s] \in Users

\* A closed socket a gateway still awaits the user of has been seen by its
\* close event, and so has the ghost it becomes.
Ghosts ==
  \A s \in Sockets :
    readyState[s] = "CLOSED" /\ (Registered(s) \/ \E g \in Gateways : stage[s][g] = "lookup")
      => s \in closedEarly

\* Only an open socket is told anything, and without a place in the registry
\* only a refused one is.
Audience ==
  \A s \in Sockets, u \in Users :
    told[s][u] # "unknown" =>
      /\ readyState[s] = "OPEN"
      /\ s \notin refused => usersOnline[owner[s]] = s /\ owner[s] \in Users

IInv == /\ TypeOK
        /\ RegistryConsistent
        /\ Handshakes
        /\ Ghosts
        /\ Audience
        /\ AdmittedIsRegistered
        /\ ToldAccurate

-----------------------------------------------------------------------------
\* The initial state satisfies the inductive invariant.
LEMMA InitIInv == Init => IInv
  BY PresenceAssumption DEF Init, IInv, TypeOK, RegistryConsistent, Handshakes, Ghosts, Audience,
     AdmittedIsRegistered, ToldAccurate, Registered, getUserIdByID_online

\* Every step keeps the types, given that a pending lookup has an owner.
LEMMA TypeStep == TypeOK /\ Handshakes /\ [Next]_vars => TypeOK'
<1> SUFFICES ASSUME TypeOK, Handshakes, [Next]_vars PROVE TypeOK'
  OBVIOUS
<1> USE PresenceAssumption DEF TypeOK
<1>1. CASE Crash
  BY <1>1 DEF Crash
<1>2. CASE UNCHANGED vars
  BY <1>2 DEF vars
<1>3. ASSUME NEW s \in Sockets, SocketStep(s) PROVE TypeOK'
  <2>1. ASSUME NEW u \in Users, Connect(s, u) PROVE TypeOK'
    BY <2>1 DEF Connect
  <2>2. CASE ConnectRejected(s)
    BY <2>2 DEF ConnectRejected
  <2>3. ASSUME NEW g \in Gateways, LookupFound(s, g) PROVE TypeOK'
    <3>1. stage' \in [Sockets -> [Gateways -> Stages]]
      BY <2>3 DEF LookupFound
    <3>2. owner[s] \in Users
      BY <2>3 DEF LookupFound, Handshakes
    <3>3. usersOnline' \in [Users -> Sockets \cup {NoSocket}]
      BY <2>3, <3>2 DEF LookupFound, addClient
    <3>4. told' \in [Sockets -> [Users -> Status]]
      <4>1. CASE UNCHANGED told
        BY <4>1
      <4>2. CASE told' = broadcast(usersOnline', owner[s], "online")
        BY <3>2, <4>2 DEF broadcast
      <4> QED
        BY <2>3, <4>1, <4>2 DEF LookupFound, addClient
    <3>5. refused' \subseteq Sockets
      BY <2>3 DEF LookupFound, addClient
    <3> QED
      BY <2>3, <3>1, <3>3, <3>4, <3>5 DEF LookupFound
  <2>4. ASSUME NEW g \in Gateways, LookupFails(s, g) PROVE TypeOK'
    BY <2>4 DEF LookupFails
  <2>5. CASE Drained(s)
    BY <2>5 DEF Drained
  <2>6. CASE PeerCloses(s)
    BY <2>6 DEF PeerCloses
  <2>7. CASE CloseEvent(s)
    <3>1. usersOnline' \in [Users -> Sockets \cup {NoSocket}]
      BY <2>7 DEF CloseEvent, removeClient
    <3>2. told' \in [Sockets -> [Users -> Status]]
      <4>1. CASE UNCHANGED told
        BY <4>1
      <4>2. ASSUME NEW u \in Users, removeClient(u)
            PROVE  told' \in [Sockets -> [Users -> Status]]
        BY <4>2 DEF removeClient, broadcast
      <4> QED
        BY <2>7, <4>1, <4>2 DEF CloseEvent
    <3> QED
      BY <2>7, <3>1, <3>2 DEF CloseEvent
  <2>8. CASE QueryOnline(s)
    BY <2>8 DEF QueryOnline, StatusOf
  <2>9. ASSUME NEW u \in Users, QueryIsOnline(s, u) PROVE TypeOK'
    BY <2>9 DEF QueryIsOnline, StatusOf
  <2> QED
    BY <1>3, <2>1, <2>2, <2>3, <2>4, <2>5, <2>6, <2>7, <2>8, <2>9 DEF SocketStep
<1> QED
  BY <1>1, <1>2, <1>3 DEF Next

-----------------------------------------------------------------------------
(* One lemma per action that disturbs the invariant; Rest is IInv without *)
(* the types. *)

Rest == /\ RegistryConsistent
        /\ Handshakes
        /\ Ghosts
        /\ Audience
        /\ AdmittedIsRegistered
        /\ ToldAccurate

\* addClient fills an empty entry, keeps its own, or marks the socket refused.
LEMMA LookupFoundStep ==
  ASSUME IInv, TypeOK', NEW s \in Sockets, NEW g \in Gateways, LookupFound(s, g)
  PROVE  Rest'
<1> USE PresenceAssumption DEF IInv, TypeOK, getUserIdByID_online
<1>1. /\ owner[s] \in Users
      /\ readyState[s] # "UNUSED"
  BY DEF LookupFound, Handshakes
<1>2. /\ \A t \in Sockets, h \in Gateways :
           t # s \/ h # g => stage'[t][h] = stage[t][h]
      /\ stage'[s][g] \in {"drain", "ready"}
  BY DEF LookupFound
<1>3. UNCHANGED <<readyState, owner, closedEarly>>
  BY DEF LookupFound
<1>4. CASE usersOnline[owner[s]] = NoSocket
  <2>1. /\ usersOnline'[owner[s]] = s
        /\ \A v \in Users : v # owner[s] => usersOnline'[v] = usersOnline[v]
        /\ refused' = refused
    BY <1>1, <1>4 DEF LookupFound, addClient
  <2>2. RegistryConsistent'
    BY <1>1, <1>3, <2>1 DEF RegistryConsistent
  <2>3. Handshakes'
    BY <1>1, <1>2, <1>3, <2>1 DEF Handshakes, Registered
  <2>4. Ghosts'
    BY <1>1, <1>2, <1>3, <2>1 DEF Ghosts, Registered, LookupFound
  <2>5. AdmittedIsRegistered'
    <3> SUFFICES ASSUME NEW t \in Sockets, t \notin refused, readyState[t] = "OPEN", t # s,
                        NEW h \in Gateways, stage[t][h] \in {"drain", "ready"}
                 PROVE  usersOnline'[owner[t]] = t
      BY <1>2, <1>3, <2>1 DEF AdmittedIsRegistered
    <3>1. usersOnline[owner[t]] = t /\ owner[t] \in Users
      BY DEF AdmittedIsRegistered, Handshakes
    <3> QED
      BY <1>4, <2>1, <3>1
  <2>6. ASSUME NEW t \in Sockets, NEW v \in Users
        PROVE  IF readyState[t] = "OPEN" /\ (\E w \in Users : usersOnline'[w] = t) /\ v = owner[s]
               THEN told'[t][v] = "online" ELSE told'[t][v] = told[t][v]
    <3>1. told' = broadcast(usersOnline', owner[s], "online")
      BY <1>4 DEF LookupFound, addClient
    <3> QED
      BY <1>1, <3>1 DEF broadcast
  <2>7. Audience'
    <3> SUFFICES ASSUME NEW t \in Sockets, NEW v \in Users, told'[t][v] # "unknown"
                 PROVE  /\ readyState[t] = "OPEN"
                        /\ t \notin refused => usersOnline'[owner[t]] = t /\ owner[t] \in Users
      BY <1>3, <2>1 DEF Audience
    <3>1. CASE readyState[t] = "OPEN" /\ \E w \in Users : usersOnline'[w] = t
      <4>1. PICK w \in Users : usersOnline'[w] = t
        BY <3>1
      <4>2. owner[t] = w
        BY <1>3, <2>2, <4>1 DEF RegistryConsistent
      <4> QED
        BY <3>1, <4>1, <4>2
    <3>2. CASE told'[t][v] = told[t][v]
      <4>1. /\ readyState[t] = "OPEN"
            /\ t \notin refused => usersOnline[owner[t]] = t /\ owner[t] \in Users
        BY <3>2 DEF Audience
      <4> QED
        BY <1>1, <1>4, <2>1, <4>1
    <3> QED
      BY <2>6, <3>1, <3>2
  <2>8. ToldAccurate'
    <3> SUFFICES ASSUME NEW t \in Sockets \ refused', NEW v \in Users,
                        readyState'[t] = "OPEN", told'[t][v] # "unknown"
                 PROVE  told'[t][v] = StatusOf(v)'
      BY DEF ToldAccurate
    <3>1. CASE v = owner[s]
      <4>1. usersOnline'[owner[t]] = t /\ owner[t] \in Users
        BY <1>3, <2>7 DEF Audience
      <4>2. told'[t][v] = "online"
        BY <1>1, <1>3, <2>6, <3>1, <4>1
      <4>3. usersOnline'[v] = s
        BY <1>1, <2>1, <3>1
      <4> QED
        BY <4>2, <4>3 DEF StatusOf
    <3>2. CASE v # owner[s]
      <4>1. told'[t][v] = told[t][v] /\ usersOnline'[v] = usersOnline[v]
        BY <1>1, <2>1, <2>6, <3>2
      <4> QED
        BY <1>3, <2>1, <4>1 DEF StatusOf, ToldAccurate
    <3> QED
      BY <3>1, <3>2
  <2> QED
    BY <2>2, <2>3, <2>4, <2>5, <2>7, <2>8 DEF Rest
<1>5. CASE usersOnline[owner[s]] # NoSocket
  <2>1. /\ UNCHANGED <<usersOnline, told>>
        /\ refused' = IF usersOnline[owner[s]] = s THEN refused ELSE refused \cup {s}
    BY <1>5 DEF LookupFound, addClient
  <2>2. RegistryConsistent'
    BY <1>3, <2>1 DEF RegistryConsistent, IInv
  <2>3. Handshakes'
    BY <1>1, <1>2, <1>3, <2>1 DEF Handshakes, Registered
  <2>4. Ghosts'
    BY <1>1, <1>2, <1>3, <2>1 DEF Ghosts, Registered, LookupFound
  <2>5. AdmittedIsRegistered'
    BY <1>1, <1>2, <1>3, <2>1 DEF AdmittedIsRegistered
  <2>6. Audience'
    BY <1>3, <2>1 DEF Audience
  <2>7. ToldAccurate'
    BY <1>3, <2>1 DEF ToldAccurate, StatusOf
  <2> QED
    BY <2>2, <2>3, <2>4, <2>5, <2>6, <2>7 DEF Rest
<1> QED
  BY <1>4, <1>5

\* handleDisconnect removes the entry of the closing socket and no other.
LEMMA CloseEventStep ==
  ASSUME IInv, TypeOK', NEW s \in Sockets, CloseEvent(s)
  PROVE  Rest'
<1> USE PresenceAssumption DEF IInv, TypeOK, getUserIdByID_online
<1>1. /\ readyState[s] = "CLOSING"
      /\ readyState' = [readyState EXCEPT ![s] = "CLOSED"]
      /\ UNCHANGED <<owner, stage, refused>>
      /\ closedEarly' = IF \E g \in Gateways : stage[s][g] = "lookup"
                        THEN closedEarly \cup {s} ELSE closedEarly
  BY DEF CloseEvent
<1>2. /\ \A v \in Users : usersOnline[v] # s => usersOnline'[v] = usersOnline[v]
      /\ \A v \in Users : usersOnline[v] = s => usersOnline'[v] = NoSocket
  <2>1. ASSUME NEW u \in Users, usersOnline[u] = s, removeClient(u)
        PROVE  \A v \in Users : v # u => usersOnline'[v] = usersOnline[v] /\ usersOnline[v] # s
    BY <2>1 DEF removeClient, RegistryConsistent
  <2>2. ASSUME NEW u \in Users, removeClient(u) PROVE usersOnline'[u] = NoSocket
    BY <2>2 DEF removeClient
  <2> QED
    BY <2>1, <2>2 DEF CloseEvent, Registered
<1>3. RegistryConsistent'
  BY <1>1, <1>2 DEF RegistryConsistent
<1>4. Handshakes'
  BY <1>1, <1>2 DEF Handshakes, Registered
<1>5. Ghosts'
  BY <1>1, <1>2 DEF Ghosts, Registered
<1>6. AdmittedIsRegistered'
  BY <1>1, <1>2 DEF AdmittedIsRegistered, Handshakes
<1>7. \A t \in Sockets, v \in Users :
         \/ told'[t][v] = told[t][v]
         \/ /\ told'[t][v] = "offline" /\ usersOnline[v] = s
            /\ readyState[t] = "OPEN" /\ \E w \in Users : usersOnline'[w] = t
  <2>1. ASSUME NEW u \in Users, usersOnline[u] = s, removeClient(u),
               NEW t \in Sockets, NEW v \in Users
        PROVE  \/ told'[t][v] = told[t][v]
               \/ /\ told'[t][v] = "offline" /\ usersOnline[v] = s
                  /\ readyState[t] = "OPEN" /\ \E w \in Users : usersOnline'[w] = t
    BY <2>1 DEF removeClient, broadcast
  <2> QED
    BY <2>1 DEF CloseEvent
<1>8. Audience'
  BY <1>1, <1>2, <1>3, <1>7 DEF Audience, RegistryConsistent
<1>9. ToldAccurate'
  <2> SUFFICES ASSUME NEW t \in Sockets \ refused, NEW v \in Users,
                      readyState'[t] = "OPEN", told'[t][v] # "unknown"
               PROVE  told'[t][v] = StatusOf(v)'
    BY <1>1 DEF ToldAccurate
  <2>1. t # s /\ readyState[t] = "OPEN"
    BY <1>1
  <2>2. CASE usersOnline[v] # s
    BY <1>2, <1>7, <2>1, <2>2 DEF ToldAccurate, StatusOf
  <2>3. CASE usersOnline[v] = s
    <3>1. PICK u \in Users : usersOnline[u] = s /\ removeClient(u)
      BY <2>3 DEF CloseEvent, Registered
    <3>2. u = v
      BY <2>3, <3>1 DEF RegistryConsistent
    <3>3. usersOnline'[owner[t]] = t /\ owner[t] \in Users
      BY <1>1, <1>8 DEF Audience
    <3>4. told'[t][v] = "offline"
      BY <2>1, <3>1, <3>2, <3>3 DEF removeClient, broadcast
    <3> QED
      BY <1>2, <2>3, <3>4 DEF StatusOf
  <2> QED
    BY <2>2, <2>3
<1> QED
  BY <1>3, <1>4, <1>5, <1>6, <1>8, <1>9 DEF Rest

\* The other steps of a connection leave the registry and the history alone.
LEMMA OtherStep ==
  ASSUME IInv, TypeOK', NEW s \in Sockets,
         \/ \E u \in Users : Connect(s, u) \/ QueryIsOnline(s, u)
         \/ \E g \in Gateways : LookupFails(s, g)
         \/ ConnectRejected(s) \/ Drained(s) \/ PeerCloses(s) \/ QueryOnline(s)
  PROVE  Rest'
<1> USE PresenceAssumption DEF IInv, TypeOK, getUserIdByID_online
<1>1. ASSUME NEW u \in Users, Connect(s, u) PROVE Rest'
  <2>1. told[s] = Ignorance /\ \A v \in Users : usersOnline[v] # s
    BY <1>1 DEF Connect, Audience, Handshakes, Registered
  <2>2. RegistryConsistent' /\ Handshakes' /\ Ghosts'
    BY <1>1, <2>1 DEF Connect, RegistryConsistent, Handshakes, Ghosts, Registered
  <2>3. Audience' /\ AdmittedIsRegistered' /\ ToldAccurate'
    BY <1>1, <2>1 DEF Connect, Audience, AdmittedIsRegistered, ToldAccurate, StatusOf
  <2> QED
    BY <2>2, <2>3 DEF Rest
<1>2. CASE ConnectRejected(s)
  <2>1. told[s] = Ignorance /\ \A v \in Users : usersOnline[v] # s
    BY <1>2 DEF ConnectRejected, Audience, Handshakes, Registered
  <2>2. RegistryConsistent' /\ Handshakes' /\ Ghosts'
    BY <1>2, <2>1 DEF ConnectRejected, RegistryConsistent, Handshakes, Ghosts, Registered
  <2>3. Audience' /\ AdmittedIsRegistered' /\ ToldAccurate'
    BY <1>2, <2>1 DEF ConnectRejected, Audience, AdmittedIsRegistered, ToldAccurate, StatusOf
  <2> QED
    BY <2>2, <2>3 DEF Rest
<1>3. ASSUME NEW g \in Gateways, LookupFails(s, g) PROVE Rest'
  <2>1. RegistryConsistent' /\ Handshakes' /\ Ghosts'
    BY <1>3 DEF LookupFails, RegistryConsistent, Handshakes, Ghosts, Registered
  <2>2. Audience' /\ AdmittedIsRegistered' /\ ToldAccurate'
    BY <1>3 DEF LookupFails, Audience, AdmittedIsRegistered, ToldAccurate, StatusOf
  <2> QED
    BY <2>1, <2>2 DEF Rest
<1>4. CASE Drained(s)
  <2>1. RegistryConsistent' /\ Handshakes' /\ Ghosts'
    BY <1>4 DEF Drained, RegistryConsistent, Handshakes, Ghosts, Registered
  <2>2. Audience' /\ AdmittedIsRegistered' /\ ToldAccurate'
    BY <1>4 DEF Drained, Audience, AdmittedIsRegistered, ToldAccurate, StatusOf
  <2> QED
    BY <2>1, <2>2 DEF Rest
<1>5. CASE PeerCloses(s)
  <2>1. RegistryConsistent' /\ Handshakes' /\ Ghosts'
    BY <1>5 DEF PeerCloses, RegistryConsistent, Handshakes, Ghosts, Registered
  <2>2. Audience' /\ AdmittedIsRegistered' /\ ToldAccurate'
    BY <1>5 DEF PeerCloses, Audience, AdmittedIsRegistered, ToldAccurate, StatusOf
  <2> QED
    BY <2>1, <2>2 DEF Rest
<1>6. CASE QueryOnline(s) \/ \E u \in Users : QueryIsOnline(s, u)
  <2>1. /\ UNCHANGED <<readyState, owner, stage, usersOnline, refused, closedEarly>>
        /\ Listening(s)
        /\ \A t \in Sockets, v \in Users :
             \/ told'[t][v] = told[t][v]
             \/ t = s /\ told'[t][v] = StatusOf(v)
    BY <1>6 DEF QueryOnline, QueryIsOnline
  <2>2. RegistryConsistent' /\ Handshakes' /\ Ghosts' /\ AdmittedIsRegistered'
    BY <2>1 DEF RegistryConsistent, Handshakes, Ghosts, Registered, AdmittedIsRegistered
  <2>3. readyState[s] = "OPEN" /\ (s \notin refused => usersOnline[owner[s]] = s /\ owner[s] \in Users)
    BY <2>1 DEF Listening, AdmittedIsRegistered, Handshakes
  <2>4. Audience'
    <3> SUFFICES ASSUME NEW t \in Sockets, NEW v \in Users, told'[t][v] # "unknown"
                 PROVE  /\ readyState[t] = "OPEN"
                        /\ t \notin refused => usersOnline[owner[t]] = t /\ owner[t] \in Users
      BY <2>1 DEF Audience
    <3>1. CASE t = s
      BY <2>3, <3>1
    <3>2. CASE told'[t][v] = told[t][v]
      BY <3>2 DEF Audience
    <3> QED
      BY <2>1, <3>1, <3>2
  <2>5. ToldAccurate'
    <3> SUFFICES ASSUME NEW t \in Sockets \ refused, NEW v \in Users,
                        readyState[t] = "OPEN", told'[t][v] # "unknown"
                 PROVE  told'[t][v] = StatusOf(v)
      BY <2>1 DEF ToldAccurate, StatusOf
    <3> QED
      BY <2>1 DEF ToldAccurate
  <2> QED
    BY <2>2, <2>4, <2>5 DEF Rest
<1> QED
  BY <1>1, <1>2, <1>3, <1>4, <1>5, <1>6

\* Every step keeps the inductive invariant.
LEMMA StepIInv == IInv /\ [Next]_vars => IInv'
<1> SUFFICES ASSUME IInv, [Next]_vars PROVE IInv'
  OBVIOUS
<1>1. TypeOK'
  BY TypeStep DEF IInv
<1>2. CASE UNCHANGED vars
  BY <1>2 DEF vars, IInv, TypeOK, RegistryConsistent, Handshakes, Ghosts, Audience,
     AdmittedIsRegistered, ToldAccurate, Registered, StatusOf, getUserIdByID_online
<1>3. CASE Crash
  <2>1. /\ \A s \in Sockets : readyState'[s] = "UNUSED" \/ readyState'[s] = "CLOSED"
        /\ \A s \in Sockets, g \in Gateways : stage'[s][g] \in {"idle", "done"}
        /\ \A s \in Sockets, g \in Gateways : readyState'[s] = "UNUSED" => stage'[s][g] = "idle"
        /\ \A u \in Users : usersOnline'[u] = NoSocket
        /\ \A s \in Sockets, u \in Users : told'[s][u] = "unknown"
    BY <1>3 DEF Crash
  <2> QED
    BY <1>1, <2>1, PresenceAssumption DEF IInv, RegistryConsistent, Handshakes, Ghosts, Audience,
       AdmittedIsRegistered, ToldAccurate, Registered, getUserIdByID_online
<1>4. ASSUME NEW s \in Sockets, SocketStep(s) PROVE Rest'
  BY <1>1, <1>4, LookupFoundStep, CloseEventStep, OtherStep DEF SocketStep
<1> QED
  BY <1>1, <1>2, <1>3, <1>4 DEF Next, IInv, Rest

\* A step changes an entry only by filling it when it is empty or by emptying
\* it when the close event of its socket, or a restart, runs.
LEMMA EntryStep ==
  IInv /\ [Next]_vars =>
    \A u \in Users : getUserIdByID_online(u) /\ usersOnline'[u] # usersOnline[u]
      => /\ usersOnline'[u] = NoSocket
         /\ readyState'[usersOnline[u]] = "CLOSED"
<1> SUFFICES ASSUME IInv, [Next]_vars, NEW u \in Users, usersOnline[u] # NoSocket,
                    usersOnline'[u] # usersOnline[u]
             PROVE  usersOnline'[u] = NoSocket /\ readyState'[usersOnline[u]] = "CLOSED"
  BY DEF getUserIdByID_online
<1> USE PresenceAssumption DEF IInv, TypeOK
<1>1. CASE Crash
  BY <1>1 DEF Crash, Handshakes, Registered
<1>2. ASSUME NEW s \in Sockets, CloseEvent(s)
      PROVE  usersOnline'[u] = NoSocket /\ readyState'[usersOnline[u]] = "CLOSED"
  <2>1. PICK v \in Users : usersOnline[v] = s /\ removeClient(v)
    BY <1>2 DEF CloseEvent
  <2>2. u = v
    BY <2>1 DEF removeClient
  <2> QED
    BY <1>2, <2>1, <2>2 DEF CloseEvent, removeClient
<1>3. ASSUME NEW s \in Sockets, NEW g \in Gateways, LookupFound(s, g) PROVE FALSE
  BY <1>3 DEF LookupFound, addClient, Handshakes, getUserIdByID_online
<1> QED
  BY <1>1, <1>2, <1>3 DEF Next, SocketStep, Connect, ConnectRejected, LookupFails, Drained,
     PeerCloses, QueryOnline, QueryIsOnline, vars

-----------------------------------------------------------------------------
\* The inductive invariant holds in every reachable state.
THEOREM PresenceInvariant == Spec => []IInv
<1> QED
  BY InitIInv, StepIInv, PTL DEF Spec

\* Types are kept by every handler of the gateways.
THEOREM TypeCorrect == Spec => []TypeOK
<1>1. IInv => TypeOK
  BY DEF IInv
<1> QED
  BY <1>1, PresenceInvariant, PTL

\* sendToUser always writes to a connection of the addressed user.
THEOREM RegistryIsConsistent == Spec => []RegistryConsistent
<1>1. IInv => RegistryConsistent
  BY DEF IInv
<1> QED
  BY <1>1, PresenceInvariant, PTL

\* An open, admitted and never refused connection is the registered one.
THEOREM AdmittedStaysRegistered == Spec => []AdmittedIsRegistered
<1>1. IInv => AdmittedIsRegistered
  BY DEF IInv
<1> QED
  BY <1>1, PresenceInvariant, PTL

\* The presence an admitted client was told is the presence there is.
THEOREM ToldIsAccurate == Spec => []ToldAccurate
<1>1. IInv => ToldAccurate
  BY DEF IInv
<1> QED
  BY <1>1, PresenceInvariant, PTL

\* A ghost has one cause: a close event during the handshake.
THEOREM GhostHasOneCause == Spec => []GhostOnlyFromHandshakeRace
<1>1. IInv => GhostOnlyFromHandshakeRace
  BY DEF IInv, Ghosts, GhostOnlyFromHandshakeRace
<1> QED
  BY <1>1, PresenceInvariant, PTL

\* No entry is dropped or handed over while the socket it names is open.
THEOREM EntryIsStable == Spec => EntryOutlivesOpenSocket
<1>1. IInv /\ [Next]_vars => [\A u \in Users :
        getUserIdByID_online(u) /\ usersOnline'[u] # usersOnline[u]
          => /\ usersOnline'[u] = NoSocket
             /\ readyState'[usersOnline[u]] = "CLOSED"]_vars
  BY EntryStep
<1> QED
  BY <1>1, PresenceInvariant, PTL DEF Spec, EntryOutlivesOpenSocket

\* Only a restart takes a closed socket out of the registry.
THEOREM GhostsStay == Spec => GhostStays
<1>1. IInv /\ [Next]_vars => [\A u \in Users, s \in Sockets :
        usersOnline[u] = s /\ readyState[s] = "CLOSED" /\ ~ Crash
          => usersOnline'[u] = s]_vars
  <2> SUFFICES ASSUME IInv, [Next]_vars, NEW u \in Users, NEW s \in Sockets,
                      usersOnline[u] = s, readyState[s] = "CLOSED", ~ Crash,
                      usersOnline'[u] # s
               PROVE  FALSE
    OBVIOUS
  <2> USE PresenceAssumption DEF IInv, TypeOK
  <2>1. ASSUME NEW t \in Sockets, CloseEvent(t) PROVE FALSE
    BY <2>1 DEF CloseEvent, removeClient
  <2>2. ASSUME NEW t \in Sockets, NEW g \in Gateways, LookupFound(t, g) PROVE FALSE
    BY <2>2 DEF LookupFound, addClient, Handshakes, getUserIdByID_online
  <2> QED
    BY <2>1, <2>2 DEF Next, SocketStep, Connect, ConnectRejected, LookupFails, Drained,
       PeerCloses, QueryOnline, QueryIsOnline, vars
<1> QED
  BY <1>1, PresenceInvariant, PTL DEF Spec, GhostStays

=============================================================================
