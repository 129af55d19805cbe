--------------------------- MODULE DeliveryProofs ---------------------------
(***************************************************************************)
(* Proofs about the way of a message, for any number of users,             *)
(* connections, messages, requests, restarts and failures.                 *)
(***************************************************************************)
EXTENDS Delivery, PresenceProofs

-----------------------------------------------------------------------------
(* Delivery implements Presence *)

\* Every step of the delivery is a step of the registry or leaves it alone.
LEMMA DeliveryStepIsPresenceStep == [DeliveryNext]_allVars => [Next]_vars
<1> SUFFICES ASSUME [DeliveryNext]_allVars PROVE [Next]_vars
  OBVIOUS
<1>1. ASSUME NEW s \in Sockets, PresenceOnly(s) PROVE Next
  BY <1>1 DEF PresenceOnly, Next, SocketStep
<1>2. ASSUME NEW s \in Sockets, NEW g \in Gateways, Admit(s, g) PROVE Next
  BY <1>2 DEF Admit, Next, SocketStep
<1>3. ASSUME NEW s \in Sockets, ReplaySend(s) PROVE [Next]_vars
  BY <1>3 DEF ReplaySend, Next, SocketStep
<1>4. CASE Restart
  BY <1>4 DEF Restart, Redelivers, Next
<1>5. CASE ConsumerStep
  BY <1>5 DEF ConsumerStep, HandleCreate, HandleUpdate, HandleDelete, HandlerRejects,
     HandlePending, FanOut, FanOutFails
<1>6. ASSUME NEW s \in Sockets, NEW k \in Kinds, NEW m \in Messages \cup {NoMessage},
             Request(s, k, m)
      PROVE UNCHANGED vars
  BY <1>6 DEF Request
<1>7. ASSUME NEW s \in Sockets, ReplayRead(s) PROVE UNCHANGED vars
  BY <1>7 DEF ReplayRead
<1>8. ASSUME NEW m \in Messages, HttpCreate(m) \/ HttpDelete(m) PROVE UNCHANGED vars
  BY <1>8 DEF HttpCreate, HttpDelete
<1>9. ASSUME NEW r \in outbox, Publish(r) \/ PublishAgain(r) \/ PublishFails(r) PROVE UNCHANGED vars
  BY <1>9 DEF Publish, PublishAgain, PublishFails
<1>10. CASE Commit \/ Rebalance
  BY <1>10 DEF Commit, Rebalance, Redelivers
<1>11. ASSUME NEW j \in removing, RemoveJob(j) PROVE UNCHANGED vars
  BY <1>11 DEF RemoveJob
<1>12. CASE UNCHANGED allVars
  BY <1>12 DEF allVars
<1> QED
  BY <1>1, <1>2, <1>3, <1>4, <1>5, <1>6, <1>7, <1>8, <1>9, <1>10, <1>11, <1>12 DEF DeliveryNext

\* The message path drives the registry in no way the gateways do not.
THEOREM DeliveryImplementsPresence == DeliverySpec => KeepsPresence
<1>1. DeliveryInit => Init
  BY DEF DeliveryInit
<1> QED
  BY <1>1, DeliveryStepIsPresenceStep, PTL DEF DeliverySpec, Spec, KeepsPresence

-----------------------------------------------------------------------------
(* Types *)

\* An entry of the registry is a socket, so sendToUser writes to sockets only.
LEMMA ReachableSocket ==
  ASSUME TypeOK, NEW u, Reachable(u)
  PROVE  u \in Users /\ usersOnline[u] \in Sockets
  BY DEF Reachable, getUserIdByID_online, TypeOK

\* sendToUser keeps the types of what is delivered and dropped.
LEMMA SendTypes ==
  ASSUME TypeOK, DeliveryTypeOK, NEW letters, \A l \in letters : l.note \in Record,
         sendToUser(letters)
  PROVE  delivered' \subseteq Record \X Sockets /\ dropped' \subseteq Record
<1>1. \A l \in letters : Reachable(l.to) => usersOnline[l.to] \in Sockets
  BY ReachableSocket
<1> QED
  BY <1>1 DEF sendToUser, DeliveryTypeOK

\* A notification made of a request of the task is a record.
LEMMA NoteType ==
  ASSUME DeliveryTypeOK, task # NoTask, NEW u \in Users
  PROVE  Note(task, u) \in Record
  BY DEF DeliveryTypeOK, Note, Record, Kinds

\* So is an error reply.
LEMMA ErrorType ==
  ASSUME NEW r \in Record
  PROVE  ErrorFor(r).note \in Record
  BY DEF ErrorFor, Record, Kinds

USE DEF NextReplay

\* Every step keeps the types.
LEMMA DeliveryTypeStep ==
  TypeOK /\ DeliveryTypeOK /\ [DeliveryNext]_allVars => DeliveryTypeOK'
<1> SUFFICES ASSUME TypeOK, DeliveryTypeOK, [DeliveryNext]_allVars PROVE DeliveryTypeOK'
  OBVIOUS
<1> USE DeliveryAssumption
<1>1. ASSUME NEW s \in Sockets, PresenceOnly(s) PROVE DeliveryTypeOK'
  BY <1>1 DEF PresenceOnly, DeliveryTypeOK, deliveryVars, kafka, bull, sent, faults
<1>2. ASSUME NEW s \in Sockets, NEW g \in Gateways, Admit(s, g) PROVE DeliveryTypeOK'
  BY <1>2 DEF Admit, DeliveryTypeOK, kafka, sent, faults, Kinds
<1>3. ASSUME NEW s \in Sockets, ReplayRead(s) PROVE DeliveryTypeOK'
  BY <1>3 DEF ReplayRead, DeliveryTypeOK, kafka, sent, faults
<1>4. ASSUME NEW s \in Sockets, ReplaySend(s) PROVE DeliveryTypeOK'
  <2>1. scan[s] \subseteq Job
    BY <1>4 DEF ReplaySend, DeliveryTypeOK
  <2>2. delivered' \subseteq Record \X Sockets /\ dropped' \subseteq Record
    <3> DEFINE letters == {[to |-> owner[s], note |-> j.note] : j \in scan[s]}
    <3>1. \A l \in letters : l.note \in Record
      BY <2>1 DEF Job
    <3>2. sendToUser(letters)
      BY <1>4 DEF ReplaySend
    <3> HIDE DEF letters
    <3> QED
      BY <3>1, <3>2, SendTypes
  <2>3. replay' \in [Sockets -> Kinds \cup {"none"}]
    BY <1>4 DEF ReplaySend, DeliveryTypeOK, Kinds
  <2> QED
    BY <1>4, <2>1, <2>2, <2>3 DEF ReplaySend, DeliveryTypeOK, kafka, faults
<1>5. ASSUME NEW s \in Sockets, NEW k \in Kinds, NEW m \in Messages \cup {NoMessage},
             Request(s, k, m)
      PROVE DeliveryTypeOK'
  <2>1. getUserIdBySocket(s) \in Users \cup {NoUser}
    BY DEF getUserIdBySocket, Registered
  <2>2. asked' \in 1..MaxRequests
    BY <1>5 DEF Request, DeliveryTypeOK
  <2>3. [topic |-> "request", id |-> asked', kind |-> k, msg |-> m,
         user |-> getUserIdBySocket(s)] \in Record
    BY <2>1, <2>2 DEF Record
  <2> QED
    BY <1>5, <2>2, <2>3 DEF Request, DeliveryTypeOK, bull, sent, faults
<1>6. ASSUME NEW m \in Messages, HttpCreate(m) \/ HttpDelete(m) PROVE DeliveryTypeOK'
  BY <1>6 DEF HttpCreate, HttpDelete, DeliveryTypeOK, kafka, bull, sent, faults
<1>7. ASSUME NEW r \in outbox, Publish(r) \/ PublishAgain(r) \/ PublishFails(r)
      PROVE  DeliveryTypeOK'
  BY <1>7 DEF Publish, PublishAgain, PublishFails, Fault, DeliveryTypeOK, bull, sent, faults
<1>8. CASE Commit \/ Rebalance
  BY <1>8 DEF Commit, Rebalance, Redelivers, Fault, DeliveryTypeOK, bull, sent, faults
<1>9. ASSUME NEW j \in removing, RemoveJob(j) PROVE DeliveryTypeOK'
  BY <1>9 DEF RemoveJob, DeliveryTypeOK, kafka, sent, faults
<1>10. CASE Restart
  BY <1>10 DEF Restart, Redelivers, DeliveryTypeOK, sent
<1>11. ASSUME NEW r \in topic, NEW m \in Messages, HandleCreate(r, m) PROVE DeliveryTypeOK'
  BY <1>11 DEF HandleCreate, DeliveryTypeOK, kafka, bull, sent, faults
<1>12. ASSUME NEW r \in topic, HandleUpdate(r) \/ HandleDelete(r) PROVE DeliveryTypeOK'
  <2>1. r \in Record /\ msgs[r.msg] = "stored" /\ task' = [rec |-> r, msg |-> r.msg]
    BY <1>12 DEF HandleUpdate, HandleDelete, DeliveryTypeOK
  <2>2. r.msg \in Messages
    BY <1>12, <2>1 DEF HandleUpdate, HandleDelete, Record
  <2> QED
    BY <1>12, <2>1, <2>2 DEF HandleUpdate, HandleDelete, DeliveryTypeOK, kafka, bull, sent, faults
<1>13. ASSUME NEW r \in topic, HandlerRejects(r) PROVE DeliveryTypeOK'
  <2>1. r \in Record
    BY DEF DeliveryTypeOK
  <2>2. delivered' \subseteq Record \X Sockets /\ dropped' \subseteq Record
    BY <1>13, <2>1, ErrorType, SendTypes DEF HandlerRejects
  <2> QED
    BY <1>13, <2>1, <2>2 DEF HandlerRejects, Fault, Finish, DeliveryTypeOK, bull
<1>14. ASSUME NEW r \in topic, HandlePending(r) PROVE DeliveryTypeOK'
  BY <1>14 DEF HandlePending, Finish, DeliveryTypeOK, Job, sent, faults
<1>15. CASE FanOut
  <2>1. \A u \in Chatters : Note(task, u) \in Record
    BY <1>15, NoteType DEF FanOut
  <2> DEFINE online == {u \in Chatters : getUserIdByID_online(u)}
             letters == {[to |-> u, note |-> Note(task, u)] : u \in online}
  <2>2. \A l \in letters : l.note \in Record
    BY <2>1
  <2>3. sendToUser(letters)
    BY <1>15 DEF FanOut
  <2>4. delivered' \subseteq Record \X Sockets /\ dropped' \subseteq Record
    <3> HIDE DEF letters
    <3> QED
      BY <2>2, <2>3, SendTypes
  <2>5. outbox' \subseteq Record /\ handed' \subseteq Record
    BY <1>15, <2>1 DEF FanOut, DeliveryTypeOK
  <2>6. task.rec \in Record
    BY <1>15 DEF FanOut, DeliveryTypeOK
  <2> QED
    BY <1>15, <2>4, <2>5, <2>6 DEF FanOut, Finish, DeliveryTypeOK, bull, faults
<1>16. CASE FanOutFails
  <2>1. task.rec \in Record
    BY <1>16 DEF FanOutFails, DeliveryTypeOK
  <2>2. delivered' \subseteq Record \X Sockets /\ dropped' \subseteq Record
    BY <1>16, <2>1, ErrorType, SendTypes DEF FanOutFails
  <2> QED
    BY <1>16, <2>1, <2>2 DEF FanOutFails, Fault, Finish, DeliveryTypeOK, bull
<1>17. CASE UNCHANGED allVars
  BY <1>17 DEF allVars, deliveryVars, DeliveryTypeOK, kafka, bull, sent, faults
<1> QED
  BY <1>1, <1>2, <1>3, <1>4, <1>5, <1>6, <1>7, <1>8, <1>9, <1>10, <1>11, <1>12, <1>13, <1>14,
     <1>15, <1>16, <1>17 DEF DeliveryNext, ConsumerStep

-----------------------------------------------------------------------------
(* What is said in the records, and to whom *)

\* What a notification says of its message is so, now and later.
Truth(n) == /\ n.msg \in Messages
            /\ msgs[n.msg] \in IF n.kind = "delete" THEN {"deleted"} ELSE {"stored", "deleted"}

\* A notification for a chatter that says something true.
WellMeant(n) == /\ n.topic = "pending"
                /\ n.user \in Chatters
                /\ n.kind \in Kinds
                /\ Truth(n)

RecordsInOrder ==
  \A r \in outbox \cup topic \cup handled :
    r.kind \in Kinds /\ (r.topic = "pending" => WellMeant(r))

TaskInOrder ==
  task # NoTask => /\ task.rec.topic = "request"
                   /\ task.rec.kind \in Kinds
                   /\ Truth([msg |-> task.msg, kind |-> task.rec.kind])

HandedInOrder == \A n \in handed : WellMeant(n)

QueueInOrder == \A j \in queue : WellMeant(j.note)

\* What a replay has read are notifications for the user of its connection.
ScanInOrder ==
  \A s \in Sockets :
    scan[s] # NotRead => /\ readyState[s] # "UNUSED"
                         /\ \A j \in scan[s] : WellMeant(j.note) /\ j.note.user = owner[s]

DeliveredInOrder ==
  \A d \in delivered :
    /\ readyState[d[2]] # "UNUSED"
    /\ owner[d[2]] = d[1].user
    /\ d[1].kind # "error" => WellMeant(d[1])

\* Only an admitted connection replays.
ReplayersInOrder ==
  \A s \in Sockets : replay[s] # "none" => readyState[s] # "UNUSED"

NotesInv == /\ RecordsInOrder /\ TaskInOrder
            /\ HandedInOrder /\ QueueInOrder /\ ScanInOrder /\ DeliveredInOrder
            /\ ReplayersInOrder

\* A written message stays written, a deleted one deleted.
MessagesAge ==
  /\ \A m \in Messages : msgs[m] = "stored" => msgs'[m] \in {"stored", "deleted"}
  /\ \A m \in Messages : msgs[m] = "deleted" => msgs'[m] = "deleted"

\* No step writes a message that is deleted or forgets one that is written.
LEMMA MessagesAgeStep ==
  DeliveryTypeOK /\ [DeliveryNext]_allVars => MessagesAge
<1> SUFFICES ASSUME DeliveryTypeOK, [DeliveryNext]_allVars PROVE MessagesAge
  OBVIOUS
<1>1. CASE UNCHANGED msgs
  BY <1>1 DEF MessagesAge
<1>2. ASSUME NEW m \in Messages, HttpCreate(m) \/ HttpDelete(m) PROVE MessagesAge
  BY <1>2 DEF HttpCreate, HttpDelete, MessagesAge, DeliveryTypeOK
<1>3. ASSUME NEW r \in topic, NEW m \in Messages, HandleCreate(r, m) PROVE MessagesAge
  BY <1>3 DEF HandleCreate, MessagesAge, DeliveryTypeOK
<1>4. ASSUME NEW r \in topic, HandleDelete(r) PROVE MessagesAge
  BY <1>4 DEF HandleDelete, MessagesAge, DeliveryTypeOK
<1> QED
  BY <1>1, <1>2, <1>3, <1>4 DEF DeliveryNext, ConsumerStep, PresenceOnly, ReplayRead, ReplaySend,
     Admit, Request, Publish, PublishAgain, PublishFails, Commit, Rebalance, Redelivers,
     HandleUpdate, HandlerRejects, HandlePending, FanOut, FanOutFails, RemoveJob, Restart, allVars,
     deliveryVars

\* So what was true of a message stays true.
LEMMA TruthStays ==
  ASSUME MessagesAge, NEW n, Truth(n)
  PROVE  Truth(n)'
  BY DEF Truth, MessagesAge

\* So is a notification that was for a chatter.
LEMMA WellMeantStays ==
  ASSUME MessagesAge, NEW n, WellMeant(n)
  PROVE  WellMeant(n)'
  BY TruthStays DEF WellMeant

\* A connection keeps its owner once it was opened.
OwnersStay ==
  \A s \in Sockets : readyState[s] # "UNUSED" => /\ owner'[s] = owner[s]
                                                 /\ readyState'[s] # "UNUSED"

\* Only the opening of a connection sets its owner.
LEMMA OwnersStayStep == IInv /\ [Next]_vars => OwnersStay
<1> SUFFICES ASSUME IInv, [Next]_vars PROVE OwnersStay
  OBVIOUS
<1> USE DEF IInv, TypeOK, OwnersStay
<1>1. CASE Crash
  BY <1>1 DEF Crash
<1>2. ASSUME NEW s \in Sockets, SocketStep(s) PROVE OwnersStay
  BY <1>2 DEF SocketStep, Connect, ConnectRejected, LookupFound, LookupFails, Drained, PeerCloses,
     CloseEvent, QueryOnline, QueryIsOnline
<1> QED
  BY <1>1, <1>2 DEF Next, vars

\* sendToUser writes to connections of the addressee; what it does not write
\* it drops.
LEMMA Sending ==
  ASSUME IInv, NEW letters, sendToUser(letters)
  PROVE  /\ delivered \subseteq delivered' /\ dropped \subseteq dropped'
         /\ \A d \in delivered' : d \notin delivered =>
              \E l \in letters : /\ d[1] = l.note
                                 /\ readyState[d[2]] # "UNUSED"
                                 /\ owner[d[2]] = l.to
         /\ \A l \in letters : \/ \E s \in Sockets : <<l.note, s>> \in delivered'
                               \/ l.note \in dropped'
<1>1. \A l \in letters : Reachable(l.to) =>
        /\ usersOnline[l.to] \in Sockets
        /\ readyState[usersOnline[l.to]] # "UNUSED"
        /\ owner[usersOnline[l.to]] = l.to
  BY ReachableSocket DEF IInv, Reachable, RegistryConsistent
<1> QED
  BY <1>1 DEF sendToUser

\* Where a step may take records, jobs and deliveries from: they were there
\* before, or they are of the right kind.
NotesFlow ==
  /\ \A r \in outbox' \cup topic' \cup handled' :
       \/ r \in outbox \cup topic \cup handled
       \/ r.topic # "pending" /\ r.kind \in Kinds
       \/ WellMeant(r)
  /\ task' = task \/ TaskInOrder'
  /\ \A n \in handed' : n \in handed \/ WellMeant(n)
  /\ \A j \in queue' : j \in queue \/ WellMeant(j.note)
  /\ \A s \in Sockets :
       \/ scan'[s] = NotRead
       \/ scan'[s] = scan[s]
       \/ /\ readyState[s] # "UNUSED"
          /\ \A j \in scan'[s] : WellMeant(j.note) /\ j.note.user = owner[s]
  /\ \A d \in delivered' :
       \/ d \in delivered
       \/ /\ readyState[d[2]] # "UNUSED" /\ owner[d[2]] = d[1].user
          /\ d[1].kind # "error" => WellMeant(d[1])
  /\ \A s \in Sockets : replay'[s] # "none" => replay[s] # "none" \/ readyState[s] # "UNUSED"

\* A step of that kind keeps everything in order.
LEMMA FlowKeepsOrder ==
  ASSUME DeliveryTypeOK, DeliveryTypeOK', NotesInv, MessagesAge, OwnersStay, NotesFlow
  PROVE  NotesInv'
<1> USE DEF NotesInv, NotesFlow
<1>1. RecordsInOrder'
  <2> SUFFICES ASSUME NEW r \in outbox' \cup topic' \cup handled'
               PROVE  r.kind \in Kinds /\ (r.topic = "pending" => WellMeant(r)')
    BY DEF RecordsInOrder
  <2>1. r.kind \in Kinds /\ (r.topic = "pending" => WellMeant(r))
    BY DEF RecordsInOrder, WellMeant
  <2> QED
    BY <2>1, WellMeantStays
<1>2. TaskInOrder'
  <2> SUFFICES ASSUME task' = task PROVE TaskInOrder'
    OBVIOUS
  <2>1. CASE task = NoTask
    BY <2>1 DEF TaskInOrder
  <2>2. CASE task # NoTask
    BY <2>2, TruthStays DEF TaskInOrder
  <2> QED
    BY <2>1, <2>2
<1>3. HandedInOrder'
  BY WellMeantStays DEF HandedInOrder
<1>4. QueueInOrder'
  BY WellMeantStays DEF QueueInOrder
<1>5. ScanInOrder'
  <2> SUFFICES ASSUME NEW s \in Sockets, scan'[s] # NotRead
               PROVE  /\ readyState'[s] # "UNUSED"
                      /\ \A j \in scan'[s] : WellMeant(j.note)' /\ j.note.user = owner'[s]
    BY DEF ScanInOrder
  <2>1. /\ readyState[s] # "UNUSED"
        /\ \A j \in scan'[s] : WellMeant(j.note) /\ j.note.user = owner[s]
    BY DEF ScanInOrder
  <2> QED
    BY <2>1, WellMeantStays DEF OwnersStay
<1>6. DeliveredInOrder'
  <2> SUFFICES ASSUME NEW d \in delivered'
               PROVE  /\ readyState'[d[2]] # "UNUSED"
                      /\ owner'[d[2]] = d[1].user
                      /\ d[1].kind # "error" => WellMeant(d[1])'
    BY DEF DeliveredInOrder
  <2>1. d[2] \in Sockets
    BY DEF DeliveryTypeOK
  <2>2. /\ readyState[d[2]] # "UNUSED"
        /\ owner[d[2]] = d[1].user
        /\ d[1].kind # "error" => WellMeant(d[1])
    BY DEF DeliveredInOrder
  <2> QED
    BY <2>1, <2>2, WellMeantStays DEF OwnersStay
<1>7. ReplayersInOrder'
  BY DEF ReplayersInOrder, OwnersStay
<1> QED
  BY <1>1, <1>2, <1>3, <1>4, <1>5, <1>6, <1>7

\* What the fan-out says is for chatters, and true.
LEMMA NotesAreWellMeant ==
  ASSUME DeliveryTypeOK, TaskInOrder, task # NoTask, NEW u \in Chatters
  PROVE  WellMeant(Note(task, u)) /\ Note(task, u).user = u
<1>1. task.rec \in Record
  BY DEF DeliveryTypeOK
<1>2. /\ Note(task, u).topic = "pending" /\ Note(task, u).kind = task.rec.kind
      /\ Note(task, u).msg = task.msg /\ Note(task, u).user = u
  BY <1>1 DEF Note, Record
<1> QED
  BY <1>2 DEF TaskInOrder, WellMeant, Truth

\* An error reply names the requester.
LEMMA ErrorFields ==
  ASSUME NEW r \in Record
  PROVE  ErrorFor(r).note.user = ErrorFor(r).to /\ ErrorFor(r).note.kind = "error"
  BY DEF ErrorFor, Record

\* An error reply is written only to connections of the requester.
LEMMA ErrorDelivered ==
  ASSUME IInv, NEW r \in Record, sendToUser({ErrorFor(r)}), NEW d \in delivered',
         d \notin delivered
  PROVE  readyState[d[2]] # "UNUSED" /\ owner[d[2]] = d[1].user /\ d[1].kind = "error"
  BY Sending, ErrorFields

\* Every step takes its records, jobs and deliveries from the right places.
LEMMA FlowStep ==
  IInv /\ DeliveryTypeOK /\ NotesInv /\ [DeliveryNext]_allVars => NotesFlow
<1> SUFFICES ASSUME IInv, DeliveryTypeOK, NotesInv, [DeliveryNext]_allVars PROVE NotesFlow
  OBVIOUS
<1> USE DEF NotesFlow
<1>1. ASSUME NEW s \in Sockets, PresenceOnly(s) PROVE NotesFlow
  BY <1>1 DEF PresenceOnly, deliveryVars, kafka, bull, sent
<1>2. ASSUME NEW s \in Sockets, NEW g \in Gateways, Admit(s, g) PROVE NotesFlow
  <2>1. readyState[s] # "UNUSED"
    BY <1>2 DEF Admit, LookupFound, IInv, Handshakes
  <2> QED
    BY <1>2, <2>1 DEF Admit, kafka, sent, DeliveryTypeOK
<1>3. ASSUME NEW s \in Sockets, ReplayRead(s) PROVE NotesFlow
  <2>1. readyState[s] # "UNUSED"
    BY <1>3 DEF ReplayRead, NotesInv, ReplayersInOrder
  <2>2. \A j \in scan'[s] : WellMeant(j.note) /\ j.note.user = owner[s]
    BY <1>3 DEF ReplayRead, DeliveryTypeOK, NotesInv, QueueInOrder
  <2>3. \A t \in Sockets : t # s => scan'[t] = scan[t]
    BY <1>3 DEF ReplayRead, DeliveryTypeOK
  <2> QED
    BY <1>3, <2>1, <2>2, <2>3 DEF ReplayRead, kafka, sent
<1>4. ASSUME NEW s \in Sockets, ReplaySend(s) PROVE NotesFlow
  <2> DEFINE letters == {[to |-> owner[s], note |-> j.note] : j \in scan[s]}
  <2>1. \A l \in letters : l.to = owner[s] /\ l.note.user = owner[s] /\ WellMeant(l.note)
    BY <1>4 DEF ReplaySend, NotesInv, ScanInOrder
  <2>2. sendToUser(letters)
    BY <1>4 DEF ReplaySend
  <2>3. ASSUME NEW d \in delivered', d \notin delivered
        PROVE  readyState[d[2]] # "UNUSED" /\ owner[d[2]] = d[1].user /\ WellMeant(d[1])
    <3> HIDE DEF letters
    <3> QED
      BY <2>1, <2>2, <2>3, Sending
  <2>4. \A t \in Sockets : scan'[t] = NotRead \/ scan'[t] = scan[t]
    BY <1>4 DEF ReplaySend, DeliveryTypeOK
  <2>5. \A t \in Sockets : replay'[t] # "none" => replay[t] # "none"
    BY <1>4 DEF ReplaySend, DeliveryTypeOK
  <2> QED
    BY <1>4, <2>3, <2>4, <2>5 DEF ReplaySend, kafka
<1>5. ASSUME NEW s \in Sockets, NEW k \in Kinds, NEW m \in Messages \cup {NoMessage},
             Request(s, k, m)
      PROVE NotesFlow
  BY <1>5 DEF Request, bull, sent
<1>6. ASSUME NEW m \in Messages, HttpCreate(m) \/ HttpDelete(m) PROVE NotesFlow
  BY <1>6 DEF HttpCreate, HttpDelete, kafka, bull, sent
<1>7. ASSUME NEW r \in outbox, Publish(r) \/ PublishAgain(r) \/ PublishFails(r) PROVE NotesFlow
  BY <1>7 DEF Publish, PublishAgain, PublishFails, bull, sent
<1>8. CASE Commit \/ Rebalance
  BY <1>8 DEF Commit, Rebalance, Redelivers, bull, sent
<1>9. ASSUME NEW j \in removing, RemoveJob(j) PROVE NotesFlow
  BY <1>9 DEF RemoveJob, kafka, sent
<1>10. CASE Restart
  BY <1>10 DEF Restart, Redelivers, sent, TaskInOrder
<1>11. ASSUME NEW r \in topic, NEW m \in Messages, HandleCreate(r, m) PROVE NotesFlow
  <2>1. TaskInOrder'
    BY <1>11 DEF HandleCreate, DeliveryTypeOK, TaskInOrder, Truth, Kinds
  <2> QED
    BY <1>11, <2>1 DEF HandleCreate, kafka, bull, sent
<1>12. ASSUME NEW r \in topic, HandleUpdate(r) \/ HandleDelete(r) PROVE NotesFlow
  <2>1. r \in Record /\ r.msg \in Messages
    BY <1>12 DEF HandleUpdate, HandleDelete, DeliveryTypeOK, Record
  <2>2. TaskInOrder'
    BY <1>12, <2>1 DEF HandleUpdate, HandleDelete, DeliveryTypeOK, TaskInOrder, Truth, Kinds
  <2> QED
    BY <1>12, <2>2 DEF HandleUpdate, HandleDelete, kafka, bull, sent
<1>13. ASSUME NEW r \in topic, HandlerRejects(r) PROVE NotesFlow
  <2>1. r \in Record /\ sendToUser({ErrorFor(r)})
    BY <1>13 DEF HandlerRejects, DeliveryTypeOK
  <2> QED
    BY <1>13, <2>1, ErrorDelivered DEF HandlerRejects, Finish, bull
<1>14. ASSUME NEW r \in topic, HandlePending(r) PROVE NotesFlow
  BY <1>14 DEF HandlePending, Finish, NotesInv, RecordsInOrder, sent
<1>15. CASE FanOut
  <2> DEFINE online == {u \in Chatters : getUserIdByID_online(u)}
             letters == {[to |-> u, note |-> Note(task, u)] : u \in online}
  <2>1. \A u \in Chatters : WellMeant(Note(task, u)) /\ Note(task, u).user = u
    BY <1>15, NotesAreWellMeant DEF FanOut, NotesInv
  <2>2. \A l \in letters : l.note.user = l.to /\ WellMeant(l.note)
    BY <2>1
  <2>3. sendToUser(letters)
    BY <1>15 DEF FanOut
  <2>4. ASSUME NEW d \in delivered', d \notin delivered
        PROVE  readyState[d[2]] # "UNUSED" /\ owner[d[2]] = d[1].user /\ WellMeant(d[1])
    <3> HIDE DEF letters
    <3> QED
      BY <2>2, <2>3, <2>4, Sending
  <2>5. task.rec \in topic' \cup handled' => task.rec.kind \in Kinds /\ task.rec.topic # "pending"
    BY <1>15 DEF FanOut, NotesInv, TaskInOrder
  <2>6. \A r \in topic' \cup handled' : r \in topic \cup handled \/ r = task.rec
    BY <1>15 DEF FanOut, Finish
  <2>8. \A r \in outbox' : r \in outbox \/ WellMeant(r)
    BY <1>15, <2>1 DEF FanOut
  <2>9. \A r \in handed' : r \in handed \/ WellMeant(r)
    BY <1>15, <2>1 DEF FanOut
  <2>10. TaskInOrder'
    BY <1>15 DEF FanOut, TaskInOrder
  <2> QED
    BY <1>15, <2>4, <2>5, <2>6, <2>8, <2>9, <2>10 DEF FanOut, bull
<1>16. CASE FanOutFails
  <2>1. task.rec \in Record /\ sendToUser({ErrorFor(task.rec)})
    BY <1>16 DEF FanOutFails, DeliveryTypeOK
  <2>2. task.rec.kind \in Kinds /\ task.rec.topic # "pending"
    BY <1>16 DEF FanOutFails, NotesInv, TaskInOrder
  <2>3. TaskInOrder'
    BY <1>16 DEF FanOutFails, TaskInOrder
  <2> QED
    BY <1>16, <2>1, <2>2, <2>3, ErrorDelivered DEF FanOutFails, Finish, bull
<1>17. CASE UNCHANGED allVars
  BY <1>17 DEF allVars, deliveryVars, kafka, bull, sent
<1> QED
  BY <1>1, <1>2, <1>3, <1>4, <1>5, <1>6, <1>7, <1>8, <1>9, <1>10, <1>11, <1>12, <1>13, <1>14,
     <1>15, <1>16, <1>17 DEF DeliveryNext, ConsumerStep

-----------------------------------------------------------------------------
(* Where a notification goes *)

\* The notification was given to sendToUser.
Passed(n) == (\E s \in Sockets : <<n, s>> \in delivered) \/ n \in dropped

\* A job is removed after its notification was given to sendToUser.
RemovedWerePassed == \A j \in removing : Passed(j.note)

HistoryGrows == delivered \subseteq delivered' /\ dropped \subseteq dropped' /\ lost \subseteq lost'

\* What was delivered, dropped or lost stays so.
LEMMA HistoryGrowsStep == [DeliveryNext]_allVars => HistoryGrows
<1> SUFFICES ASSUME [DeliveryNext]_allVars PROVE HistoryGrows
  OBVIOUS
<1>1. CASE UNCHANGED sent
  BY <1>1 DEF HistoryGrows, sent, DeliveryNext, ConsumerStep, PresenceOnly, ReplayRead, ReplaySend,
     Admit, Request, HttpCreate, HttpDelete, Publish, PublishAgain, PublishFails, Commit, Rebalance,
     Redelivers, HandleCreate, HandleUpdate, HandleDelete, HandlerRejects, HandlePending, FanOut,
     FanOutFails, RemoveJob, Restart, allVars, deliveryVars, faults
<1>2. ASSUME NEW letters, sendToUser(letters), UNCHANGED lost PROVE HistoryGrows
  BY <1>2 DEF sendToUser, HistoryGrows
<1>3. ASSUME NEW s \in Sockets, ReplaySend(s) PROVE HistoryGrows
  BY <1>3, <1>2 DEF ReplaySend, faults
<1>4. ASSUME NEW r \in topic, HandlerRejects(r) PROVE HistoryGrows
  BY <1>4, <1>2 DEF HandlerRejects
<1>5. CASE FanOut
  BY <1>5, <1>2 DEF FanOut, faults
<1>6. CASE FanOutFails
  BY <1>6, <1>2 DEF FanOutFails
<1> QED
  BY <1>1, <1>3, <1>4, <1>5, <1>6 DEF DeliveryNext, ConsumerStep, PresenceOnly, ReplayRead, Admit,
     Request, HttpCreate, HttpDelete, Publish, PublishAgain, PublishFails, Commit, Rebalance,
     Redelivers, HandleCreate, HandleUpdate, HandleDelete, HandlePending, RemoveJob, Restart,
     allVars, deliveryVars, sent

\* The job of a removal was passed on, also after the step.
LEMMA RemovedStep ==
  IInv /\ DeliveryTypeOK /\ RemovedWerePassed /\ [DeliveryNext]_allVars => RemovedWerePassed'
<1> SUFFICES ASSUME IInv, DeliveryTypeOK, RemovedWerePassed, [DeliveryNext]_allVars,
                    NEW j \in removing'
             PROVE  Passed(j.note)'
  BY DEF RemovedWerePassed
<1>1. CASE j \in removing
  BY <1>1, HistoryGrowsStep DEF RemovedWerePassed, Passed, HistoryGrows
<1>2. ASSUME NEW s \in Sockets, ReplaySend(s), j \in scan[s] PROVE Passed(j.note)'
  <2> DEFINE letters == {[to |-> owner[s], note |-> k.note] : k \in scan[s]}
  <2>1. sendToUser(letters) /\ [to |-> owner[s], note |-> j.note] \in letters
    BY <1>2 DEF ReplaySend
  <2> HIDE DEF letters
  <2> QED
    BY <2>1, Sending DEF Passed
<1>3. ASSUME removing' \subseteq removing PROVE Passed(j.note)'
  BY <1>1, <1>3
<1> QED
  BY <1>1, <1>2, <1>3 DEF DeliveryNext, ConsumerStep, PresenceOnly, ReplayRead, ReplaySend,
     Admit, Request, HttpCreate, HttpDelete, Publish, PublishAgain, PublishFails, Commit, Rebalance,
     Redelivers, HandleCreate, HandleUpdate, HandleDelete, HandlerRejects, HandlePending, FanOut,
     FanOutFails, RemoveJob, Restart, allVars, deliveryVars, bull

\* Only the removal of a job that was passed on takes a job from the queue.
LEMMA QueueStep ==
  RemovedWerePassed /\ [DeliveryNext]_allVars => \A j \in queue \ queue' : Passed(j.note)
<1> SUFFICES ASSUME RemovedWerePassed, [DeliveryNext]_allVars, NEW j \in queue \ queue'
             PROVE  Passed(j.note)
  OBVIOUS
<1>1. ASSUME NEW k \in removing, RemoveJob(k) PROVE j = k
  BY <1>1 DEF RemoveJob
<1>2. \E k \in removing : RemoveJob(k)
  BY DEF DeliveryNext, ConsumerStep, PresenceOnly, ReplayRead, ReplaySend,
     Admit, Request, HttpCreate, HttpDelete, Publish, PublishAgain, PublishFails, Commit, Rebalance,
     Redelivers, HandleCreate, HandleUpdate, HandleDelete, HandlerRejects, HandlePending, FanOut,
     FanOutFails, Restart, allVars, deliveryVars, bull
<1> QED
  BY <1>1, <1>2 DEF RemovedWerePassed

\* A notification that was accounted for stays accounted for, and those a step
\* adds are.
LEMMA NothingVanishesStep ==
  IInv /\ DeliveryTypeOK /\ NotesInv /\ RemovedWerePassed /\ NothingVanishes
    /\ [DeliveryNext]_allVars => NothingVanishes'
<1> SUFFICES ASSUME IInv, DeliveryTypeOK, NotesInv, RemovedWerePassed, NothingVanishes,
                    [DeliveryNext]_allVars, NEW n \in handed'
             PROVE  \/ Passed(n)'
                    \/ n \in outbox' \cup topic'
                    \/ \E j \in queue' : j.note = n
                    \/ n \in lost'
  BY DEF NothingVanishes, Passed
<1> DEFINE Accounted == \/ Passed(n)'
                        \/ n \in outbox' \cup topic'
                        \/ \E j \in queue' : j.note = n
                        \/ n \in lost'
<1>1. HistoryGrows
  BY HistoryGrowsStep
<1>2. ASSUME n \in handed, Passed(n) \/ n \in lost PROVE Accounted
  BY <1>1, <1>2 DEF HistoryGrows, Passed
<1>3. ASSUME NEW j \in queue, j.note = n, n \in handed PROVE Accounted
  <2>1. CASE j \in queue'
    BY <2>1, <1>3
  <2>2. CASE j \notin queue'
    <3>1. Passed(j.note)
      BY <2>2, QueueStep
    <3> QED
      BY <3>1, <1>2, <1>3
  <2> QED
    BY <2>1, <2>2
<1>4. ASSUME n \in handed, n \in outbox PROVE Accounted
  BY <1>4 DEF DeliveryNext, ConsumerStep, PresenceOnly, ReplayRead, ReplaySend,
     Admit, Request, HttpCreate, HttpDelete, Publish, PublishAgain, PublishFails, Commit, Rebalance,
     Redelivers, HandleCreate, HandleUpdate, HandleDelete, HandlerRejects, HandlePending, FanOut,
     FanOutFails, RemoveJob, Restart, allVars, deliveryVars, kafka
<1>5. ASSUME n \in handed, n \in topic PROVE Accounted
  <2>1. n.topic = "pending"
    BY <1>5 DEF NotesInv, HandedInOrder, WellMeant
  <2>2. ASSUME NEW r \in topic, HandlerRejects(r) PROVE n \in topic'
    BY <1>5, <2>1, <2>2 DEF HandlerRejects, Finish
  <2>3. CASE FanOut \/ FanOutFails
    BY <1>5, <2>1, <2>3 DEF FanOut, FanOutFails, Finish, NotesInv, TaskInOrder
  <2>4. ASSUME NEW r \in topic, HandlePending(r) PROVE Accounted
    <3>1. n \in topic' \/ n = r
      BY <1>5, <2>4 DEF HandlePending, Finish
    <3>2. [id |-> jobs', note |-> r] \in queue' /\ [id |-> jobs', note |-> r].note = r
      BY <2>4 DEF HandlePending
    <3> QED
      BY <3>1, <3>2
  <2>5. ASSUME UNCHANGED topic PROVE Accounted
    BY <1>5, <2>5
  <2>6. ASSUME topic \subseteq topic' PROVE Accounted
    BY <1>5, <2>6
  <2> QED
    BY <2>2, <2>3, <2>4, <2>5, <2>6 DEF DeliveryNext, ConsumerStep, PresenceOnly, ReplayRead,
       ReplaySend, Admit, Request, HttpCreate, HttpDelete, Publish, PublishAgain, PublishFails,
       Commit, Rebalance, Redelivers, HandleCreate, HandleUpdate, HandleDelete, RemoveJob, Restart,
       allVars, deliveryVars, kafka
<1>6. CASE FanOut
  <2> DEFINE online == {u \in Chatters : getUserIdByID_online(u)}
             letters == {[to |-> u, note |-> Note(task, u)] : u \in online}
  <2>1. CASE n \in handed
    BY <2>1, <1>2, <1>3, <1>4, <1>5 DEF NothingVanishes, Passed
  <2>2. ASSUME NEW u \in Chatters, n = Note(task, u) PROVE Accounted
    <3>1. CASE u \in online
      <4>1. sendToUser(letters) /\ [to |-> u, note |-> n] \in letters
        BY <1>6, <2>2, <3>1 DEF FanOut
      <4> HIDE DEF letters
      <4>2. (\E s \in Sockets : <<n, s>> \in delivered') \/ n \in dropped'
        BY <4>1, Sending
      <4> QED
        BY <4>2 DEF Passed
    <3>2. CASE u \notin online
      BY <1>6, <2>2, <3>2 DEF FanOut
    <3> QED
      BY <3>1, <3>2
  <2> QED
    BY <1>6, <2>1, <2>2 DEF FanOut
<1>7. CASE n \in handed
  BY <1>7, <1>2, <1>3, <1>4, <1>5 DEF NothingVanishes, Passed
<1>8. handed' = handed \/ FanOut
  BY DEF DeliveryNext, ConsumerStep, PresenceOnly, ReplayRead, ReplaySend,
     Admit, Request, HttpCreate, HttpDelete, Publish, PublishAgain, PublishFails, Commit, Rebalance,
     Redelivers, HandleCreate, HandleUpdate, HandleDelete, HandlerRejects, HandlePending,
     FanOutFails, RemoveJob, Restart, allVars, deliveryVars
<1> QED
  BY <1>6, <1>7, <1>8

-----------------------------------------------------------------------------
(* What a replay leaves behind *)

\* A replay is going on as long as the chat gateway is draining the queue.
ReplayStages ==
  \A s \in Sockets :
    /\ stage[s][ChatGateway] = "drain" <=> replay[s] # "none"
    /\ scan[s] # NotRead => replay[s] # "none"
    /\ since[s] <= jobs

\* A job of the user that was queued before the replay began.
Old(s, j) == j.note.user = owner[s] /\ j.id <= since[s]

\* The old jobs that are left are of the kinds the replay has not come to, or
\* among those it has read.
ReplayProgress ==
  \A s \in Sockets, j \in queue \ removing :
    Old(s, j) =>
      /\ stage[s][ChatGateway] # "ready"
      /\ replay[s] = "update" => j.note.kind # "create"
      /\ replay[s] = "delete" => j.note.kind = "delete"
      /\ scan[s] # NotRead /\ j.note.kind = replay[s] => j \in scan[s]

ReplayInv == ReplayStages /\ ReplayProgress

\* Nothing but the replay touches the stages of the chat gateway that matter to
\* it, and a connection in one of them keeps its owner.
LEMMA StageKept ==
  ASSUME IInv, NEW s \in Sockets, PresenceOnly(s), NEW t \in Sockets
  PROVE  /\ stage'[t][ChatGateway] = "drain" <=> stage[t][ChatGateway] = "drain"
         /\ stage'[t][ChatGateway] = "ready" <=> stage[t][ChatGateway] = "ready"
         /\ stage[t][ChatGateway] \in {"drain", "ready"} => owner'[t] = owner[t]
<1> USE PresenceAssumption DEF IInv, TypeOK
<1>1. readyState[s] = "UNUSED" => stage[s][ChatGateway] = "idle"
  BY DEF Handshakes
<1>2. ASSUME NEW u \in Users, Connect(s, u), t # s
      PROVE  stage'[t] = stage[t] /\ owner'[t] = owner[t]
  BY <1>2 DEF Connect
<1>3. ASSUME NEW u \in Users, Connect(s, u) PROVE stage'[s][ChatGateway] = "lookup"
  BY <1>3 DEF Connect
<1>4. CASE ConnectRejected(s)
  BY <1>1, <1>4 DEF ConnectRejected
<1>5. ASSUME NEW g \in Gateways, LookupFails(s, g)
      PROVE  /\ stage[s][g] = "lookup" /\ stage'[s][g] = "done"
             /\ \A h \in Gateways : t # s \/ h # g => stage'[t][h] = stage[t][h]
             /\ UNCHANGED owner
  BY <1>5 DEF LookupFails
<1>6. CASE PeerCloses(s) \/ CloseEvent(s) \/ QueryOnline(s) \/ \E u \in Users : QueryIsOnline(s, u)
  BY <1>6 DEF PeerCloses, CloseEvent, QueryOnline, QueryIsOnline
<1>7. CASE \E u \in Users : Connect(s, u)
  BY <1>7, <1>1, <1>2, <1>3 DEF Connect
<1>8. CASE \E g \in Gateways : LookupFails(s, g)
  BY <1>8, <1>5
<1> QED
  BY <1>4, <1>6, <1>7, <1>8 DEF PresenceOnly

\* Every step keeps the stages of the replays together.
LEMMA ReplayStagesStep ==
  IInv /\ DeliveryTypeOK /\ ReplayStages /\ [DeliveryNext]_allVars => ReplayStages'
<1> SUFFICES ASSUME IInv, DeliveryTypeOK, ReplayStages, [DeliveryNext]_allVars, NEW t \in Sockets
             PROVE  /\ stage'[t][ChatGateway] = "drain" <=> replay'[t] # "none"
                    /\ scan'[t] # NotRead => replay'[t] # "none"
                    /\ since'[t] <= jobs'
  BY DEF ReplayStages
<1> USE PresenceAssumption
<1>1. /\ stage[t][ChatGateway] = "drain" <=> replay[t] # "none"
      /\ scan[t] # NotRead => replay[t] # "none"
      /\ since[t] <= jobs /\ since[t] \in Nat /\ jobs \in Nat
  BY DEF ReplayStages, DeliveryTypeOK
<1>2. ASSUME NEW s \in Sockets, PresenceOnly(s)
      PROVE  /\ stage'[t][ChatGateway] = "drain" <=> stage[t][ChatGateway] = "drain"
             /\ UNCHANGED <<replay, scan, since, jobs>>
  BY <1>2, StageKept DEF PresenceOnly, deliveryVars, bull
<1>3. ASSUME NEW s \in Sockets, NEW g \in Gateways, Admit(s, g)
      PROVE  /\ stage'[t][ChatGateway] = "drain" <=> replay'[t] # "none"
             /\ scan'[t] # NotRead => replay'[t] # "none"
             /\ since'[t] <= jobs'
  <2> USE DEF Admit, LookupFound, DeliveryTypeOK, IInv, TypeOK
  <2>1. CASE g = ChatGateway
    BY <1>1, <1>3, <2>1
  <2>2. CASE g # ChatGateway
    BY <1>1, <1>3, <2>2
  <2> QED
    BY <2>1, <2>2
<1>4. ASSUME NEW s \in Sockets, ReplayRead(s)
      PROVE  /\ stage'[t][ChatGateway] = "drain" <=> replay'[t] # "none"
             /\ scan'[t] # NotRead => replay'[t] # "none"
             /\ since'[t] <= jobs'
  BY <1>1, <1>4 DEF ReplayRead, DeliveryTypeOK, vars
<1>5. ASSUME NEW s \in Sockets, ReplaySend(s)
      PROVE  /\ stage'[t][ChatGateway] = "drain" <=> replay'[t] # "none"
             /\ scan'[t] # NotRead => replay'[t] # "none"
             /\ since'[t] <= jobs'
  <2>1. CASE t # s
    <3>1. stage'[t] = stage[t]
      BY <1>5, <2>1 DEF ReplaySend, Drained, vars, IInv, TypeOK
    <3> QED
      BY <1>1, <1>5, <2>1, <3>1 DEF ReplaySend, DeliveryTypeOK
  <2>2. CASE t = s /\ replay[s] = "delete"
    <3>1. stage'[s][ChatGateway] = "ready"
      BY <1>5, <2>2 DEF ReplaySend, Drained, IInv, TypeOK
    <3> QED
      BY <1>1, <1>5, <2>2, <3>1 DEF ReplaySend, DeliveryTypeOK
  <2>3. CASE t = s /\ replay[s] # "delete"
    <3>1. stage' = stage
      BY <1>5, <2>3 DEF ReplaySend, vars
    <3>2. replay[s] \in {"create", "update"}
      BY <1>1, <1>5, <2>3 DEF ReplaySend, DeliveryTypeOK, Kinds
    <3> QED
      BY <1>1, <1>5, <2>3, <3>1, <3>2 DEF ReplaySend, DeliveryTypeOK
  <2> QED
    BY <2>1, <2>2, <2>3
<1>6. CASE Restart
  <2>1. stage'[t][ChatGateway] # "drain"
    BY <1>6 DEF Restart, Redelivers, Crash
  <2> QED
    BY <1>1, <1>6, <2>1 DEF Restart, Redelivers
<1>7. ASSUME NEW r \in topic, HandlePending(r)
      PROVE  UNCHANGED <<stage, replay, scan, since>> /\ jobs' = jobs + 1
  BY <1>7 DEF HandlePending, vars
<1>8. CASE UNCHANGED <<stage, replay, scan, since, jobs>>
  BY <1>1, <1>8
<1>9. ConsumerStep => \/ UNCHANGED <<stage, replay, scan, since, jobs>>
                      \/ \E r \in topic : HandlePending(r)
  BY DEF ConsumerStep, HandleCreate, HandleUpdate, HandleDelete, HandlerRejects, FanOut,
     FanOutFails, vars, bull
<1>10. CASE ConsumerStep
  BY <1>1, <1>7, <1>8, <1>9, <1>10
<1> QED
  BY <1>1, <1>2, <1>3, <1>4, <1>5, <1>6, <1>8, <1>10 DEF DeliveryNext, Request, HttpCreate,
     HttpDelete, Publish, PublishAgain, PublishFails, Commit, Rebalance, Redelivers, RemoveJob,
     vars, bull, allVars, deliveryVars

\* Where a step leaves the replay and its queue alone, the old jobs that are left
\* are where they were.
LEMMA LeftStays ==
  ASSUME IInv, DeliveryTypeOK, ReplayStages, ReplayProgress, NEW t \in Sockets,
         NEW j \in queue, j \notin removing,
         UNCHANGED <<replay, scan, since>>,
         stage'[t][ChatGateway] = "ready" <=> stage[t][ChatGateway] = "ready",
         stage[t][ChatGateway] \in {"drain", "ready"} => owner'[t] = owner[t],
         Old(t, j)'
  PROVE  /\ stage'[t][ChatGateway] # "ready"
         /\ replay'[t] = "update" => j.note.kind # "create"
         /\ replay'[t] = "delete" => j.note.kind = "delete"
         /\ scan'[t] # NotRead /\ j.note.kind = replay'[t] => j \in scan'[t]
<1>1. CASE stage[t][ChatGateway] \in {"drain", "ready"}
  BY <1>1 DEF ReplayProgress, Old
<1>2. CASE stage[t][ChatGateway] \notin {"drain", "ready"}
  BY <1>2 DEF ReplayStages
<1> QED
  BY <1>1, <1>2

\* Every step keeps the old jobs that are left ahead of the replay.
LEMMA ReplayProgressStep ==
  IInv /\ DeliveryTypeOK /\ QueueInOrder /\ ReplayStages /\ ReplayProgress
    /\ [DeliveryNext]_allVars => ReplayProgress'
<1> DEFINE Fine(t, j) ==
      /\ stage'[t][ChatGateway] # "ready"
      /\ replay'[t] = "update" => j.note.kind # "create"
      /\ replay'[t] = "delete" => j.note.kind = "delete"
      /\ scan'[t] # NotRead /\ j.note.kind = replay'[t] => j \in scan'[t]
<1> SUFFICES ASSUME IInv, DeliveryTypeOK, QueueInOrder, ReplayStages, ReplayProgress,
                    [DeliveryNext]_allVars, NEW t \in Sockets, NEW j \in queue' \ removing',
                    Old(t, j)'
             PROVE  Fine(t, j)
  BY DEF ReplayProgress
<1> USE PresenceAssumption
<1>1. ASSUME j \in queue \ removing,
             UNCHANGED <<stage, owner, replay, scan, since>>
      PROVE  Fine(t, j)
  BY <1>1, LeftStays
<1>2. ASSUME NEW s \in Sockets, PresenceOnly(s) PROVE Fine(t, j)
  <2>1. UNCHANGED <<queue, removing, replay, scan, since>>
    BY <1>2 DEF PresenceOnly, deliveryVars, bull
  <2> QED
    BY <1>2, <2>1, StageKept, LeftStays
<1>3. ASSUME NEW s \in Sockets, NEW g \in Gateways, Admit(s, g) PROVE Fine(t, j)
  <2>1. UNCHANGED <<queue, removing, scan, owner>>
    BY <1>3 DEF Admit, LookupFound
  <2>2. CASE g = ChatGateway /\ t = s
    <3>1. stage[s][ChatGateway] = "lookup" /\ stage'[s][ChatGateway] = "drain"
      BY <1>3, <2>2 DEF Admit, LookupFound, IInv, TypeOK
    <3>2. replay'[s] = "create" /\ scan'[s] = NotRead
      BY <1>3, <2>1, <2>2, <3>1 DEF Admit, DeliveryTypeOK, ReplayStages
    <3> QED
      BY <2>2, <3>1, <3>2
  <2>3. CASE g # ChatGateway \/ t # s
    <3>1. stage'[t][ChatGateway] = stage[t][ChatGateway]
      BY <1>3, <2>3 DEF Admit, LookupFound, IInv, TypeOK
    <3>2. replay'[t] = replay[t] /\ since'[t] = since[t]
      BY <1>3, <2>3 DEF Admit, DeliveryTypeOK
    <3> QED
      BY <2>1, <3>1, <3>2 DEF ReplayProgress, Old
  <2> QED
    BY <2>2, <2>3
<1>4. ASSUME NEW s \in Sockets, ReplayRead(s) PROVE Fine(t, j)
  <2>1. UNCHANGED <<queue, removing, replay, since, owner, stage>>
    BY <1>4 DEF ReplayRead, vars
  <2>2. Old(t, j) /\ j \in queue \ removing
    BY <2>1 DEF Old
  <2>3. CASE t = s
    <3>1. scan'[s] = {k \in queue : k.note.kind = replay[s] /\ k.note.user = owner[s]}
      BY <1>4 DEF ReplayRead, DeliveryTypeOK
    <3> QED
      BY <2>1, <2>2, <2>3, <3>1 DEF ReplayProgress, Old
  <2>4. CASE t # s
    BY <1>4, <2>1, <2>2, <2>4 DEF ReplayRead, ReplayProgress, DeliveryTypeOK
  <2> QED
    BY <2>3, <2>4
<1>5. ASSUME NEW s \in Sockets, ReplaySend(s) PROVE Fine(t, j)
  <2>1. UNCHANGED <<queue, since, owner>> /\ removing' = removing \cup scan[s]
    BY <1>5 DEF ReplaySend, Drained, vars
  <2>2. Old(t, j) /\ j \in queue \ removing /\ j \notin scan[s] /\ j.note.kind \in Kinds
    BY <2>1 DEF Old, QueueInOrder, WellMeant
  <2>3. CASE t # s
    <3>1. stage'[t] = stage[t]
      BY <1>5, <2>3 DEF ReplaySend, Drained, vars, IInv, TypeOK
    <3>2. replay'[t] = replay[t] /\ scan'[t] = scan[t]
      BY <1>5, <2>3 DEF ReplaySend, DeliveryTypeOK
    <3> QED
      BY <2>2, <3>1, <3>2 DEF ReplayProgress
  <2>4. CASE t = s
    <3>1. scan[s] # NotRead /\ scan'[s] = NotRead
      BY <1>5 DEF ReplaySend, DeliveryTypeOK
    <3>2. j.note.kind # replay[s] /\ stage[s][ChatGateway] = "drain" /\ replay[s] \in Kinds
      BY <2>2, <2>4, <3>1 DEF ReplayProgress, ReplayStages, DeliveryTypeOK
    <3>3. replay[s] # "delete"
      BY <2>2, <2>4, <3>2 DEF ReplayProgress
    <3>4. stage' = stage /\ replay'[s] = NextReplay[replay[s]]
      BY <1>5, <3>3 DEF ReplaySend, vars, DeliveryTypeOK
    <3>5. CASE replay[s] = "create"
      BY <2>4, <3>1, <3>2, <3>4, <3>5
    <3>6. CASE replay[s] = "update"
      BY <2>2, <2>4, <3>1, <3>2, <3>4, <3>6 DEF ReplayProgress, Kinds
    <3> QED
      BY <3>2, <3>3, <3>5, <3>6 DEF Kinds
  <2> QED
    BY <2>3, <2>4
<1>6. CASE Restart
  <2>1. stage'[t][ChatGateway] # "ready"
    BY <1>6 DEF Restart, Redelivers, Crash
  <2> QED
    BY <1>6, <2>1 DEF Restart, Redelivers
<1>7. ASSUME NEW r \in topic, HandlePending(r) PROVE Fine(t, j)
  <2>1. UNCHANGED <<stage, owner, replay, scan, since, removing>>
    BY <1>7 DEF HandlePending, vars
  <2>2. CASE j \in queue
    BY <1>1, <2>1, <2>2
  <2>3. CASE j \notin queue
    <3>1. j.id = jobs + 1
      BY <1>7, <2>3 DEF HandlePending
    <3>2. since'[t] <= jobs /\ since'[t] \in Nat /\ jobs \in Nat
      BY <2>1 DEF ReplayStages, DeliveryTypeOK
    <3> QED
      BY <3>1, <3>2 DEF Old
  <2> QED
    BY <2>2, <2>3
<1>8. ASSUME NEW k \in removing, RemoveJob(k) PROVE Fine(t, j)
  BY <1>1, <1>8 DEF RemoveJob, vars
<1>9. CASE UNCHANGED <<stage, owner, replay, scan, since, queue, removing>>
  BY <1>1, <1>9
<1>10. ConsumerStep => \/ UNCHANGED <<stage, owner, replay, scan, since, queue, removing>>
                       \/ \E r \in topic : HandlePending(r)
  BY DEF ConsumerStep, HandleCreate, HandleUpdate, HandleDelete, HandlerRejects, FanOut,
     FanOutFails, vars, bull
<1> QED
  BY <1>2, <1>3, <1>4, <1>5, <1>6, <1>7, <1>8, <1>9, <1>10 DEF DeliveryNext, Request, HttpCreate,
     HttpDelete, Publish, PublishAgain, PublishFails, Commit, Rebalance, Redelivers, vars, bull,
     allVars, deliveryVars

-----------------------------------------------------------------------------
(* The inductive invariant and the theorems *)

DInv == /\ IInv
        /\ DeliveryTypeOK
        /\ NotesInv
        /\ RemovedWerePassed
        /\ NothingVanishes
        /\ ReplayInv

\* The initial state satisfies the inductive invariant.
LEMMA InitDInv == DeliveryInit => DInv
<1> SUFFICES ASSUME DeliveryInit PROVE DInv
  OBVIOUS
<1> USE DeliveryAssumption, PresenceAssumption DEF DeliveryInit
<1>1. IInv
  BY InitIInv
<1>2. DeliveryTypeOK
  BY DEF DeliveryTypeOK
<1>3. NotesInv
  BY DEF NotesInv, RecordsInOrder, TaskInOrder, HandedInOrder, QueueInOrder, ScanInOrder,
     DeliveredInOrder, ReplayersInOrder
<1>4. RemovedWerePassed /\ NothingVanishes
  BY DEF RemovedWerePassed, NothingVanishes
<1>5. ReplayInv
  BY DEF ReplayInv, ReplayStages, ReplayProgress, Init
<1> QED
  BY <1>1, <1>2, <1>3, <1>4, <1>5 DEF DInv

\* Every step keeps it.
LEMMA StepDInv == DInv /\ [DeliveryNext]_allVars => DInv'
<1> SUFFICES ASSUME DInv, [DeliveryNext]_allVars PROVE DInv'
  OBVIOUS
<1> USE DEF DInv
<1>1. IInv'
  BY DeliveryStepIsPresenceStep, StepIInv
<1>2. DeliveryTypeOK'
  BY DeliveryTypeStep DEF IInv
<1>3. NotesInv'
  BY <1>2, FlowStep, MessagesAgeStep, OwnersStayStep, DeliveryStepIsPresenceStep, FlowKeepsOrder
<1>4. RemovedWerePassed'
  BY RemovedStep
<1>5. NothingVanishes'
  BY NothingVanishesStep
<1>6. ReplayInv'
  BY ReplayStagesStep, ReplayProgressStep DEF ReplayInv, NotesInv
<1> QED
  BY <1>1, <1>2, <1>3, <1>4, <1>5, <1>6

\* The inductive invariant holds in every reachable state.
THEOREM DeliveryInvariant == DeliverySpec => []DInv
<1> QED
  BY InitDInv, StepDInv, PTL DEF DeliverySpec

\* Types are kept by every handler of the message path.
THEOREM DeliveryTypeCorrect == DeliverySpec => []DeliveryTypeOK
<1>1. DInv => DeliveryTypeOK
  BY DEF DInv
<1> QED
  BY <1>1, DeliveryInvariant, PTL

\* A notification is only ever written to a connection of its addressee.
THEOREM NotificationsAreAddressed == DeliverySpec => []Addressed
<1>1. DInv => Addressed
  BY DEF DInv, NotesInv, DeliveredInOrder, WellMeant, Addressed
<1> QED
  BY <1>1, DeliveryInvariant, PTL

\* A notification that was decided on is delivered, on its way, queued, or its
\* loss has one of the two named causes.
THEOREM NotificationsDoNotVanish == DeliverySpec => []NothingVanishes
<1>1. DInv => NothingVanishes
  BY DEF DInv
<1> QED
  BY <1>1, DeliveryInvariant, PTL

\* No notification says of a message what is not so.
THEOREM NotificationsAreTrue == DeliverySpec => []Truthful
<1>1. DInv => Truthful
  BY DEF DInv, NotesInv, HandedInOrder, DeliveredInOrder, WellMeant, Truth, Truthful
<1> QED
  BY <1>1, DeliveryInvariant, PTL

\* A connection that starts to listen has no older job left in the queue.
THEOREM ReplayIsComplete == DeliverySpec => []ReplayComplete
<1>1. DInv => ReplayComplete
  <2> SUFFICES ASSUME DInv, NEW s \in Sockets, stage[s][ChatGateway] = "ready",
                      NEW j \in queue \ removing, j.note.user = owner[s]
               PROVE  j.id > since[s]
    BY DEF ReplayComplete
  <2>1. ~ (j.id <= since[s])
    BY DEF DInv, ReplayInv, ReplayProgress, Old
  <2>2. j.id \in Nat /\ since[s] \in Nat
    BY DEF DInv, DeliveryTypeOK, Job
  <2> QED
    BY <2>1, <2>2
<1> QED
  BY <1>1, DeliveryInvariant, PTL

\* A job leaves the queue only after its notification was given to sendToUser.
THEOREM JobsLeaveAfterReplay == DeliverySpec => JobsAreReplayed
<1>1. DInv /\ [DeliveryNext]_allVars => [\A j \in queue \ queue' :
        (\E s \in Sockets : <<j.note, s>> \in delivered) \/ j.note \in dropped]_allVars
  BY QueueStep DEF DInv, Passed
<1> QED
  BY <1>1, DeliveryInvariant, PTL DEF DeliverySpec, JobsAreReplayed
=============================================================================
