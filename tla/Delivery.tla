------------------------------ MODULE Delivery ------------------------------
(***************************************************************************)
(* The way of a chat message.  A client's request is emitted to Kafka by   *)
(* the chat gateway, the consumer writes the message and tells every       *)
(* chatter: over the registered socket of an online user, and through a    *)
(* ".pending" topic into the Bull queue for an offline one.  The chat      *)
(* gateway replays the queue when the user connects.  Presence is the      *)
(* registry both sides look at.                                            *)
(*                                                                         *)
(* Records carry no key, so a topic is an unordered set of records.  One   *)
(* consumer handles one record at a time and commits afterwards.  A record *)
(* may come again: its acknowledgement, or the commit, may get lost.       *)
(***************************************************************************)
EXTENDS Presence

CONSTANTS Chatters,     \* the members of the one chat
          Messages,     \* bound: identities for message documents
          NoMessage,    \* the message of a request that creates one
          NoTask,       \* the consumer has no request between write and fan-out
          NotRead,      \* a replay that has not read the queue yet
          MaxRequests,  \* bound: requests the clients make
          Spare,        \* bound: identities the HTTP endpoints leave to requests
          MaxJobs,      \* bound: jobs ever added to the queue
          MaxCrashes,   \* bound: restarts of the process
          MaxFailures   \* bound: failures of the broker, Mongo or a file store

ASSUME DeliveryAssumption == /\ Chatters \subseteq Users
                             /\ NoMessage \notin Messages
                             /\ MaxRequests \in Nat /\ MaxJobs \in Nat /\ Spare \in Nat
                             /\ MaxCrashes \in Nat /\ MaxFailures \in Nat

VARIABLES
  asked,      \* number of requests so far; a request's id is its number
  outbox,     \* emitted records the broker has not acknowledged
  topic,      \* records the consumer has yet to handle
  handled,    \* records handled since the last offset commit
  task,       \* the request whose message is written and whose chatters wait
  msgs,       \* the message collection of the chat
  queue,      \* the Bull queue; no worker ever takes a job from it
  jobs,       \* number of jobs ever added; a job's id is its number
  replay,     \* per socket, the kind of job its replay is at
  scan,       \* per socket, the jobs its replay has read
  removing,   \* jobs whose un-awaited remove() has not reached Redis
  since,      \* history: per socket, jobs when its replay began
  handed,     \* history: notifications the fan-outs decided on
  delivered,  \* history: notifications written to open sockets
  dropped,    \* history: notifications given to sendToUser in vain
  lost,       \* history: emits lost with the process or by the broker
  repeated,   \* history: records that may have been handled more than once
  crashes,    \* number of restarts so far
  failures    \* number of failures of a dependency so far

kafka == <<asked, outbox, topic, handled>>
bull == <<queue, jobs, replay, scan, removing, since>>
sent == <<delivered, dropped>>
faults == <<lost, repeated, crashes, failures>>
deliveryVars == <<kafka, task, msgs, bull, handed, sent, faults>>
allVars == <<vars, deliveryVars>>

Kinds == {"create", "update", "delete"}

\* A request names its requester as user, a notification its addressee.  Both
\* carry the id of the request.
Record == [topic : {"request", "pending"},
           id : 1..MaxRequests,
           kind : Kinds \cup {"error"},
           msg : Messages \cup {NoMessage},
           user : Users \cup {NoUser}]
Job == [id : 1..MaxJobs, note : Record]

DeliveryTypeOK ==
  /\ asked \in 0..MaxRequests
  /\ outbox \subseteq Record /\ topic \subseteq Record /\ handled \subseteq Record
  /\ task \in [rec : Record, msg : Messages] \cup {NoTask}
  /\ msgs \in [Messages -> {"free", "stored", "deleted"}]
  /\ queue \subseteq Job /\ removing \subseteq Job
  /\ jobs \in 0..MaxJobs
  /\ replay \in [Sockets -> Kinds \cup {"none"}]
  /\ scan \in [Sockets -> (SUBSET Job) \cup {NotRead}]
  /\ since \in [Sockets -> 0..MaxJobs]
  /\ handed \subseteq Record
  /\ delivered \subseteq Record \X Sockets
  /\ dropped \subseteq Record /\ lost \subseteq Record /\ repeated \subseteq Record
  /\ crashes \in 0..MaxCrashes /\ failures \in 0..MaxFailures

DeliveryInit ==
  /\ Init
  /\ asked = 0 /\ outbox = {} /\ topic = {} /\ handled = {}
  /\ task = NoTask
  /\ msgs = [m \in Messages |-> "free"]
  /\ queue = {} /\ jobs = 0 /\ removing = {}
  /\ replay = [s \in Sockets |-> "none"]
  /\ scan = [s \in Sockets |-> NotRead]
  /\ since = [s \in Sockets |-> 0]
  /\ handed = {} /\ delivered = {} /\ dropped = {} /\ lost = {}
  /\ repeated = {} /\ crashes = 0 /\ failures = 0

-----------------------------------------------------------------------------
(* WebSocketService.sendToUser and the requests of the chat gateway *)

Reachable(u) == /\ u \in Users
                /\ getUserIdByID_online(u)
                /\ readyState[usersOnline[u]] = "OPEN"

\* sendToUser for each letter of a set, a note and the user it is sent to: it
\* writes to an open registered socket and otherwise does nothing.
sendToUser(letters) ==
  /\ delivered' = delivered \cup
       {<<l.note, usersOnline[l.to]>> : l \in {k \in letters : Reachable(k.to)}}
  /\ dropped' = dropped \cup {l.note : l \in {k \in letters : ~ Reachable(k.to)}}

getUserIdBySocket(s) ==
  IF Registered(s) THEN CHOOSE u \in Users : usersOnline[u] = s ELSE NoUser

\* Variant: requests are counted from zero.
Request_fromZero(s, kind, m) ==
  /\ readyState[s] = "OPEN"
  /\ asked < MaxRequests
  /\ kind = "create" /\ m = NoMessage
  /\ asked' = asked + 1
  /\ outbox' = outbox \cup {[topic |-> "request", id |-> asked, kind |-> kind,
                             msg |-> m, user |-> getUserIdBySocket(s)]}
  /\ UNCHANGED <<vars, topic, handled, task, msgs, bull, handed, sent, faults>>

\* createMessage, updateMessage and deleteMessage.  Nest hands messages over
\* from the moment the socket is open, so the requester may be undefined.
\* updateMessage emits only for a message it finds.
Request(s, kind, m) ==
  /\ readyState[s] = "OPEN"
  /\ asked < MaxRequests
  /\ \/ kind = "create" /\ m = NoMessage
     \/ kind = "update" /\ m # NoMessage /\ msgs[m] = "stored"
     \/ kind = "delete" /\ m # NoMessage /\ msgs[m] # "free"
  /\ asked' = asked + 1
  /\ outbox' = outbox \cup {[topic |-> "request", id |-> asked', kind |-> kind,
                             msg |-> m, user |-> getUserIdBySocket(s)]}
  /\ UNCHANGED <<vars, topic, handled, task, msgs, bull, handed, sent, faults>>

\* The HTTP endpoints use the same service and tell nobody.
HttpCreate(m) ==
  /\ msgs[m] = "free"
  /\ Cardinality({k \in Messages : msgs[k] = "free"}) > Spare
  /\ msgs' = [msgs EXCEPT ![m] = "stored"]
  /\ UNCHANGED <<vars, kafka, task, bull, handed, sent, faults>>

HttpDelete(m) ==
  /\ msgs[m] = "stored"
  /\ msgs' = [msgs EXCEPT ![m] = "deleted"]
  /\ UNCHANGED <<vars, kafka, task, bull, handed, sent, faults>>

-----------------------------------------------------------------------------
(* Kafka: emit is not awaited, and the offset is committed after the handler *)

Publish(r) ==
  /\ r \in outbox
  /\ outbox' = outbox \ {r}
  /\ topic' = topic \cup {r}
  /\ UNCHANGED <<vars, asked, handled, task, msgs, bull, handed, sent, faults>>

\* A dependency fails, at most MaxFailures times.
Fault == /\ failures < MaxFailures
         /\ failures' = failures + 1

\* The broker rejects the emit; nobody looks at the result.
PublishFails(r) ==
  /\ r \in outbox
  /\ Fault
  /\ outbox' = outbox \ {r}
  /\ lost' = lost \cup {r}
  /\ UNCHANGED <<vars, asked, topic, handled, task, msgs, bull, handed, sent, repeated,
                 crashes>>

\* The broker takes the record, but the producer does not hear of it and sends it
\* once more: retries are on, idempotence is not.
PublishAgain(r) ==
  /\ r \in outbox
  /\ Fault
  /\ topic' = topic \cup {r}
  /\ repeated' = repeated \cup {r}
  /\ UNCHANGED <<vars, asked, outbox, handled, task, msgs, bull, handed, sent, lost, crashes>>

Commit ==
  /\ handled # {}
  /\ handled' = {}
  /\ UNCHANGED <<vars, asked, outbox, topic, task, msgs, bull, handed, sent, faults>>

\* What was handled and not committed is handed to the consumer again.
Redelivers ==
  /\ topic' = topic \cup handled
  /\ handled' = {}
  /\ repeated' = repeated \cup handled

\* The commit fails, or the consumer's session expires, and the group rebalances.
Rebalance ==
  /\ handled # {}
  /\ Fault
  /\ Redelivers
  /\ UNCHANGED <<vars, asked, outbox, task, msgs, bull, handed, sent, lost, crashes>>

Finish(r) == /\ topic' = topic \ {r}
             /\ handled' = handled \cup {r}

-----------------------------------------------------------------------------
(* The consumer: write, then look the chat up and tell the chatters *)

\* addMessage: a new document, also when the record is handled again.
HandleCreate(r, m) ==
  /\ task = NoTask /\ r \in topic
  /\ r.topic = "request" /\ r.kind = "create"
  /\ msgs[m] = "free"
  /\ msgs' = [msgs EXCEPT ![m] = "stored"]
  /\ task' = [rec |-> r, msg |-> m]
  /\ UNCHANGED <<vars, kafka, bull, handed, sent, faults>>

\* updateMessageById and deleteMessageById find the document.
HandleUpdate(r) ==
  /\ task = NoTask /\ r \in topic
  /\ r.topic = "request" /\ r.kind = "update"
  /\ r.msg # NoMessage /\ msgs[r.msg] = "stored"
  /\ task' = [rec |-> r, msg |-> r.msg]
  /\ UNCHANGED <<vars, kafka, msgs, bull, handed, sent, faults>>

\* Variant: the document is deleted some time after the fan-out.
HandleDelete_later(r) ==
  /\ task = NoTask /\ r \in topic
  /\ r.topic = "request" /\ r.kind = "delete"
  /\ r.msg # NoMessage /\ msgs[r.msg] = "stored"
  /\ task' = [rec |-> r, msg |-> r.msg]
  /\ UNCHANGED <<vars, kafka, msgs, bull, handed, sent, faults>>

HandleDelete(r) ==
  /\ task = NoTask /\ r \in topic
  /\ r.topic = "request" /\ r.kind = "delete"
  /\ r.msg # NoMessage /\ msgs[r.msg] = "stored"
  /\ msgs' = [msgs EXCEPT ![r.msg] = "deleted"]
  /\ task' = [rec |-> r, msg |-> r.msg]
  /\ UNCHANGED <<vars, kafka, bull, handed, sent, faults>>

ErrorFor(r) == [to |-> r.user, note |-> [r EXCEPT !.topic = "pending", !.kind = "error"]]

\* Variant: the requester is not told.
HandlerRejects_silent(r) ==
  /\ task = NoTask /\ r \in topic /\ r.topic = "request"
  /\ r.msg # NoMessage /\ msgs[r.msg] # "stored"
  /\ Finish(r)
  /\ UNCHANGED <<vars, asked, outbox, task, msgs, bull, handed, sent, faults>>

\* The service throws before it writes: the document is not there, or Mongo is
\* out of reach or finds the body invalid.
HandlerRejects(r) ==
  /\ task = NoTask /\ r \in topic /\ r.topic = "request"
  /\ \/ r.msg # NoMessage /\ msgs[r.msg] # "stored" /\ UNCHANGED failures
     \/ Fault
  /\ sendToUser({ErrorFor(r)})
  /\ Finish(r)
  /\ UNCHANGED <<vars, asked, outbox, task, msgs, bull, handed, lost, repeated, crashes>>

Note(t, u) == [t.rec EXCEPT !.topic = "pending", !.msg = t.msg, !.user = u]

\* Variants: nothing is emitted for the offline; the handler throws after all.
FanOut_onlineOnly ==
  /\ task # NoTask
  /\ sendToUser({[to |-> u, note |-> Note(task, u)] :
                   u \in {v \in Chatters : getUserIdByID_online(v)}})
  /\ handed' = handed \cup {Note(task, u) : u \in Chatters}
  /\ Finish(task.rec)
  /\ task' = NoTask
  /\ UNCHANGED <<vars, asked, outbox, msgs, bull, faults>>
FanOut_throwsAfterwards ==
  /\ task # NoTask
  /\ LET online == {u \in Chatters : getUserIdByID_online(u)} IN
       /\ sendToUser({[to |-> u, note |-> Note(task, u)] : u \in online})
       /\ outbox' = outbox \cup {Note(task, u) : u \in Chatters \ online}
  /\ handed' = handed \cup {Note(task, u) : u \in Chatters}
  /\ task' = NoTask
  /\ UNCHANGED <<vars, asked, topic, handled, msgs, bull, faults>>

\* getChatByUsersIds answered: without another await every chatter is sent the
\* notification or, when offline, has it emitted to the pending topic.
FanOut ==
  /\ task # NoTask
  /\ LET online == {u \in Chatters : getUserIdByID_online(u)} IN
       /\ sendToUser({[to |-> u, note |-> Note(task, u)] : u \in online})
       /\ outbox' = outbox \cup {Note(task, u) : u \in Chatters \ online}
  /\ handed' = handed \cup {Note(task, u) : u \in Chatters}
  /\ Finish(task.rec)
  /\ task' = NoTask
  /\ UNCHANGED <<vars, asked, msgs, bull, faults>>

\* Something after the write throws: populate, a file of the deleted message,
\* the chat lookup.  Only the requester hears of it.
FanOutFails ==
  /\ task # NoTask
  /\ Fault
  /\ sendToUser({ErrorFor(task.rec)})
  /\ Finish(task.rec)
  /\ task' = NoTask
  /\ UNCHANGED <<vars, asked, outbox, msgs, bull, handed, lost, repeated, crashes>>

\* Variant: no job for a user who is online by now.
HandlePending_unlessOnline(n) ==
  /\ task = NoTask /\ n \in topic /\ n.topic = "pending"
  /\ IF getUserIdByID_online(n.user) THEN UNCHANGED <<queue, jobs>>
     ELSE /\ jobs < MaxJobs
          /\ jobs' = jobs + 1
          /\ queue' = queue \cup {[id |-> jobs', note |-> n]}
  /\ Finish(n)
  /\ UNCHANGED <<vars, asked, outbox, task, msgs, replay, scan, removing, since,
                 handed, sent, faults>>

\* The three pending handlers: a job with an id of its own.
HandlePending(n) ==
  /\ task = NoTask /\ n \in topic /\ n.topic = "pending"
  /\ jobs < MaxJobs
  /\ jobs' = jobs + 1
  /\ queue' = queue \cup {[id |-> jobs', note |-> n]}
  /\ Finish(n)
  /\ UNCHANGED <<vars, asked, outbox, task, msgs, replay, scan, removing, since,
                 handed, sent, faults>>

-----------------------------------------------------------------------------
(* The replay in the chat gateway's handleConnection *)

\* Variant: the replay leaves the creates out.
Admit_fromUpdates(s, g) ==
  /\ LookupFound(s, g)
  /\ replay' = [replay EXCEPT ![s] = IF g = ChatGateway THEN "update" ELSE @]
  /\ since' = [since EXCEPT ![s] = IF g = ChatGateway THEN jobs ELSE @]
  /\ UNCHANGED <<kafka, task, msgs, queue, jobs, scan, removing, handed, sent, faults>>

\* Where the replay of the socket is set up: right after addClient.
Admit(s, g) ==
  /\ LookupFound(s, g)
  /\ IF g = ChatGateway
     THEN /\ replay' = [replay EXCEPT ![s] = "create"]
          /\ since' = [since EXCEPT ![s] = jobs]
     ELSE UNCHANGED <<replay, since>>
  /\ UNCHANGED <<kafka, task, msgs, queue, jobs, scan, removing, handed, sent, faults>>

\* Variants: the jobs of every user are taken; they are removed when read.
ReplayRead_anyUser(s) ==
  /\ replay[s] # "none" /\ scan[s] = NotRead
  /\ scan' = [scan EXCEPT ![s] = {j \in queue : j.note.kind = replay[s]}]
  /\ UNCHANGED <<vars, kafka, task, msgs, queue, jobs, replay, removing, since,
                 handed, sent, faults>>
ReplayRead_removes(s) ==
  /\ replay[s] # "none" /\ scan[s] = NotRead
  /\ scan' = [scan EXCEPT ![s] =
                {j \in queue : j.note.kind = replay[s] /\ j.note.user = owner[s]}]
  /\ queue' = queue \ scan'[s]
  /\ UNCHANGED <<vars, kafka, task, msgs, jobs, replay, removing, since,
                 handed, sent, faults>>

\* getWaiting answers; the jobs whose id names the kind and the user matter.
ReplayRead(s) ==
  /\ replay[s] # "none" /\ scan[s] = NotRead
  /\ scan' = [scan EXCEPT ![s] =
                {j \in queue : j.note.kind = replay[s] /\ j.note.user = owner[s]}]
  /\ UNCHANGED <<vars, kafka, task, msgs, queue, jobs, replay, removing, since,
                 handed, sent, faults>>

NextReplay == [create |-> "update", update |-> "delete", delete |-> "none", none |-> "none"]

\* The loop over the jobs, after two more awaits: each one is passed to
\* sendToUser and removed whether or not it was written.  The removal is not
\* awaited.  After the deletes the gateway starts to listen.
ReplaySend(s) ==
  /\ scan[s] # NotRead
  /\ sendToUser({[to |-> owner[s], note |-> j.note] : j \in scan[s]})
  /\ removing' = removing \cup scan[s]
  /\ scan' = [scan EXCEPT ![s] = NotRead]
  /\ replay' = [replay EXCEPT ![s] = NextReplay[@]]
  /\ IF replay[s] = "delete" THEN Drained(s) ELSE UNCHANGED vars
  /\ UNCHANGED <<kafka, task, msgs, queue, jobs, since, handed, faults>>

\* A removal reaches Redis.  Removing a job twice is removing it once.
RemoveJob(j) ==
  /\ j \in removing
  /\ queue' = queue \ {j}
  /\ removing' = removing \ {j}
  /\ UNCHANGED <<vars, kafka, task, msgs, jobs, replay, scan, since, handed, sent, faults>>

\* The process restarts: what was emitted and not acknowledged is lost, what
\* was handled and not committed comes again, the queue is in Redis.
Restart ==
  /\ crashes < MaxCrashes
  /\ crashes' = crashes + 1
  /\ Crash
  /\ lost' = lost \cup outbox
  /\ outbox' = {}
  /\ Redelivers
  /\ task' = NoTask
  /\ replay' = [s \in Sockets |-> "none"]
  /\ scan' = [s \in Sockets |-> NotRead]
  /\ removing' = {}
  /\ UNCHANGED <<asked, msgs, queue, jobs, since, handed, sent, failures>>

-----------------------------------------------------------------------------
\* The steps of a connection that only the registry is concerned with.
PresenceOnly(s) ==
  /\ \/ \E u \in Users : Connect(s, u)
     \/ ConnectRejected(s)
     \/ \E g \in Gateways : LookupFails(s, g)
     \/ PeerCloses(s)
     \/ CloseEvent(s)
     \/ QueryOnline(s)
     \/ \E u \in Users : QueryIsOnline(s, u)
  /\ UNCHANGED deliveryVars

ConsumerStep ==
  \/ \E r \in topic : \/ \E m \in Messages : HandleCreate(r, m)
                      \/ HandleUpdate(r) \/ HandleDelete(r) \/ HandlerRejects(r)
                      \/ HandlePending(r)
  \/ FanOut
  \/ FanOutFails

DeliveryNext ==
  \/ \E s \in Sockets : PresenceOnly(s) \/ ReplayRead(s) \/ ReplaySend(s)
  \/ \E s \in Sockets, g \in Gateways : Admit(s, g)
  \/ \E s \in Sockets, k \in Kinds, m \in Messages \cup {NoMessage} : Request(s, k, m)
  \/ \E m \in Messages : HttpCreate(m) \/ HttpDelete(m)
  \/ \E r \in outbox : Publish(r) \/ PublishAgain(r) \/ PublishFails(r)
  \/ Commit \/ Rebalance
  \/ ConsumerStep
  \/ \E j \in removing : RemoveJob(j)
  \/ Restart

DeliverySpec == DeliveryInit /\ [][DeliveryNext]_allVars

\* The broker answers, the consumer goes on to the next record, Mongo and Redis
\* answer, and ws emits the close event of a closing socket.
DeliveryFairness ==
  /\ WF_allVars(\E r \in outbox : Publish(r))
  /\ WF_allVars(ConsumerStep)
  /\ WF_allVars(\E j \in removing : RemoveJob(j))
  /\ \A s \in Sockets :
       /\ WF_allVars(ReplayRead(s) \/ ReplaySend(s))
       /\ WF_allVars(CloseEvent(s) /\ UNCHANGED deliveryVars)

DeliveryLiveSpec == DeliverySpec /\ DeliveryFairness

-----------------------------------------------------------------------------
(* Properties *)

\* A notification is written only to a socket of the user it names, a chatter
\* of the chat unless it is an error reply, although the replay of a connection
\* sends to whatever socket is registered by then.
Addressed ==
  \A d \in delivered :
    /\ owner[d[2]] = d[1].user
    /\ d[1].kind # "error" => d[1].user \in Chatters

\* Once the fan-out of a message has decided to tell a chatter, the
\* notification is written to a socket, on its way, or queued, unless it was
\* given to sendToUser without an open socket or its emit was lost.
NothingVanishes ==
  \A n \in handed :
    \/ \E s \in Sockets : <<n, s>> \in delivered
    \/ n \in outbox \cup topic
    \/ \E j \in queue : j.note = n
    \/ n \in dropped \cup lost

\* When the chat gateway starts to listen, the jobs of the user that were
\* queued before its replay began are all gone; what is left was queued since.
ReplayComplete ==
  \A s \in Sockets :
    stage[s][ChatGateway] = "ready"
      => \A j \in queue \ removing : j.note.user = owner[s] => j.id > since[s]

\* The chatters are told of two messages for one request only if its record came
\* again: sent twice by the producer, or handled before a restart, or a rebalance,
\* and not committed.  No throw of a handler after the fan-out has it done again.
CopiesNeedRedelivery ==
  \A n, k \in handed :
    n.id = k.id /\ n.msg # k.msg => \E r \in repeated : r.topic = "request" /\ r.id = n.id

\* Whoever is told that a message was deleted is told the truth, and whoever is
\* told of a new or changed one is told of a message that was written, by
\* notifications on their way, queued, or written to a socket.
Truthful ==
  \A n \in handed \cup {d[1] : d \in {e \in delivered : e[1].kind # "error"}} :
    msgs[n.msg] \in IF n.kind = "delete" THEN {"deleted"} ELSE {"stored", "deleted"}

\* A job leaves the queue only after its notification was passed to sendToUser.
JobsAreReplayed ==
  [][\A j \in queue \ queue' :
        (\E s \in Sockets : <<j.note, s>> \in delivered) \/ j.note \in dropped]_allVars

\* What is emitted for an offline chatter reaches the queue, unless the emit itself
\* comes to nothing, as long as the process keeps going.
PendingReachesQueue ==
  \A i \in 1..MaxRequests, u \in Chatters :
    LET ofThese(n) == n.topic = "pending" /\ n.id = i /\ n.user = u
    IN  (\E n \in outbox : ofThese(n))
          ~> (\E j \in queue : ofThese(j.note)) \/ \E n \in lost : ofThese(n)

\* A chatter who asks for something over the registered connection and keeps it open
\* is sent an answer over it, the notification or an error, whatever fails, unless
\* the broker refused the request.
RequestsAreAnswered ==
  \A i \in 1..MaxRequests, s \in Sockets :
    LET asking(r) == r.topic = "request" /\ r.id = i
    IN  (\E r \in outbox : asking(r) /\ r.user \in Chatters /\ usersOnline[r.user] = s
                                    /\ readyState[s] = "OPEN")
          ~> \/ \E d \in delivered : d[1].id = i /\ d[2] = s
             \/ readyState[s] # "OPEN"
             \/ \E r \in lost : asking(r)

\* What a chatter is promised: the notifications the fan-outs decided on, those of
\* them on their way or queued, written to a socket, given to sendToUser in vain.
Told == {n \in handed : \E s \in Sockets : <<n, s>> \in delivered}
Waiting == {n \in handed : n \in outbox \cup topic \/ \E j \in queue : j.note = n}
CameAgain == {n \in handed : \E r \in repeated : r = n \/ (r.topic = "request" /\ r.id = n.id)}
Mail == INSTANCE Mailbox WITH promised <- handed, waiting <- Waiting, shown <- Told,
                              missed <- handed \cap (dropped \cup lost), again <- CameAgain

\* Delivery keeps that promise: no step of the gateways, the consumer, the broker or
\* the replay lets a notification go that was neither shown nor missed, or repeats
\* one unless a record of it came again.
KeepsPromises == Mail!Spec

\* The message path changes the registry in no way the gateways do not.
KeepsPresence == Spec

\* A chatter whose connections are all closed has the notification queued.  The
\* code does not keep this: see the findings.
OfflineIsQueued ==
  [][\A u \in Chatters :
        /\ task # NoTask /\ handed' # handed
        /\ \A s \in Sockets : owner[s] = u => readyState[s] = "CLOSED"
        => Note(task, u) \in outbox']_allVars
=============================================================================
