---------------------------- MODULE MailboxProofs ----------------------------
(***************************************************************************)
(* No request is carried out twice unless its record comes again, and      *)
(* Delivery implements Mailbox, for any number of users, connections,      *)
(* messages, requests, restarts and failures.                              *)
(***************************************************************************)
EXTENDS DeliveryProofs

-----------------------------------------------------------------------------
(* No request is carried out twice unless its record comes again *)

\* A request has a number of its own.  It is in one place, unless it came again; the
\* one whose message is written is still with the broker.
RequestsOnce ==
  /\ \A r \in outbox \cup topic \cup handled \cup handed : r.id <= asked
  /\ \A r, q \in outbox \cup topic \cup handled :
       r.topic = "request" /\ q.topic = "request" /\ r.id = q.id => r = q
  /\ \A r \in outbox \cap (topic \cup handled) : r.topic = "request" => r \in repeated
  /\ task # NoTask => task.rec \in topic

\* Has the request not come again?  Is it still to be carried out?
Once(i) == \A r \in repeated : r.topic = "request" => r.id # i
Waits(i) == \E r \in outbox \cup topic : r.topic = "request" /\ r.id = i

\* Nobody was told yet of a request that waits; whoever was told of one that is done
\* was told of one message.
ToldOnce(i) ==
  Once(i) => /\ Waits(i) => \A n \in handed : n.id # i
             /\ \A n, k \in handed : n.id = i /\ k.id = i => n.msg = k.msg

CopyInv == RequestsOnce /\ \A i \in 1..MaxRequests : ToldOnce(i)

\* What the types say of the records.
LEMMA RecordTypes ==
  ASSUME DInv
  PROVE  /\ asked \in Nat
         /\ outbox \subseteq Record /\ topic \subseteq Record /\ handled \subseteq Record
         /\ handed \subseteq Record /\ \A r \in Record : r.id \in Nat
         /\ task # NoTask => task.rec \in Record /\ task.rec.topic = "request"
  BY DeliveryAssumption DEF DInv, DeliveryTypeOK, Record, NotesInv, TaskInOrder

\* The notifications of a fan-out carry the number of the request.
LEMMA FanOutRecords ==
  ASSUME DInv, RequestsOnce, FanOut
  PROVE  /\ task # NoTask /\ task' = NoTask /\ task.rec \in topic
         /\ topic' = topic \ {task.rec} /\ handled' = handled \cup {task.rec}
         /\ outbox \subseteq outbox' /\ UNCHANGED <<asked, repeated>>
         /\ \A n \in (outbox' \ outbox) \cup (handed' \ handed) :
              n.topic = "pending" /\ n.id = task.rec.id /\ n.msg = task.msg
<1>1. /\ task # NoTask /\ task' = NoTask /\ topic' = topic \ {task.rec}
      /\ handled' = handled \cup {task.rec} /\ outbox \subseteq outbox'
      /\ UNCHANGED <<asked, repeated>>
  BY DEF FanOut, Finish, faults
<1>2. \A u \in Chatters : /\ Note(task, u).topic = "pending" /\ Note(task, u).id = task.rec.id
                          /\ Note(task, u).msg = task.msg
  BY <1>1, RecordTypes DEF Note, Record
<1> QED
  BY <1>1, <1>2 DEF FanOut, RequestsOnce

\* Every step keeps a request where it is or moves it on.
LEMMA RequestsOnceStep == DInv /\ RequestsOnce /\ [DeliveryNext]_allVars => RequestsOnce'
<1> SUFFICES ASSUME DInv, RequestsOnce, [DeliveryNext]_allVars PROVE RequestsOnce'
  OBVIOUS
<1> USE DEF RequestsOnce
<1>1. /\ asked \in Nat /\ outbox \subseteq Record /\ topic \subseteq Record /\ handled \subseteq Record
      /\ handed \subseteq Record /\ \A r \in Record : r.id \in Nat
      /\ task # NoTask => task.rec.topic = "request"
  BY RecordTypes
<1>2. CASE Restart \/ Rebalance \/ Commit
  BY <1>1, <1>2 DEF Restart, Rebalance, Redelivers, Commit, faults
<1>3. ASSUME NEW s \in Sockets, NEW k \in Kinds, NEW m \in Messages \cup {NoMessage},
             Request(s, k, m)
      PROVE RequestsOnce'
  <2>1. PICK r : r.topic = "request" /\ r.id = asked' /\ outbox' = outbox \cup {r}
    BY <1>3 DEF Request
  <2>2. asked' = asked + 1 /\ UNCHANGED <<topic, handled, task, handed, repeated>>
    BY <1>3 DEF Request, faults
  <2>3. \A q \in outbox \cup topic \cup handled \cup handed : q.id <= asked /\ q.id \in Nat
    BY <1>1, <2>2
  <2>4. \A q \in outbox \cup topic \cup handled \cup handed : q.id <= asked' /\ q.id # r.id
    BY <1>1, <2>1, <2>2, <2>3
  <2>5. r.id <= asked'
    BY <1>1, <2>1, <2>2
  <2> QED
    BY <2>1, <2>2, <2>4, <2>5
<1>4. ASSUME NEW r \in outbox, Publish(r) \/ PublishAgain(r) \/ PublishFails(r)
      PROVE  RequestsOnce'
  BY <1>1, <1>4 DEF Publish, PublishAgain, PublishFails, faults
<1>5. ASSUME NEW r \in topic,
             HandlerRejects(r) \/ HandlePending(r) \/ HandleUpdate(r) \/ HandleDelete(r)
      PROVE RequestsOnce'
  BY <1>1, <1>5 DEF HandlerRejects, HandlePending, HandleUpdate, HandleDelete, Finish,
                    kafka, faults
<1>6. ASSUME NEW r \in topic, NEW m \in Messages, HandleCreate(r, m) PROVE RequestsOnce'
  BY <1>1, <1>6 DEF HandleCreate, kafka, faults
<1>7. CASE FanOut
  <2>1. /\ task # NoTask /\ task' = NoTask /\ task.rec \in topic
        /\ topic' = topic \ {task.rec} /\ handled' = handled \cup {task.rec}
        /\ outbox \subseteq outbox' /\ UNCHANGED <<asked, repeated>>
        /\ \A n \in (outbox' \ outbox) \cup (handed' \ handed) :
             n.topic = "pending" /\ n.id = task.rec.id
    BY <1>7, FanOutRecords
  <2>2. task.rec.id <= asked
    BY <2>1
  <2>3. \A r \in outbox' \cup handed' : r.id <= asked
    BY <2>1, <2>2
  <2>4. topic' \cup handled' = topic \cup handled
    BY <2>1
  <2>5. \A r \in outbox' : r.topic = "request" => r \in outbox
    BY <2>1
  <2> QED
    BY <2>1, <2>3, <2>4, <2>5
<1>8. CASE FanOutFails
  BY <1>1, <1>8 DEF FanOutFails, Finish, faults
<1>9. CASE UNCHANGED <<kafka, task, handed, faults>>
  BY <1>1, <1>9 DEF kafka, faults
<1> HIDE DEF RequestsOnce
<1> QED
  BY <1>2, <1>3, <1>4, <1>5, <1>6, <1>7, <1>8, <1>9
     DEF DeliveryNext, ConsumerStep, PresenceOnly, ReplayRead, ReplaySend, Admit, HttpCreate,
         HttpDelete, RemoveJob, allVars, deliveryVars

\* A request stays in its place in the count as long as nothing is decided on and
\* it does not wait anew without coming again; a new one has the number of no other.
LEMMA StaysOnce ==
  ASSUME DInv, NEW i \in 1..MaxRequests, RequestsOnce, ToldOnce(i), handed' = handed,
         repeated \subseteq repeated',
         (Once(i)' /\ Waits(i)' => Waits(i)) \/ i = asked + 1
  PROVE  ToldOnce(i)'
<1>1. Once(i)' => Once(i)
  BY DEF Once
<1>2. CASE Once(i)' /\ Waits(i)' => Waits(i)
  BY <1>1, <1>2 DEF ToldOnce
<1>3. CASE i = asked + 1
  <2>1. \A n \in handed : n.id \in Nat /\ n.id <= asked /\ asked \in Nat
    BY RecordTypes DEF RequestsOnce
  <2>2. \A n \in handed : n.id # i
    BY <1>3, <2>1
  <2> QED
    BY <2>2 DEF ToldOnce
<1> QED
  BY <1>2, <1>3

\* After the fan-out whoever was told of its request was told of its message.
LEMMA FanOutOnce ==
  ASSUME DInv, RequestsOnce, FanOut, NEW i \in 1..MaxRequests, ToldOnce(i)
  PROVE  ToldOnce(i)'
<1>1. /\ task.rec \in topic /\ task.rec.topic = "request"
      /\ topic' = topic \ {task.rec} /\ repeated' = repeated
      /\ \A n \in (outbox' \ outbox) \cup (handed' \ handed) :
           n.topic = "pending" /\ n.id = task.rec.id /\ n.msg = task.msg
  BY FanOutRecords, RecordTypes DEF FanOut, faults
<1> SUFFICES ASSUME Once(i)' PROVE /\ Waits(i)' => \A n \in handed' : n.id # i
                                   /\ \A n, k \in handed' : n.id = i /\ k.id = i => n.msg = k.msg
  BY DEF ToldOnce
<1>2. Once(i)
  BY <1>1 DEF Once
<1>3. CASE i = task.rec.id
  <2>1. Waits(i)
    BY <1>1, <1>3 DEF Waits
  <2>2. \A n \in handed : n.id # i
    BY <1>2, <2>1 DEF ToldOnce
  <2>3. \A n \in handed' : n.id = i => n.msg = task.msg
    BY <1>1, <2>2
  <2>4. ~ Waits(i)'
    <3>1. ASSUME NEW r \in outbox' \cup topic', r.topic = "request", r.id = i PROVE FALSE
      <4>1. r \in outbox \cup topic
        BY <1>1, <3>1
      <4>2. r = task.rec
        BY <1>1, <1>3, <3>1, <4>1 DEF RequestsOnce
      <4>3. r \in outbox
        BY <1>1, <3>1, <4>2
      <4>4. r \in repeated
        BY <1>1, <4>2, <4>3 DEF RequestsOnce
      <4> QED
        BY <1>2, <3>1, <4>4 DEF Once
    <3> QED
      BY <3>1 DEF Waits
  <2> QED
    BY <2>3, <2>4
<1>4. CASE i # task.rec.id
  <2>1. \A n \in handed' : n.id = i => n \in handed
    BY <1>1, <1>4
  <2>2. Waits(i)' => Waits(i)
    BY <1>1, <1>4 DEF Waits
  <2> QED
    BY <1>2, <2>1, <2>2 DEF ToldOnce
<1> QED
  BY <1>3, <1>4

\* Every step keeps the requests told of once.
LEMMA CopyStep == DInv /\ CopyInv /\ [DeliveryNext]_allVars => CopyInv'
<1> SUFFICES ASSUME DInv, CopyInv, [DeliveryNext]_allVars PROVE CopyInv'
  OBVIOUS
<1>1. RequestsOnce /\ \A i \in 1..MaxRequests : ToldOnce(i)
  BY DEF CopyInv
<1> SUFFICES ASSUME NEW i \in 1..MaxRequests PROVE ToldOnce(i)'
  BY <1>1, RequestsOnceStep DEF CopyInv
<1>2. CASE FanOut
  BY <1>1, <1>2, FanOutOnce
<1>3. CASE Restart \/ Rebalance
  <2>1. /\ outbox' \subseteq outbox /\ topic' = topic \cup handled
        /\ repeated' = repeated \cup handled /\ handed' = handed
    BY <1>3 DEF Restart, Rebalance, Redelivers
  <2>2. Once(i)' /\ Waits(i)' => Waits(i)
    BY <2>1 DEF Once, Waits
  <2> QED
    BY <1>1, <2>1, <2>2, StaysOnce
<1>4. ASSUME NEW s \in Sockets, NEW k \in Kinds, NEW m \in Messages \cup {NoMessage},
             Request(s, k, m)
      PROVE ToldOnce(i)'
  <2>1. PICK r : r.id = asked + 1 /\ outbox' = outbox \cup {r}
    BY <1>4 DEF Request
  <2>2. UNCHANGED <<topic, handed, repeated>>
    BY <1>4 DEF Request, faults
  <2>3. i # asked + 1 => (Waits(i)' => Waits(i))
    BY <2>1, <2>2 DEF Waits
  <2> QED
    BY <1>1, <2>2, <2>3, StaysOnce
<1>5. ASSUME outbox' \cup topic' \subseteq outbox \cup topic, repeated \subseteq repeated',
             handed' = handed
      PROVE  ToldOnce(i)'
  <2>1. Waits(i)' => Waits(i)
    BY <1>5 DEF Waits
  <2> QED
    BY <1>1, <1>5, <2>1, StaysOnce
<1>6. CASE UNCHANGED <<kafka, handed, faults>>
  BY <1>5, <1>6 DEF kafka, faults
<1>7. ASSUME NEW r \in outbox, Publish(r) \/ PublishAgain(r) \/ PublishFails(r)
      PROVE  ToldOnce(i)'
  BY <1>5, <1>7 DEF Publish, PublishAgain, PublishFails, faults
<1>8. ASSUME NEW r \in topic, HandlerRejects(r) \/ HandlePending(r) PROVE ToldOnce(i)'
  BY <1>5, <1>8 DEF HandlerRejects, HandlePending, Finish, faults
<1>9. CASE FanOutFails \/ Commit
  BY <1>5, <1>9 DEF FanOutFails, Commit, Finish, faults
<1> QED
  BY <1>2, <1>3, <1>4, <1>6, <1>7, <1>8, <1>9
     DEF DeliveryNext, ConsumerStep, PresenceOnly, ReplayRead, ReplaySend, Admit, HttpCreate,
         HttpDelete, HandleCreate, HandleUpdate, HandleDelete, RemoveJob, allVars, deliveryVars

LEMMA InitCopies == DeliveryInit => CopyInv
  BY DEF DeliveryInit, CopyInv, RequestsOnce, ToldOnce

\* Nobody was told yet of the request in hand, unless it came again.
LEMMA FreshRequest ==
  ASSUME DInv, CopyInv, task # NoTask, NEW n \in handed \ CameAgain
  PROVE  n.id # task.rec.id
<1>1. /\ task.rec \in topic /\ task.rec \in Record /\ task.rec.topic = "request"
  BY RecordTypes DEF CopyInv, RequestsOnce
<1>2. task.rec.id \in 1..MaxRequests /\ Waits(task.rec.id)
  BY <1>1 DEF Record, Waits
<1>3. Once(n.id)
  BY DEF CameAgain, Once
<1> QED
  BY <1>2, <1>3 DEF CopyInv, ToldOnce

\* Chatters are told of two messages for one request only if its record came again:
\* no order of throws, restarts and steps of the consumer does it otherwise.
THEOREM CopiesComeOfRedelivery == DeliverySpec => []CopiesNeedRedelivery
<1>1. DInv /\ CopyInv => CopiesNeedRedelivery
  <2> SUFFICES ASSUME DInv, CopyInv, NEW n \in handed, NEW k \in handed, n.id = k.id,
                      n.msg # k.msg
               PROVE  \E r \in repeated : r.topic = "request" /\ r.id = n.id
    BY DEF CopiesNeedRedelivery
  <2>1. n.id \in 1..MaxRequests
    BY RecordTypes DEF Record
  <2> QED
    BY <2>1 DEF CopyInv, ToldOnce, Once
<1> QED
  BY <1>1, InitCopies, CopyStep, DeliveryInvariant, PTL DEF DeliverySpec

-----------------------------------------------------------------------------
(* Every step of Delivery is one of Mailbox or leaves it alone *)

Missed == handed \cap (dropped \cup lost)

\* Error replies and requests are not among the notifications decided on.
LEMMA HandedAreNotes ==
  ASSUME DInv, NEW n \in handed
  PROVE  n.topic = "pending" /\ n.kind # "error" /\ n \in Record
  BY DEF DInv, NotesInv, HandedInOrder, WellMeant, Kinds, DeliveryTypeOK

\* An error reply has the kind "error".
LEMMA RepliesAreErrors ==
  ASSUME NEW r \in Record, sendToUser({ErrorFor(r)})
  PROVE  /\ \A d \in delivered' : d \in delivered \/ d[1].kind = "error"
         /\ \A n \in dropped' : n \in dropped \/ n.kind = "error"
         /\ delivered \subseteq delivered' /\ dropped \subseteq dropped'
<1>1. ErrorFor(r).note.kind = "error"
  BY ErrorFields
<1> QED
  BY <1>1 DEF sendToUser

\* An error reply changes nothing for the notifications decided on.
LEMMA RepliesAreNotNotes ==
  ASSUME DInv, NEW r \in Record, r.topic = "request", sendToUser({ErrorFor(r)}), Finish(r),
         UNCHANGED <<handed, outbox, queue, lost>>
  PROVE  UNCHANGED <<Told, Waiting, Missed>>
<1>1. \A n \in handed : n.topic = "pending" /\ n.kind # "error"
  BY HandedAreNotes
<1>2. Told' = Told /\ Missed' = Missed
  BY <1>1, RepliesAreErrors DEF Told, Missed
<1>3. Waiting' = Waiting
  BY <1>1 DEF Waiting, Finish
<1> QED
  BY <1>2, <1>3

\* The fan-out decides on notifications that were not decided on before, unless
\* a record of theirs came again.
LEMMA FanOutDecides == DInv /\ DInv' /\ CopyInv /\ FanOut => Mail!Decide
<1> SUFFICES ASSUME DInv, DInv', CopyInv, FanOut PROVE Mail!Decide
  OBVIOUS
<1> DEFINE online == {u \in Chatters : getUserIdByID_online(u)}
           letters == {[to |-> u, note |-> Note(task, u)] : u \in online}
           fresh == {Note(task, u) : u \in Chatters}
<1>1. /\ task # NoTask /\ sendToUser(letters)
      /\ outbox' = outbox \cup {Note(task, u) : u \in Chatters \ online}
      /\ handed' = handed \cup fresh
      /\ topic' = topic \ {task.rec}
      /\ UNCHANGED <<queue, lost, repeated>>
  BY DEF FanOut, Finish, bull, faults
<1>2. /\ \A l \in letters : l.note \in fresh
      /\ \A n \in outbox' : n \in outbox \/ n \in fresh
      /\ outbox \subseteq outbox'
  BY <1>1
<1>3. task.rec.topic = "request" /\ task.rec \in Record
  BY <1>1 DEF DInv, NotesInv, TaskInOrder, DeliveryTypeOK
<1>4. \A n \in fresh : n.id = task.rec.id
  BY <1>3 DEF Note, Record
<1> HIDE DEF letters, fresh, online
<1>5. /\ delivered \subseteq delivered' /\ dropped \subseteq dropped'
      /\ \A d \in delivered' : d \in delivered \/ d[1] \in fresh
      /\ \A n \in dropped' : n \in dropped \/ n \in fresh
  BY <1>1, <1>2 DEF sendToUser
<1>6. handed' = handed \cup Waiting' \cup Told' \cup Missed'
  BY <1>1 DEF DInv, NothingVanishes, Waiting, Told, Missed
<1>7. \A n \in handed : n # task.rec
  BY <1>3, HandedAreNotes
<1>8. Waiting \subseteq Waiting' /\ Told \subseteq Told' /\ Missed \subseteq Missed'
  BY <1>1, <1>2, <1>5, <1>7 DEF Waiting, Told, Missed
<1>9. ASSUME NEW n \in handed \ CameAgain
      PROVE  /\ n \in Waiting' => n \in Waiting
             /\ n \in Told' => n \in Told
             /\ n \in Missed' => n \in Missed
  <2>1. n \notin fresh
    BY <1>1, <1>4, FreshRequest
  <2> QED
    BY <1>1, <1>2, <1>5, <1>7, <2>1 DEF Waiting, Told, Missed
<1>10. handed \cap CameAgain' = CameAgain
  BY <1>1 DEF CameAgain
<1> QED
  BY <1>1, <1>6, <1>8, <1>9, <1>10 DEF Mail!Decide, Mail!Grow, Mail!Untouched, Missed

\* What the other steps do to the notifications decided on.
LEMMA MailStep ==
  DInv /\ DInv' /\ CopyInv /\ [DeliveryNext]_allVars => [Mail!Next]_<<Mail!notes, CameAgain>>
<1> SUFFICES ASSUME DInv, DInv', CopyInv, [DeliveryNext]_allVars
             PROVE  Mail!Next \/ UNCHANGED <<handed, Waiting, Told, Missed, CameAgain>>
  BY DEF Mail!notes, Missed
<1>0. UNCHANGED <<handed, repeated>> => UNCHANGED CameAgain
  BY DEF CameAgain
<1> DEFINE Same == UNCHANGED <<handed, Waiting, Told, Missed, CameAgain>>
<1>1. \A n \in handed : n.topic = "pending" /\ n.kind # "error"
  BY HandedAreNotes
<1>2. CASE FanOut
  BY <1>2, FanOutDecides DEF Mail!Next
<1>3. ASSUME NEW s \in Sockets, ReplaySend(s) PROVE Mail!Next
  <2>1. HistoryGrows /\ UNCHANGED <<handed, outbox, topic, queue, lost, repeated>>
    BY <1>3, HistoryGrowsStep DEF ReplaySend, kafka, faults
  <2>2. UNCHANGED Waiting /\ Told \subseteq Told' /\ Missed \subseteq Missed'
        /\ Told' \cup Missed' \subseteq handed
    BY <2>1 DEF HistoryGrows, Waiting, Told, Missed
  <2> QED
    BY <1>0, <2>1, <2>2 DEF Mail!Next, Mail!Attempt, Mail!Grow, Missed
<1>4. ASSUME NEW j \in removing, RemoveJob(j) PROVE Mail!Next
  <2>1. /\ queue' = queue \ {j}
        /\ UNCHANGED <<handed, outbox, topic, delivered, dropped, lost, repeated>>
    BY <1>4 DEF RemoveJob, kafka, sent, faults
  <2>2. UNCHANGED <<Told, Missed>> /\ Waiting' \subseteq Waiting
    BY <2>1 DEF Told, Missed, Waiting
  <2>3. Passed(j.note)
    BY DEF DInv, RemovedWerePassed
  <2>4. Waiting \ Waiting' \subseteq Told \cup Missed
    BY <2>1, <2>3 DEF Waiting, Told, Missed, Passed
  <2> QED
    BY <1>0, <2>1, <2>2, <2>4 DEF Mail!Next, Mail!Leave, Missed
<1>5. ASSUME NEW r \in outbox, PublishFails(r) PROVE Mail!Next
  <2>1. /\ outbox' = outbox \ {r} /\ lost' = lost \cup {r}
        /\ UNCHANGED <<handed, topic, queue, delivered, dropped, repeated>>
    BY <1>5 DEF PublishFails, bull, sent
  <2>2. UNCHANGED Told /\ Waiting' \subseteq Waiting /\ Waiting \ Waiting' \subseteq Missed'
        /\ Missed \subseteq Missed' /\ Missed' \subseteq Missed \cup Waiting
    BY <2>1 DEF Told, Missed, Waiting
  <2>3. CameAgain' = CameAgain /\ CameAgain \subseteq handed
    BY <2>1 DEF CameAgain
  <2> QED
    BY <2>1, <2>2, <2>3 DEF Mail!Next, Mail!Disturb, Missed
<1>6. CASE Restart \/ Rebalance
  <2>1. /\ outbox' \subseteq outbox /\ lost' = lost \cup (outbox \ outbox')
        /\ topic' = topic \cup handled /\ repeated' = repeated \cup handled
        /\ UNCHANGED <<handed, queue, delivered, dropped>>
    BY <1>6 DEF Restart, Rebalance, Redelivers, bull, sent
  <2>2. UNCHANGED Told /\ Waiting \ Waiting' \subseteq Missed'
        /\ Missed \subseteq Missed' /\ Missed' \subseteq Missed \cup Waiting
    BY <2>1 DEF Told, Missed, Waiting
  <2>3. CameAgain \subseteq CameAgain' /\ Waiting' \subseteq Waiting \cup CameAgain'
        /\ CameAgain' \subseteq handed
    BY <2>1 DEF CameAgain, Waiting
  <2> QED
    BY <2>1, <2>2, <2>3 DEF Mail!Next, Mail!Disturb, Missed
<1>7. ASSUME NEW r \in topic, HandlerRejects(r) PROVE Same
  BY <1>0, <1>7, RepliesAreNotNotes DEF HandlerRejects, bull, DInv, DeliveryTypeOK
<1>8. CASE FanOutFails
  <2>1. task.rec \in Record /\ task.rec.topic = "request"
    BY <1>8 DEF FanOutFails, DInv, NotesInv, TaskInOrder, DeliveryTypeOK
  <2> QED
    BY <1>0, <1>8, <2>1, RepliesAreNotNotes DEF FanOutFails, bull
<1>9. ASSUME NEW n \in topic, HandlePending(n) PROVE Same
  <2>1. [id |-> jobs', note |-> n] \in queue' /\ [id |-> jobs', note |-> n].note = n
    BY <1>9 DEF HandlePending
  <2> HIDE DEF Same
  <2>2. /\ \A j \in queue' : j \in queue \/ j.note = n
        /\ queue \subseteq queue' /\ topic' = topic \ {n}
        /\ UNCHANGED <<handed, outbox, delivered, dropped, lost, repeated>>
    BY <1>9 DEF HandlePending, Finish, sent, faults
  <2> QED
    BY <1>0, <2>1, <2>2 DEF Same, Waiting, Told, Missed
<1>10. ASSUME NEW r \in outbox, Publish(r) PROVE Same
  BY <1>0, <1>10 DEF Publish, Waiting, Told, Missed, bull, sent, faults
<1>11. ASSUME NEW s \in Sockets, NEW k \in Kinds, NEW m \in Messages \cup {NoMessage},
              Request(s, k, m)
       PROVE Same
  <2>1. PICK r : r.topic = "request" /\ outbox' = outbox \cup {r}
    BY <1>11 DEF Request
  <2> QED
    BY <1>0, <1>1, <1>11, <2>1 DEF Request, Waiting, Told, Missed, bull, sent, faults
<1>12. ASSUME NEW r \in outbox, PublishAgain(r) PROVE Mail!Next
  <2>1. /\ topic' = topic \cup {r} /\ repeated' = repeated \cup {r}
        /\ UNCHANGED <<handed, outbox, queue, delivered, dropped, lost>>
    BY <1>12 DEF PublishAgain, bull, sent
  <2>2. UNCHANGED <<Told, Waiting, Missed>>
    BY <2>1 DEF Told, Missed, Waiting
  <2>3. CameAgain \subseteq CameAgain' /\ CameAgain' \subseteq handed
    BY <2>1 DEF CameAgain
  <2> QED
    BY <2>1, <2>2, <2>3 DEF Mail!Next, Mail!Disturb, Missed
<1>13. CASE UNCHANGED <<handed, outbox, topic, queue, delivered, dropped, lost, repeated>>
  BY <1>13 DEF Waiting, Told, Missed, CameAgain
<1> QED
  BY <1>2, <1>3, <1>4, <1>5, <1>6, <1>7, <1>8, <1>9, <1>10, <1>11, <1>12, <1>13
     DEF DeliveryNext, ConsumerStep, PresenceOnly, ReplayRead, Admit, HttpCreate, HttpDelete,
         Commit, HandleCreate, HandleUpdate, HandleDelete, allVars, deliveryVars, kafka, bull,
         sent, faults

\* The registry, Kafka, the queue and the replay keep what the mailbox promises:
\* a notification is decided on once, and goes only when it was shown or missed.
THEOREM DeliveryKeepsPromises == DeliverySpec => KeepsPromises
<1>1. DeliveryInit => Mail!Init
  BY DEF DeliveryInit, Mail!Init, Told, Waiting, CameAgain
<1> QED
  BY <1>1, InitDInv, StepDInv, InitCopies, CopyStep, MailStep, PTL
     DEF DeliverySpec, KeepsPromises, Mail!Spec
=============================================================================
