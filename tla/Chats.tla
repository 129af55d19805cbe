-------------------------------- MODULE Chats --------------------------------
(***************************************************************************)
(* Creating a chat beside its deletion.  ChatService.createChat, for HTTP  *)
(* and for the consumer of chat.create, looks for a chat of the users,     *)
(* creates the document and then its message collection.  The one consumer *)
(* handles one record at a time, a creation or the deletion of             *)
(* ChatDeletion.  All of it is about one set of users.                     *)
(***************************************************************************)
EXTENDS ChatDeletion

CONSTANTS HttpCalls,  \* bound: POSTs at a time
          Consumer,   \* the consumer of chat.create
          MaxRequests \* bound: requests to create or to delete the chat

ASSUME ChatsAssumption == Consumer \notin HttpCalls /\ MaxRequests \in Nat

VARIABLES
  others,      \* number of chats of the users besides the one ChatDeletion follows
  creates,     \* chat.create records to be handled, the current included
  created,     \* those handled since the last commit
  creating,    \* per caller of createChat: "idle", or the step it awaits
  requests,    \* number of requests to create so far
  late,        \* history: messages written when the collection was dropped for
               \* good, or the chat gone
  overlapped   \* history: were two callers past their look for the chat at once

creation == <<others, creates, created, creating, requests>>
history == <<late, overlapped>>
chatsVars == <<vars, creation, history>>

allButFaults == <<chat, coll, records, handler, purges, dropped, added, races,
                  half, deletions, httpDeletes, crashes>>

Callers == HttpCalls \cup {Consumer}
Documents == others + IF chat THEN 1 ELSE 0

ChatsTypeOK ==
  /\ TypeOK
  /\ {others, creates, created} \subseteq 0..MaxRequests + MaxFaults
  /\ creating \in [Callers -> {"idle", "create", "collection"}]
  /\ requests \in 0..MaxRequests
  /\ late \subseteq added /\ overlapped \in BOOLEAN

\* Before the first chat, or with it.
ChatsInit ==
  /\ Init
  /\ others = 0
  /\ creates = 0 /\ created = 0
  /\ creating = [c \in Callers |-> "idle"]
  /\ requests = 0
  /\ late = {} /\ overlapped = FALSE

-----------------------------------------------------------------------------
(* createChat *)

\* The record is done, whatever came of it: the handler catches.
Answer(c) ==
  /\ creating' = [creating EXCEPT ![c] = "idle"]
  /\ IF c = Consumer THEN creates' = creates - 1 /\ created' = created + 1
     ELSE UNCHANGED <<creates, created>>

\* What the chat gateway emits as chat.create is handled some time.  An emit that
\* is lost is no request.
Request ==
  /\ requests + deletions < MaxRequests /\ requests' = requests + 1
  /\ creates' = creates + 1
  /\ UNCHANGED <<vars, others, created, creating>>

\* The producer has sent it twice.
RequestTwice ==
  /\ requests + deletions < MaxRequests /\ requests' = requests + 1
  /\ creates' = creates + 2
  /\ Fault
  /\ UNCHANGED <<allButFaults, others, created, creating>>

\* A call of createChat that has yet to look for the chat.
Begins(c) ==
  /\ creating[c] = "idle"
  /\ IF c = Consumer THEN phase = "idle" /\ creates > 0 /\ UNCHANGED requests
     ELSE requests + deletions < MaxRequests /\ requests' = requests + 1

\* Variant: nobody looks for the chat.
FindOne_always(c) ==
  /\ Begins(c)
  /\ creating' = [creating EXCEPT ![c] = "create"]
  /\ UNCHANGED <<vars, others, creates, created>>

\* Does a chat have all the users among its chatters?
FindOne(c) ==
  /\ Begins(c)
  /\ IF Documents > 0 THEN Answer(c)
     ELSE creating' = [creating EXCEPT ![c] = "create"] /\ UNCHANGED <<creates, created>>
  /\ UNCHANGED <<vars, others>>

Create(c) ==
  /\ creating[c] = "create"
  /\ others' = others + 1
  /\ creating' = [creating EXCEPT ![c] = "collection"]
  /\ UNCHANGED <<vars, creates, created, requests>>

\* createCollection answers or throws.
CreateCollection(c) ==
  /\ creating[c] = "collection"
  /\ Answer(c)
  /\ UNCHANGED <<vars, others, requests>>

\* The look, or the creation, throws.
Throws(c) ==
  /\ creating[c] = "create"
  /\ Answer(c)
  /\ UNCHANGED <<vars, others, requests>>

-----------------------------------------------------------------------------
(* Kafka and the process *)

CommitCreate ==
  /\ created > 0
  /\ created' = 0
  /\ UNCHANGED <<vars, others, creates, creating, requests>>

RedeliversCreate == creates' = creates + created /\ created' = 0

RebalanceCreate ==
  /\ created > 0 /\ Fault
  /\ RedeliversCreate
  /\ UNCHANGED <<allButFaults, others, creating, requests>>

Restart ==
  /\ Crash
  /\ creating' = [c \in Callers |-> "idle"]
  /\ RedeliversCreate
  /\ UNCHANGED <<others, requests>>

-----------------------------------------------------------------------------
Creating ==
  \/ Request \/ RequestTwice
  \/ \E c \in Callers : FindOne(c) \/ Create(c) \/ CreateCollection(c) \/ Throws(c)
  \/ CommitCreate \/ RebalanceCreate

\* What ChatDeletion does between restarts; its handler waits for a creation.
Deleting ==
  /\ \/ DeleteChatById
     \/ \E m \in Messages : AddMessage(m) \/ DeleteMessage(m)
     \/ HandlerStep /\ creating[Consumer] = "idle"
     \/ HandlerThrows
     \/ KafkaStep
  /\ deletions' + requests <= MaxRequests
  /\ UNCHANGED creation

Noting ==
  /\ late' = IF chat /\ phase # "forget" THEN late ELSE late \cup (added' \ added)
  /\ overlapped' = (overlapped \/ \E c, d \in Callers : c # d /\ creating'[c] = "create"
                                                        /\ creating'[d] = "create")

ChatsNext == (Creating \/ Deleting \/ Restart) /\ Noting

ChatsSpec == ChatsInit /\ [][ChatsNext]_chatsVars

\* The broker acknowledges, MongoDB answers, and the consumer keeps retrying.
ChatsFairness ==
  /\ WF_chatsVars(HandlerStep /\ creating[Consumer] = "idle" /\ UNCHANGED creation /\ Noting)
  /\ WF_chatsVars(Publish /\ UNCHANGED creation /\ Noting)
  /\ WF_chatsVars((Create(Consumer) \/ CreateCollection(Consumer)) /\ Noting)

ChatsLiveSpec == ChatsSpec /\ ChatsFairness

-----------------------------------------------------------------------------
(* Properties *)

\* The users have two chats only if two calls overlapped; neither a record that
\* is handled again nor a deletion under way makes a second one.
TwinsNeedOverlap == Documents <= 1 \/ overlapped

\* A message outlives its chat only if it was written when the collection was
\* dropped, or the chat gone: whatever was retried, repeated or raced before.
OrphansCameLate == ~ chat => Elements(coll) \subseteq late

\* A chat with messages that is to be deleted is deleted in the end, however its
\* messages change, and what its handler awaits fails: unless all of the messages
\* are deleted over HTTP before the drop, or the handler is cut short between the
\* drop and the deletion of the document (see the findings).
ChatWithMessagesIsDeleted ==
  (chat /\ ready > 0 /\ coll # <<>>) ~> (~ chat \/ half \/ (coll = <<>> /\ dropped = {}))
=============================================================================
