---------------------------- MODULE ChatDeletion ----------------------------
(***************************************************************************)
(* Deleting a chat.  ChatService.deleteChatById emits chat.delete.process, *)
(* whose handler walks the chat's messages page by page, emits the removal *)
(* of the files of each one, drops the message collection and deletes the  *)
(* chat document.  Meanwhile the HTTP endpoints add and delete messages,   *)
(* MongoDB and Kafka fail, the process may restart, and a handler that     *)
(* throws is given the record again.                                       *)
(***************************************************************************)
EXTENDS Naturals, FiniteSets, Sequences

CONSTANTS Messages,      \* bound: identities for message documents
          MaxDeletions,  \* bound: calls of deleteChatById
          MaxHttpDeletes,\* bound: messages deleted over HTTP
          MaxFaults,     \* bound: failures of MongoDB and Kafka
          MaxCrashes     \* bound: restarts of the process

ASSUME ChatDeletionAssumption == /\ IsFiniteSet(Messages)
                                 /\ MaxDeletions \in Nat
                                 /\ MaxHttpDeletes \in Nat
                                 /\ MaxFaults \in Nat /\ MaxCrashes \in Nat

VARIABLES
  chat,      \* is there a document of the chat in the Chats collection
  coll,      \* its message collection, newest first
  emitted,   \* chat.delete.process records not acknowledged by the broker
  ready,     \* chat.delete.process records to be handled, the current included
  handled,   \* those handled since the last commit
  phase,     \* the handler: "idle", "page", "drop" or "forget"
  page,      \* the page it reads next
  outbox,    \* messages whose upload.delete.process is not acknowledged
  purged,    \* messages whose upload.delete.process is in the topic
  lost,      \* history: messages whose upload.delete.process was lost in the
             \* last walk they were read in
  dropped,   \* history: messages that went with the collection
  added,     \* history: all messages so far
  races,     \* history: HTTP changes of the collection while it is walked
  half,      \* history: was the handler cut short between drop and document
  deletions, httpDeletes, faults, crashes

records == <<emitted, ready, handled>>
handler == <<phase, page>>
purges == <<outbox, purged, lost>>
counters == <<half, deletions, httpDeletes, faults, crashes>>
vars == <<chat, coll, records, handler, purges, dropped, added, races, counters>>

Elements(q) == {q[i] : i \in DOMAIN q}

TypeOK ==
  /\ chat \in BOOLEAN
  /\ coll \in Seq(Messages)
  /\ {emitted, ready, handled} \subseteq 0..MaxDeletions + MaxFaults
  /\ phase \in {"idle", "page", "drop", "forget"}
  /\ page \in Nat \ {0}
  /\ outbox \subseteq Messages /\ purged \subseteq Messages /\ lost \subseteq Messages
  /\ dropped \subseteq Messages /\ added \subseteq Messages
  /\ races \in Nat
  /\ deletions \in 0..MaxDeletions
  /\ httpDeletes \in 0..MaxHttpDeletes
  /\ half \in BOOLEAN
  /\ faults \in 0..MaxFaults /\ crashes \in 0..MaxCrashes

Init ==
  /\ chat \in BOOLEAN /\ coll = <<>>
  /\ emitted = 0 /\ ready = 0 /\ handled = 0
  /\ phase = "idle" /\ page = 1
  /\ outbox = {} /\ purged = {} /\ lost = {}
  /\ dropped = {} /\ added = {} /\ races = 0
  /\ half = FALSE /\ deletions = 0 /\ httpDeletes = 0 /\ faults = 0 /\ crashes = 0

-----------------------------------------------------------------------------
(* The services *)

\* deleteChatById, over HTTP or from the handler of chat.delete.
DeleteChatById ==
  /\ chat
  /\ deletions < MaxDeletions
  /\ deletions' = deletions + 1
  /\ emitted' = emitted + 1
  /\ UNCHANGED <<chat, coll, ready, handled, handler, purges, dropped, added, races,
                 half, httpDeletes, faults, crashes>>

\* Is the collection between the first page read and the drop?
Walked == phase = "drop" \/ (phase = "page" /\ page > 1)

CountRace == races' = IF Walked THEN races + 1 ELSE races

\* addMessage does not look for the chat; writing creates the collection.
AddMessage(m) ==
  /\ m \notin added
  /\ coll' = <<m>> \o coll
  /\ added' = added \cup {m}
  /\ CountRace
  /\ UNCHANGED <<chat, records, handler, purges, dropped, counters>>

\* deleteMessageById removes the files of the message by itself.
DeleteMessage(m) ==
  /\ httpDeletes < MaxHttpDeletes
  /\ httpDeletes' = httpDeletes + 1
  /\ \E i \in DOMAIN coll : /\ coll[i] = m
                            /\ coll' = SubSeq(coll, 1, i - 1) \o SubSeq(coll, i + 1, Len(coll))
  /\ CountRace
  /\ UNCHANGED <<chat, records, handler, purges, dropped, added, half, deletions,
                 faults, crashes>>

-----------------------------------------------------------------------------
(* handleMessageDeleteProcess *)

\* Variant: the pages are counted from zero.
Start_pageZero ==
  /\ phase = "idle" /\ ready > 0
  /\ chat
  /\ phase' = "page" /\ page' = 0
  /\ lost' = lost \ Elements(coll)
  /\ UNCHANGED <<chat, coll, records, outbox, purged, dropped, added, races, counters>>

\* getChatByUsersIds finds the chat; without it the handler throws, and the
\* record stays where it is.  A new walk has all the messages there are purged.
Start ==
  /\ phase = "idle" /\ ready > 0
  /\ chat
  /\ phase' = "page" /\ page' = 1
  /\ lost' = lost \ Elements(coll)
  /\ UNCHANGED <<chat, coll, records, outbox, purged, dropped, added, races, counters>>

\* Variants: the last page is missed; a page too many is read.
ReadPage_missesLast ==
  /\ phase = "page" /\ page <= Len(coll)
  /\ outbox' = outbox \cup {coll[page]}
  /\ page' = page + 1
  /\ phase' = IF page + 1 < Len(coll) THEN "page" ELSE "drop"
  /\ UNCHANGED <<chat, coll, records, purged, lost, dropped, added, races, counters>>
ReadPage_onePast ==
  /\ phase = "page" /\ page <= Len(coll)
  /\ outbox' = outbox \cup {coll[page]}
  /\ page' = page + 1
  /\ UNCHANGED <<chat, coll, records, phase, purged, lost, dropped, added, races, counters>>

\* getMessages(chat, page, 1) returns the message of the page; the next page is
\* null on the last one.
ReadPage ==
  /\ phase = "page" /\ page <= Len(coll)
  /\ outbox' = outbox \cup {coll[page]}
  /\ page' = page + 1
  /\ phase' = IF page < Len(coll) THEN "page" ELSE "drop"
  /\ UNCHANGED <<chat, coll, records, purged, lost, dropped, added, races, counters>>

\* Variant: the handler catches the error, so the record is done.
NoSuchPage_caught ==
  /\ phase = "page" /\ page > Len(coll)
  /\ phase' = "idle" /\ page' = 1
  /\ ready' = ready - 1
  /\ handled' = handled + 1
  /\ UNCHANGED <<chat, coll, emitted, purges, dropped, added, races, counters>>

\* getMessages throws on a page without a message: the handler throws.
NoSuchPage ==
  /\ phase = "page" /\ page > Len(coll)
  /\ phase' = "idle" /\ page' = 1
  /\ UNCHANGED <<chat, coll, records, purges, dropped, added, races, counters>>

DropCollection ==
  /\ phase = "drop"
  /\ phase' = "forget" /\ page' = 1
  /\ coll' = <<>>
  /\ dropped' = dropped \cup Elements(coll)
  /\ UNCHANGED <<chat, records, purges, added, races, counters>>

\* Variant: the document is deleted in the place of the collection.
DeleteDocument_first ==
  /\ phase = "drop"
  /\ phase' = "idle"
  /\ chat' = FALSE
  /\ ready' = ready - 1
  /\ handled' = handled + 1
  /\ UNCHANGED <<coll, emitted, page, purges, dropped, added, races, counters>>

\* findByIdAndDelete, and the record is done.
DeleteDocument ==
  /\ phase = "forget"
  /\ phase' = "idle"
  /\ chat' = FALSE
  /\ ready' = ready - 1
  /\ handled' = handled + 1
  /\ UNCHANGED <<coll, emitted, page, purges, dropped, added, races, counters>>

\* MongoDB, Kafka or the network fails, at most MaxFaults times.
Fault == faults < MaxFaults /\ faults' = faults + 1

\* What the handler awaits throws, before or after it took effect.
HandlerThrows ==
  /\ phase # "idle"
  /\ Fault
  /\ phase' = "idle" /\ page' = 1
  /\ \/ half' = (half \/ phase = "forget") /\ UNCHANGED <<chat, coll, dropped>>
     \/ /\ phase = "drop" /\ half' = TRUE
        /\ coll' = <<>> /\ dropped' = dropped \cup Elements(coll)
        /\ UNCHANGED chat
     \/ phase = "forget" /\ chat' = FALSE /\ UNCHANGED <<coll, dropped, half>>
  /\ UNCHANGED <<records, purges, added, races, deletions, httpDeletes, crashes>>

-----------------------------------------------------------------------------
(* Kafka and the process *)

Publish ==
  /\ emitted > 0
  /\ emitted' = emitted - 1
  /\ ready' = ready + 1
  /\ UNCHANGED <<chat, coll, handled, handler, purges, dropped, added, races, counters>>

\* The broker rejects the record, and nobody looks at the result; or it takes the
\* record and the producer, who does not hear of it, sends it once more.
PublishFaultily ==
  /\ emitted > 0 /\ Fault
  /\ emitted' = emitted - 1
  /\ ready' \in {ready, ready + 2}
  /\ UNCHANGED <<chat, coll, handled, handler, purges, dropped, added, races,
                 half, deletions, httpDeletes, crashes>>

PublishPurge(m) ==
  /\ m \in outbox
  /\ outbox' = outbox \ {m}
  /\ purged' = purged \cup {m}
  /\ UNCHANGED <<chat, coll, records, handler, lost, dropped, added, races, counters>>

\* The broker rejects the record; nor does anybody look here.
PurgeFails(m) ==
  /\ m \in outbox /\ Fault
  /\ outbox' = outbox \ {m}
  /\ lost' = lost \cup {m}
  /\ UNCHANGED <<chat, coll, records, handler, purged, dropped, added, races,
                 half, deletions, httpDeletes, crashes>>

Commit ==
  /\ handled > 0
  /\ handled' = 0
  /\ UNCHANGED <<chat, coll, emitted, ready, handler, purges, dropped, added, races, counters>>

\* What was handled and not committed is handed to the consumer again.
Redelivers == ready' = ready + handled /\ handled' = 0

\* The commit fails, or the consumer's session expires, and the group rebalances.
Rebalance ==
  /\ handled > 0 /\ Fault
  /\ Redelivers
  /\ UNCHANGED <<chat, coll, emitted, handler, purges, dropped, added, races,
                 half, deletions, httpDeletes, crashes>>

Crash ==
  /\ crashes < MaxCrashes
  /\ crashes' = crashes + 1
  /\ phase' = "idle" /\ page' = 1
  /\ half' = (half \/ phase = "forget")
  /\ emitted' = 0
  /\ Redelivers
  /\ lost' = lost \cup outbox
  /\ outbox' = {}
  /\ UNCHANGED <<chat, coll, purged, dropped, added, races, deletions, httpDeletes, faults>>

-----------------------------------------------------------------------------
HandlerStep == Start \/ ReadPage \/ NoSuchPage \/ DropCollection \/ DeleteDocument

KafkaStep ==
  \/ Publish \/ PublishFaultily
  \/ \E m \in Messages : PublishPurge(m) \/ PurgeFails(m)
  \/ Commit \/ Rebalance

Next ==
  \/ DeleteChatById
  \/ \E m \in Messages : AddMessage(m) \/ DeleteMessage(m)
  \/ HandlerStep
  \/ HandlerThrows
  \/ KafkaStep
  \/ Crash

Spec == Init /\ [][Next]_vars

\* The broker acknowledges and the consumer keeps retrying.
Fairness == WF_vars(HandlerStep) /\ WF_vars(Publish)

LiveSpec == Spec /\ Fairness

-----------------------------------------------------------------------------
(* Properties *)

\* Dropped, and nobody purges their files.
Leaked == dropped \ (outbox \cup purged)

\* Dropping the collection leaves files behind for messages whose purge, emitted in
\* the very walk that led to the drop, was lost with the process or rejected by the
\* broker, and else only for those that an HTTP request shifted past the walk, at
\* most one for each such request: what a walk that is repeated lost, and what was
\* read on skipped or repeated pages, is purged.
LeaksHaveCauses == Cardinality(Leaked \ lost) <= races

\* A message whose files are being purged can still be read only while a record
\* is there that makes the handler go on, whatever made an earlier try fail.
PurgesArePending ==
  \A m \in Elements(coll) : m \in outbox \cup purged \cup lost => ready > 0

\* A chat that is to be deleted is deleted in the end.  The code does not keep this:
\* see the findings.
ChatIsDeleted == (chat /\ ready > 0) ~> ~ chat

\* A chat with messages that is to be deleted is deleted in the end, though the
\* process restarts meanwhile.  The code does not keep this: see the findings.
RestartedDeletionEnds == (chat /\ ready > 0 /\ coll # <<>>) ~> ~ chat
=============================================================================
