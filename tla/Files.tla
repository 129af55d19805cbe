-------------------------------- MODULE Files --------------------------------
(***************************************************************************)
(* Files: a document in the Files collection of MongoDB for an object in   *)
(* the object store (S3).  UploadService.upload makes sure of the bucket,  *)
(* puts the object and then creates the document; deleteFile deletes the   *)
(* document and then the object.  Both are called by HTTP endpoints, any   *)
(* number at a time, and by the Kafka consumer, which handles one record   *)
(* at a time and commits afterwards.  Each call awaits each of its steps,  *)
(* any of which may fail, and the process may restart between any two.     *)
(* Records may come more than once: an acknowledgement of the broker, or   *)
(* the commit, may get lost.                                               *)
(***************************************************************************)
EXTENDS Naturals, FiniteSets, Sequences

CONSTANTS Files,        \* bound: identities, the key and the _id, of files
          HttpCalls,    \* bound: HTTP calls at a time
          Consumer,     \* the call the Kafka consumer is making
          NoFile,       \* the file of a call that is over
          NoTask,       \* the consumer has no record
          Users,        \* bound: the users of the WebSocket
          NoUser,       \* the requester of a record is not registered, or there is none
          MaxRequests,  \* bound: records sent by the gateway and other modules
          MaxFaults,    \* bound: failures of MongoDB or S3
          MaxCrashes    \* bound: restarts of the process

ASSUME FilesAssumption == /\ NoFile \notin Files
                          /\ Consumer \notin HttpCalls
                          /\ NoUser \notin Users
                          /\ MaxRequests \in Nat
                          /\ MaxFaults \in Nat /\ MaxCrashes \in Nat

Calls == HttpCalls \cup {Consumer}

VARIABLES
  bucket,    \* "absent", "bare" (created, without its policy) or "public"
  objects,   \* the files whose object is in the bucket
  docs,      \* the files with a document
  used,      \* the identities taken by uploads so far
  call,      \* per call: the step it awaits, its file, the files still to delete
  requests,  \* number of records so far; a record's id is its number
  outbox,    \* emitted records the broker has not acknowledged
  topic,     \* records to be handled, the one in hand included
  handled,   \* records handled since the last offset commit
  task,      \* the record in hand
  online,    \* the users registered with an open socket, as Presence has it
  told,      \* history: requests sendToUser has written an answer to
  made,      \* history: the documents made for each upload.create record
  removed,   \* history: files whose document was deleted
  confirmed, \* history: files a call has answered "File deleted" for, per call
  purged,    \* history: files of the upload.delete.process records handled
  cut,       \* history: files whose upload or deletion was cut short
  bare,      \* history: was a call cut short between the bucket and its policy
  lost,      \* history: records emitted in vain
  repeated,  \* history: records that may be handled more than once
  faults, crashes

kafka == <<requests, outbox, topic, handled, task, told>>
events == <<cut, bare, lost, repeated, online, faults, crashes>>
vars == <<bucket, objects, docs, used, call, kafka, made, removed, confirmed, purged, events>>

Steps == {"idle", "check", "head", "create", "policy", "put", "save", "find", "object"}
Idle == [at |-> "idle", file |-> NoFile, todo |-> <<>>, patient |-> FALSE]
Record == [kind : {"create", "delete", "purge"}, id : 1..MaxRequests, files : Seq(Files),
           user : Users \cup {NoUser}]
Elements(q) == {q[i] : i \in DOMAIN q}
At(steps) == {call[c].file : c \in {d \in Calls : call[d].at \in steps}}

TypeOK ==
  /\ bucket \in {"absent", "bare", "public"}
  /\ objects \subseteq used /\ docs \subseteq used /\ used \subseteq Files
  /\ call \in [Calls -> [at : Steps, file : Files \cup {NoFile}, todo : Seq(Files),
                         patient : BOOLEAN]]
  /\ requests \in 0..MaxRequests
  /\ outbox \subseteq Record /\ topic \subseteq Record
  /\ handled \subseteq Record /\ lost \subseteq Record /\ repeated \subseteq Record
  /\ online \subseteq Users
  /\ task \in topic \cup {NoTask}
  /\ told \subseteq 1..MaxRequests
  /\ made \subseteq (1..MaxRequests) \X Files
  /\ removed \subseteq used /\ purged \subseteq used /\ cut \subseteq used
  /\ confirmed \in [Files -> Nat]
  /\ bare \in BOOLEAN
  /\ faults \in 0..MaxFaults /\ crashes \in 0..MaxCrashes

Init ==
  /\ bucket = "absent" /\ objects = {} /\ docs = {} /\ used = {}
  /\ call = [c \in Calls |-> Idle]
  /\ requests = 0 /\ outbox = {} /\ topic = {} /\ handled = {} /\ task = NoTask
  /\ told = {} /\ made = {} /\ removed = {} /\ purged = {}
  /\ confirmed = [f \in Files |-> 0]
  /\ cut = {} /\ bare = FALSE /\ lost = {} /\ repeated = {} /\ online = {}
  /\ faults = 0 /\ crashes = 0

-----------------------------------------------------------------------------
(* Calls: how one begins and how it ends *)

Begin(c, step, f, rest, patience) ==
  /\ call[c] = Idle
  /\ call' = [call EXCEPT ![c] = [at |-> step, file |-> f, todo |-> rest, patient |-> patience]]

GoOn(c, step) == call' = [call EXCEPT ![c].at = step]

\* Variants: the record in hand is not let go; the handler throws when it is
\* done; only a success is answered.
Finish_keepsTask(ok) ==
  /\ topic' = topic \ {task} /\ handled' = handled \cup {task}
  /\ UNCHANGED <<task, told, purged>>
Finish_throws(ok) == task' = NoTask /\ UNCHANGED <<topic, handled, told, purged>>
Finish_ifOk(ok) ==
  /\ topic' = topic \ {task} /\ handled' = handled \cup {task}
  /\ task' = NoTask /\ purged' = purged \cup Elements(task.files)
  /\ told' = IF ok /\ task.user \in online
             THEN told \cup {task.id} ELSE told

\* The consumer's handler returns: the requester is told over the socket it is
\* registered with, if that is open, and the record is done.
Finish(ok) ==
  /\ topic' = topic \ {task}
  /\ handled' = handled \cup {task}
  /\ task' = NoTask
  /\ purged' = IF task.kind = "purge" THEN purged \cup Elements(task.files) ELSE purged
  /\ told' = IF task.kind # "purge" /\ task.user \in online
             THEN told \cup {task.id} ELSE told

\* Variant: the exception is caught outside the loop.
Ends_impatient(c, ok) ==
  LET k == call[c] IN
    IF k.todo # <<>> /\ ok
    THEN /\ call' = [call EXCEPT ![c] = [k EXCEPT !.at = "find", !.file = Head(k.todo),
                                                  !.todo = Tail(k.todo)]]
         /\ UNCHANGED <<topic, handled, task, told, purged>>
    ELSE /\ call' = [call EXCEPT ![c] = Idle]
         /\ IF c = Consumer THEN Finish(ok) ELSE UNCHANGED <<topic, handled, task, told, purged>>

\* A step was the last of its file.  The loop goes on with the next file, after
\* an exception only where the exception is caught inside the loop.
Ends(c, ok) ==
  LET k == call[c] IN
    IF k.todo # <<>> /\ (ok \/ k.patient)
    THEN /\ call' = [call EXCEPT ![c] = [k EXCEPT !.at = "find", !.file = Head(k.todo),
                                                  !.todo = Tail(k.todo)]]
         /\ UNCHANGED <<topic, handled, task, told, purged>>
    ELSE /\ call' = [call EXCEPT ![c] = Idle]
         /\ IF c = Consumer THEN Finish(ok) ELSE UNCHANGED <<topic, handled, task, told, purged>>

\* What a failure or a restart leaves half done.
CutShort(cs) ==
  /\ cut' = cut \cup {call[c].file :
                       c \in {d \in cs : call[d].at \in {"put", "save", "find", "object"}}}
  /\ bare' = (bare \/ \E c \in cs : call[c].at \in {"create", "policy"})

-----------------------------------------------------------------------------
(* What the steps of UploadService do to MongoDB and S3 *)

contents == <<bucket, objects, docs, removed, made>>

Creates(c) == /\ call[c].at = "create" /\ bucket = "absent"
              /\ bucket' = "bare"
              /\ UNCHANGED <<objects, docs, removed, made>>

Publishes(c) == /\ call[c].at = "policy"
                /\ bucket' = "public"
                /\ UNCHANGED <<objects, docs, removed, made>>

Puts(c) == /\ call[c].at = "put"
           /\ objects' = objects \cup {call[c].file}
           /\ UNCHANGED <<bucket, docs, removed, made>>

Saves(c) == /\ call[c].at = "save"
            /\ docs' = docs \cup {call[c].file}
            /\ made' = IF c = Consumer THEN made \cup {<<task.id, call[c].file>>} ELSE made
            /\ UNCHANGED <<bucket, objects, removed>>

Forgets(c) == /\ call[c].at = "find" /\ call[c].file \in docs
              /\ docs' = docs \ {call[c].file}
              /\ removed' = removed \cup {call[c].file}
              /\ UNCHANGED <<bucket, objects, made>>

Discards(c) == /\ call[c].at = "object"
               /\ objects' = objects \ {call[c].file}
               /\ UNCHANGED <<bucket, docs, removed, made>>

-----------------------------------------------------------------------------
(* UploadService.upload *)

\* HTTP: POST upload/:bucket.
UploadOverHttp(c, f) ==
  /\ c # Consumer /\ f \notin used
  /\ Begin(c, "check", f, <<>>, FALSE)
  /\ used' = used \cup {f}
  /\ UNCHANGED <<contents, kafka, confirmed, purged, events>>

\* The consumer takes an upload.create record; whenever it does, the upload gets
\* a key of its own.
HandleUploadCreate(r, f) ==
  /\ task = NoTask /\ r \in topic /\ r.kind = "create"
  /\ f \notin used
  /\ Begin(Consumer, "check", f, <<>>, FALSE)
  /\ task' = r
  /\ used' = used \cup {f}
  /\ UNCHANGED <<contents, requests, outbox, topic, handled, told, confirmed, purged, events>>

\* Not Base64, no bucket name, or a type that is not among the allowed ones.
Rejected(c) ==
  /\ call[c].at = "check"
  /\ Ends(c, FALSE)
  /\ UNCHANGED <<contents, used, requests, outbox, confirmed, events>>

\* Variant: the document is created before the object.
Accepted_savesFirst(c) ==
  /\ call[c].at = "check"
  /\ GoOn(c, "head")
  /\ docs' = docs \cup {call[c].file}
  /\ UNCHANGED <<bucket, objects, removed, made, used, kafka, confirmed, purged, events>>

Accepted(c) ==
  /\ call[c].at = "check"
  /\ GoOn(c, "head")
  /\ UNCHANGED <<contents, used, kafka, confirmed, purged, events>>

HeadBucket(c) ==
  /\ call[c].at = "head"
  /\ GoOn(c, IF bucket = "absent" THEN "create" ELSE "put")
  /\ UNCHANGED <<contents, used, kafka, confirmed, purged, events>>

\* Variant: the new bucket gets no policy.
CreateBucket_only(c) ==
  /\ Creates(c)
  /\ GoOn(c, "put")
  /\ UNCHANGED <<used, kafka, confirmed, purged, events>>

CreateBucket(c) ==
  /\ Creates(c)
  /\ GoOn(c, "policy")
  /\ UNCHANGED <<used, kafka, confirmed, purged, events>>

\* Another call created it in the meantime: S3 refuses, or lets the owner do so.
BucketExists(c) ==
  /\ call[c].at = "create" /\ bucket # "absent"
  /\ \/ Ends(c, FALSE)
     \/ GoOn(c, "policy") /\ UNCHANGED <<topic, handled, task, told, purged>>
  /\ UNCHANGED <<contents, used, requests, outbox, confirmed, events>>

PutBucketPolicy(c) ==
  /\ Publishes(c)
  /\ GoOn(c, "put")
  /\ UNCHANGED <<used, kafka, confirmed, purged, events>>

PutObject(c) ==
  /\ Puts(c)
  /\ GoOn(c, "save")
  /\ UNCHANGED <<used, kafka, confirmed, purged, events>>

SaveDocument(c) ==
  /\ Saves(c)
  /\ Ends(c, TRUE)
  /\ UNCHANGED <<used, requests, outbox, confirmed, events>>

-----------------------------------------------------------------------------
(* UploadService.deleteFile *)

\* HTTP: DELETE upload/:id.
DeleteOverHttp(c, f) ==
  /\ c # Consumer /\ f \in used
  /\ Begin(c, "find", f, <<>>, FALSE)
  /\ UNCHANGED <<contents, used, kafka, confirmed, purged, events>>

\* The handlers of upload.delete, one file, and of upload.delete.process, whose
\* loop catches what deleteFile throws.
HandleUploadDelete(r) ==
  /\ task = NoTask /\ r \in topic /\ r.kind \in {"delete", "purge"}
  /\ Begin(Consumer, "find", Head(r.files), Tail(r.files), r.kind = "purge")
  /\ task' = r
  /\ UNCHANGED <<contents, used, requests, outbox, topic, handled, told, confirmed, purged, events>>

\* Variant: the object is left where it is.
FindByIdAndDelete_only(c) ==
  /\ Forgets(c)
  /\ Ends(c, TRUE)
  /\ UNCHANGED <<used, requests, outbox, confirmed, events>>

FindByIdAndDelete(c) ==
  /\ Forgets(c)
  /\ GoOn(c, "object")
  /\ UNCHANGED <<used, kafka, confirmed, purged, events>>

\* Variant: the object is deleted whether or not there is a document.
FileNotFound_carriesOn(c) ==
  /\ call[c].at = "find" /\ call[c].file \notin docs
  /\ GoOn(c, "object")
  /\ UNCHANGED <<contents, used, kafka, confirmed, purged, events>>

FileNotFound(c) ==
  /\ call[c].at = "find" /\ call[c].file \notin docs
  /\ Ends(c, FALSE)
  /\ UNCHANGED <<contents, used, requests, outbox, confirmed, events>>

DeleteObject(c) ==
  /\ Discards(c)
  /\ confirmed' = [confirmed EXCEPT ![call[c].file] = @ + 1]
  /\ Ends(c, TRUE)
  /\ UNCHANGED <<used, requests, outbox, events>>

\* MongoDB, S3 or the broker fails, at most MaxFaults times.
Fault == faults < MaxFaults /\ faults' = faults + 1

\* The step a call awaits throws, before or after it took effect.
StepFails(c) ==
  /\ call[c].at # "idle"
  /\ Fault
  /\ \/ Creates(c) \/ Publishes(c) \/ Puts(c) \/ Saves(c) \/ Forgets(c) \/ Discards(c)
     \/ UNCHANGED contents
  /\ CutShort({c})
  /\ Ends(c, FALSE)
  /\ UNCHANGED <<used, requests, outbox, confirmed, lost, repeated, online, crashes>>

-----------------------------------------------------------------------------
(* The users, the gateway, Kafka and the process *)

\* A socket of the user is registered while it is open, or stops being so.
ComesOnline(u) ==
  /\ u \notin online
  /\ online' = online \cup {u}
  /\ UNCHANGED <<contents, used, call, kafka, confirmed, purged, cut, bare, lost, repeated,
                 faults, crashes>>

GoesOffline(u) ==
  /\ u \in online
  /\ online' = online \ {u}
  /\ UNCHANGED <<contents, used, call, kafka, confirmed, purged, cut, bare, lost, repeated,
                 faults, crashes>>

Emit(kind, files, user) ==
  /\ requests < MaxRequests
  /\ requests' = requests + 1
  /\ outbox' = outbox \cup {[kind |-> kind, id |-> requests', files |-> files, user |-> user]}

\* createUpload and deleteUpload of the gateway check nothing; the requester is
\* whoever is registered with the socket.
CreateUpload(u) ==
  /\ Emit("create", <<>>, u)
  /\ UNCHANGED <<contents, used, call, topic, handled, task, told, confirmed, purged, events>>

DeleteUpload(u, f) ==
  /\ f \in used
  /\ Emit("delete", <<f>>, u)
  /\ UNCHANGED <<contents, used, call, topic, handled, task, told, confirmed, purged, events>>

\* Changing a message or deleting a chat gives files up.
EmitPurge(files) ==
  /\ Elements(files) \subseteq docs
  /\ Emit("purge", files, NoUser)
  /\ UNCHANGED <<contents, used, call, topic, handled, task, told, confirmed, purged, events>>

Publish(r) ==
  /\ r \in outbox
  /\ outbox' = outbox \ {r}
  /\ topic' = topic \cup {r}
  /\ UNCHANGED <<contents, used, call, requests, handled, task, told, confirmed, purged, events>>

\* The broker takes the record and the producer, who does not hear of it, sends it
\* once more: retries are on, idempotence is not.
PublishAgain(r) ==
  /\ r \in outbox
  /\ Fault
  /\ topic' = topic \cup {r}
  /\ repeated' = repeated \cup {r}
  /\ UNCHANGED <<contents, used, call, requests, outbox, handled, task, told, confirmed, purged,
                 cut, bare, lost, online, crashes>>

\* The broker rejects the emit; nobody looks at the result.
PublishFails(r) ==
  /\ r \in outbox
  /\ Fault
  /\ outbox' = outbox \ {r}
  /\ lost' = lost \cup {r}
  /\ UNCHANGED <<contents, used, call, requests, topic, handled, task, told, confirmed, purged,
                 cut, bare, repeated, online, crashes>>

Commit ==
  /\ handled # {}
  /\ handled' = {}
  /\ UNCHANGED <<contents, used, call, requests, outbox, topic, task, told, confirmed, purged,
                 events>>

\* What was handled and not committed is handed to the consumer again.
Redelivers ==
  /\ topic' = topic \cup handled
  /\ handled' = {}
  /\ repeated' = repeated \cup handled

\* The commit fails, or the consumer's session expires, and the group rebalances.
Rebalance ==
  /\ handled # {}
  /\ Fault
  /\ Redelivers
  /\ UNCHANGED <<contents, used, call, requests, outbox, task, told, confirmed, purged,
                 cut, bare, lost, online, crashes>>

Crash ==
  /\ crashes < MaxCrashes
  /\ crashes' = crashes + 1
  /\ CutShort(Calls)
  /\ call' = [c \in Calls |-> Idle]
  /\ lost' = lost \cup outbox
  /\ outbox' = {}
  /\ Redelivers
  /\ task' = NoTask
  /\ online' = {}
  /\ UNCHANGED <<contents, used, requests, told, confirmed, purged, faults>>

-----------------------------------------------------------------------------
UploadStep(c) ==
  \/ Rejected(c) \/ Accepted(c) \/ HeadBucket(c) \/ CreateBucket(c) \/ BucketExists(c)
  \/ PutBucketPolicy(c) \/ PutObject(c) \/ SaveDocument(c)
DeletionStep(c) == FindByIdAndDelete(c) \/ FileNotFound(c) \/ DeleteObject(c)

ConsumerStep ==
  \/ \E r \in topic : HandleUploadDelete(r) \/ \E f \in Files : HandleUploadCreate(r, f)
  \/ UploadStep(Consumer) \/ DeletionStep(Consumer)

GatewayStep ==
  \E u \in online \cup {NoUser} : CreateUpload(u) \/ \E f \in Files : DeleteUpload(u, f)

KafkaStep ==
  \/ \E r \in outbox : Publish(r) \/ PublishAgain(r) \/ PublishFails(r)
  \/ Commit \/ Rebalance

FilesNext ==
  \/ ConsumerStep
  \/ \E c \in HttpCalls : \/ UploadStep(c) \/ DeletionStep(c)
                          \/ \E f \in Files : UploadOverHttp(c, f) \/ DeleteOverHttp(c, f)
  \/ \E c \in Calls : StepFails(c)
  \/ GatewayStep
  \/ KafkaStep
  \/ \E u \in Users : ComesOnline(u) \/ GoesOffline(u)
  \/ Crash

Next == FilesNext \/ \E f, g \in docs : EmitPurge(IF f = g THEN <<f>> ELSE <<f, g>>)

Spec == Init /\ [][Next]_vars

\* The broker takes what is emitted, and what the consumer awaits is answered.
Fairness == WF_vars(\E r \in outbox : Publish(r)) /\ WF_vars(ConsumerStep)

LiveSpec == Spec /\ Fairness

-----------------------------------------------------------------------------
(* Properties *)

\* A document never points to an object that is not there: the order of the
\* steps of upload and of deleteFile, whatever runs at the same time, fails, or
\* is done again.
DocHasObject == docs \subseteq objects

\* An object without a document is being uploaded or deleted, or was when a step
\* failed or the process restarted; no overlap of calls leaves one behind.
OrphansAreCut == objects \ docs \subseteq At({"save", "object"}) \cup cut

\* "File deleted" is answered once for a file, however often its deletion is
\* asked for, and then its object is gone and does not come back.
DeletionConfirmed == \A f \in Files : /\ confirmed[f] <= 1
                                      /\ confirmed[f] = 1 => f \notin objects \cup docs

\* How far a file is: it has an object, a document, both, or has had a document.  A
\* document without its object is none of the steps a file may take.
Stage(f) ==
  CASE f \in docs \cap objects -> "whole"
    [] f \in docs \ objects -> "dangling"
    [] f \in objects \ docs -> IF f \in removed THEN "leaving" ELSE "arriving"
    [] OTHER -> IF f \in removed THEN "gone" ELSE "none"

Life == INSTANCE FileLife WITH life <- [f \in Files |-> Stage(f)]

\* Calls that overlap, fail or are cut short take a file through its life in this
\* order, one step of one file at a time, and none of the steps twice.
KeepsFileLife == Life!Spec

\* The handler of upload.delete.process gets to every file it is given, whatever
\* happened to the ones before.
PurgedAreGone == purged \cap docs \subseteq cut

\* The bucket is without its policy only while a call that found it absent is about
\* to set it, or if such a call was cut short.
BareBucketIsCut == bucket = "bare" => bare \/ \E c \in Calls : call[c].at = "policy"

\* An upload.create record makes two documents only if it came again: sent twice by
\* the producer, or handled before a restart, or a rebalance, and not committed.
CopiesNeedRedelivery ==
  \A i \in 1..MaxRequests : \A f, g \in Files :
    /\ f # g
    /\ <<i, f>> \in made /\ <<i, g>> \in made
    => \E r \in repeated : r.kind = "create" /\ r.id = i

\* Whoever asks for an upload or a deletion over the WebSocket, and is registered
\* with an open socket while the broker has the record, is sent an answer before
\* that socket is gone, whatever fails.  (Or the model has no identity left for an
\* upload.)
RequestsAreAnswered ==
  \A i \in 1..MaxRequests, u \in Users :
    LET asking(r) == r.id = i /\ r.user = u
    IN  (u \in online /\ \E r \in topic : asking(r))
          ~> \/ i \in told
             \/ u \notin online
             \/ used = Files /\ \E r \in topic : asking(r) /\ r.kind = "create"
=============================================================================
