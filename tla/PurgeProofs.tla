----------------------------- MODULE PurgeProofs -----------------------------
(***************************************************************************)
(* Proofs about what the bucket and the purges of files leave behind and   *)
(* about the documents one record makes, on top of the invariant of        *)
(* FilesProofs.                                                            *)
(***************************************************************************)
EXTENDS FilesProofs

-----------------------------------------------------------------------------
(* The bucket *)

\* A step of a call leaves the bucket without its policy only to set it next, or
\* when it is cut short.
LEMMA BucketStep ==
  ASSUME FInv, BareBucketIsCut, NEW c \in Calls, UploadStep(c) \/ DeletionStep(c) \/ StepFails(c)
  PROVE  BareBucketIsCut'
<1> USE DEF BareBucketIsCut, contents, events
<1>1. TypeOK /\ \A d \in Calls : call[d].at \in Steps
  BY DEF FInv, TypeOK
<1>2. Effect(c)
  BY UploadEffect, DeletionEffect, FailureEffect
<1>3. \A d \in Calls : d # c => call'[d] = call[d]
  BY <1>2 DEF Effect, Alone
<1>4. CASE StepFails(c)
  <2>1. bare => bare'
    BY <1>4 DEF StepFails, CutShort
  <2>2. call[c].at \in {"create", "policy"} => bare'
    BY <1>4 DEF StepFails, CutShort
  <2>3. bucket' = "bare" => bucket = "bare" \/ call[c].at = "create"
    BY <1>4 DEF StepFails, Creates, Publishes, Puts, Saves, Forgets, Discards
  <2> QED
    BY <1>3, <2>1, <2>2, <2>3
<1>5. CASE CreateBucket(c)
  <2>1. call'[c].at = "policy"
    BY <1>1, <1>5, GoOnCall DEF CreateBucket, Steps
  <2> QED
    BY <2>1
<1>6. CASE PutBucketPolicy(c)
  BY <1>6 DEF PutBucketPolicy, Publishes
<1>7. CASE call[c].at # "policy" /\ UNCHANGED <<bucket, bare>>
  BY <1>3, <1>7
<1> QED
  BY <1>4, <1>5, <1>6, <1>7
     DEF UploadStep, DeletionStep, Rejected, Accepted, HeadBucket, BucketExists, PutObject, Puts,
         SaveDocument, Saves, FindByIdAndDelete, Forgets, FileNotFound, DeleteObject, Discards

\* So does every step.
LEMMA BucketInvariant == FInv /\ BareBucketIsCut /\ [Next]_vars => BareBucketIsCut'
<1> SUFFICES ASSUME FInv, BareBucketIsCut, [Next]_vars PROVE BareBucketIsCut'
  OBVIOUS
<1>1. Consumer \in Calls /\ HttpCalls \subseteq Calls /\ call \in CallType
  BY DEF Calls, FInv, TypeOK, CallType
<1>2. ASSUME NEW c \in Calls, UploadStep(c) \/ DeletionStep(c) \/ StepFails(c)
      PROVE  BareBucketIsCut'
  BY <1>2, BucketStep
<1>3. ASSUME NEW c \in Calls, NEW step, NEW f, NEW rest, NEW patience,
             Begin(c, step, f, rest, patience), UNCHANGED <<bucket, bare>>
      PROVE  BareBucketIsCut'
  <2>1. call[c].at # "policy" /\ \A d \in Calls : d # c => call'[d] = call[d]
    BY <1>1, <1>3 DEF Begin, Idle, CallType
  <2> QED
    BY <1>3, <2>1 DEF BareBucketIsCut
<1>4. CASE UNCHANGED <<bucket, bare, call>>
  BY <1>4 DEF BareBucketIsCut
<1>5. CASE Crash
  BY <1>5 DEF Crash, CutShort, BareBucketIsCut, contents
<1>6. CASE ConsumerStep
  BY <1>1, <1>2, <1>3, <1>6
     DEF ConsumerStep, HandleUploadCreate, HandleUploadDelete, contents, events
<1>7. ASSUME NEW c \in HttpCalls, NEW f \in Files, UploadOverHttp(c, f) \/ DeleteOverHttp(c, f)
      PROVE  BareBucketIsCut'
  BY <1>1, <1>3, <1>7 DEF UploadOverHttp, DeleteOverHttp, contents, events
<1>8. CASE GatewayStep \/ KafkaStep \/ UNCHANGED vars
           \/ (\E u \in Users : ComesOnline(u) \/ GoesOffline(u))
           \/ \E f, g \in docs : EmitPurge(IF f = g THEN <<f>> ELSE <<f, g>>)
  BY <1>4, <1>8
     DEF GatewayStep, CreateUpload, DeleteUpload, KafkaStep, Publish, PublishAgain, PublishFails,
         Commit, Rebalance, ComesOnline, GoesOffline, vars, EmitPurge, contents, events
<1> QED
  BY <1>1, <1>2, <1>5, <1>6, <1>7, <1>8 DEF Next, FilesNext

\* Only a call that is cut short leaves the bucket without its policy.
THEOREM BareBucketsAreCut == Spec => []BareBucketIsCut
<1>1. Init => BareBucketIsCut
  BY DEF Init, BareBucketIsCut
<1> QED
  BY <1>1, BucketInvariant, FilesInvariant, PTL DEF Spec

-----------------------------------------------------------------------------
(* The purges *)

\* The files of a purge have been in use, so none of them is uploaded later.
PurgesInOrder ==
  \A r \in outbox \cup topic \cup handled :
    r.kind = "purge" => Elements(r.files) \subseteq docs \cup removed

\* The handler of a purge goes on after an exception, and every file it has left
\* behind is gone or was cut short; those before it have been in use.
HandlerInOrder ==
  LET k == call[Consumer] IN
    k.at # "idle" /\ task.kind = "purge" =>
      /\ k.patient /\ k.at \in {"find", "object"}
      /\ {k.file} \cup Elements(k.todo) \subseteq docs \cup removed
      /\ Elements(task.files) \subseteq {k.file} \cup Elements(k.todo) \cup removed \cup cut

\* So were all files of the purges that are done.
PurgedInOrder == purged \subseteq removed \cup cut

PInv == PurgesInOrder /\ HandlerInOrder /\ PurgedInOrder

\* What was used or deleted or cut short, remains so.
StoreAges == /\ removed \subseteq removed' /\ cut \subseteq cut'
             /\ docs \cup removed \subseteq docs' \cup removed'

\* Every step of a call lets the store age.
LEMMA EffectAges == ASSUME FInv, NEW c \in Calls, Effect(c) PROVE StoreAges
  BY DEF StoreAges, Effect, UploadBegins, DeletionBegins, GoesOn, ObjectIsPut, DocumentIsDeleted,
     IsSaved, IsConfirmed, IsRefused, Fails, store

\* A list is its first file and the others.
LEMMA FirstAndOthers ==
  ASSUME NEW S, NEW q \in Seq(S), q # <<>>
  PROVE  Elements(q) = {Head(q)} \cup Elements(Tail(q))
<1> DEFINE others == Tail(q)
<1>1. /\ DOMAIN q = 1..Len(q) /\ Len(q) \in Nat /\ Len(q) > 0
      /\ DOMAIN others = 1..(Len(q) - 1)
      /\ \A i \in 1..(Len(q) - 1) : others[i] = q[i + 1]
      /\ Head(q) = q[1]
  OBVIOUS
<1> HIDE DEF others
<1>2. ASSUME NEW i \in DOMAIN q PROVE q[i] \in {Head(q)} \cup Elements(others)
  <2>1. CASE i = 1
    BY <1>1, <2>1
  <2>2. CASE i # 1
    <3>1. i - 1 \in DOMAIN others /\ others[i - 1] = q[i]
      BY <1>1, <2>2
    <3> QED
      BY <3>1 DEF Elements
  <2> QED
    BY <2>1, <2>2
<1>3. ASSUME NEW i \in DOMAIN others PROVE others[i] \in Elements(q)
  <2>1. i + 1 \in DOMAIN q /\ others[i] = q[i + 1]
    BY <1>1
  <2> QED
    BY <2>1 DEF Elements
<1>4. Head(q) \in Elements(q)
  <2>1. 1 \in DOMAIN q
    BY <1>1
  <2> QED
    BY <1>1, <2>1 DEF Elements
<1>5. Elements(q) = {Head(q)} \cup Elements(others)
  BY <1>2, <1>3, <1>4 DEF Elements
<1> QED
  BY <1>5 DEF others

\* The handler of a purge is done with a file and goes on, or is done.
LEMMA PurgeGoesOn ==
  ASSUME FInv, PInv, call[Consumer].at # "idle", task.kind = "purge", StoreAges,
         NEW ok \in BOOLEAN, Ends(Consumer, ok), call[Consumer].file \in removed' \cup cut'
  PROVE  HandlerInOrder' /\ PurgedInOrder'
<1> DEFINE k == call[Consumer]
<1>1. /\ Consumer \in Calls /\ call \in CallType /\ k.todo \in Seq(Files) /\ k.patient
      /\ Elements(task.files) \subseteq {k.file} \cup Elements(k.todo) \cup removed \cup cut
      /\ {k.file} \cup Elements(k.todo) \subseteq docs \cup removed
  BY DEF Calls, FInv, TypeOK, CallType, PInv, HandlerInOrder
<1>2. CASE k.todo # <<>>
  <2>1. /\ call' = [call EXCEPT ![Consumer] = [k EXCEPT !.at = "find", !.file = Head(k.todo),
                                                       !.todo = Tail(k.todo)]]
        /\ UNCHANGED <<task, purged>>
    BY <1>1, <1>2 DEF Ends
  <2>2. /\ call'[Consumer].at = "find" /\ call'[Consumer].file = Head(k.todo)
        /\ call'[Consumer].todo = Tail(k.todo) /\ call'[Consumer].patient
    BY <1>1, <2>1 DEF CallType
  <2>3. Elements(k.todo) = {Head(k.todo)} \cup Elements(Tail(k.todo))
    BY <1>1, <1>2, FirstAndOthers
  <2> QED
    BY <1>1, <2>1, <2>2, <2>3 DEF PInv, HandlerInOrder, PurgedInOrder, StoreAges
<1>3. CASE k.todo = <<>>
  <2>1. call'[Consumer] = Idle /\ Finish(ok)
    BY <1>1, <1>3 DEF Ends, CallType
  <2>2. purged' = purged \cup Elements(task.files) /\ call'[Consumer].at = "idle"
    BY <2>1 DEF Finish, Idle
  <2>3. Elements(k.todo) = {}
    BY <1>3 DEF Elements
  <2> QED
    BY <1>1, <2>2, <2>3 DEF PInv, HandlerInOrder, PurgedInOrder, StoreAges
<1> QED
  BY <1>2, <1>3

\* The steps of the handler of a purge.
LEMMA PurgeStep ==
  ASSUME FInv, PInv, call[Consumer].at # "idle", task.kind = "purge", StoreAges,
         UploadStep(Consumer) \/ DeletionStep(Consumer) \/ StepFails(Consumer)
  PROVE  HandlerInOrder' /\ PurgedInOrder'
<1> USE DEF contents, events, kafka
<1>1. /\ Consumer \in Calls /\ TypeOK /\ call \in CallType
      /\ call[Consumer].at \in {"find", "object"} /\ call[Consumer].patient
      /\ Elements(task.files) \subseteq {call[Consumer].file} \cup Elements(call[Consumer].todo)
                                          \cup removed \cup cut
      /\ {call[Consumer].file} \cup Elements(call[Consumer].todo) \subseteq docs \cup removed
      /\ call[Consumer].file \in used
  BY DEF Calls, FInv, TypeOK, CallType, PInv, HandlerInOrder, CallsInOrder
<1>2. ~ UploadStep(Consumer)
  BY <1>1 DEF UploadStep, Rejected, Accepted, HeadBucket, CreateBucket, Creates, BucketExists,
     PutBucketPolicy, Publishes, PutObject, Puts, SaveDocument, Saves
<1>3. CASE FindByIdAndDelete(Consumer)
  <2>1. /\ call'[Consumer].at = "object" /\ call'[Consumer].file = call[Consumer].file
        /\ call'[Consumer].todo = call[Consumer].todo
        /\ call'[Consumer].patient = call[Consumer].patient
    BY <1>1, <1>3 DEF FindByIdAndDelete, GoOn, CallType
  <2>2. UNCHANGED <<task, purged>>
    BY <1>3 DEF FindByIdAndDelete
  <2> QED
    BY <1>1, <2>1, <2>2 DEF PInv, HandlerInOrder, PurgedInOrder, StoreAges
<1>4. CASE FileNotFound(Consumer)
  <2>1. call[Consumer].file \in removed' \cup cut' /\ Ends(Consumer, FALSE)
    BY <1>1, <1>4 DEF FileNotFound, StoreAges
  <2> QED
    BY <2>1, PurgeGoesOn
<1>5. CASE DeleteObject(Consumer)
  <2>1. call[Consumer].file \in removed
    BY <1>1, <1>5 DEF DeleteObject, Discards, FInv, DeletionsOwn
  <2>2. call[Consumer].file \in removed' \cup cut' /\ Ends(Consumer, TRUE)
    BY <1>5, <2>1 DEF DeleteObject, StoreAges
  <2> QED
    BY <2>2, PurgeGoesOn
<1>6. CASE StepFails(Consumer)
  <2>1. call[Consumer].file \in cut' /\ Ends(Consumer, FALSE)
    BY <1>1, <1>6 DEF StepFails, CutShort
  <2> QED
    BY <2>1, PurgeGoesOn
<1> QED
  BY <1>2, <1>3, <1>4, <1>5, <1>6 DEF DeletionStep

\* A call that is under way keeps the purges in order.
LEMMA CallPurges ==
  ASSUME FInv, PInv, NEW c \in Calls, UploadStep(c) \/ DeletionStep(c) \/ StepFails(c)
  PROVE  PInv'
<1> USE DEF contents, events, kafka
<1>1. call[c].at # "idle" /\ UNCHANGED outbox /\ TypeOK /\ call \in CallType /\ Consumer \in Calls
  BY DEF UploadStep, DeletionStep, StepFails, Rejected, Accepted, HeadBucket, CreateBucket, Creates,
     BucketExists, PutBucketPolicy, Publishes, PutObject, Puts, SaveDocument, Saves,
     FindByIdAndDelete, Forgets, FileNotFound, DeleteObject, Discards, FInv, TypeOK, CallType, Calls
<1>2. Effect(c) /\ StoreAges
  BY UploadEffect, DeletionEffect, FailureEffect, EffectAges
<1>3. \/ \E ok \in BOOLEAN : Ends(c, ok)
      \/ UNCHANGED <<topic, handled, task, told, purged>>
  BY DEF UploadStep, DeletionStep, StepFails, Rejected, Accepted, HeadBucket, CreateBucket,
     BucketExists, PutBucketPolicy, PutObject, SaveDocument,
     FindByIdAndDelete, FileNotFound, DeleteObject
<1>4. \/ UNCHANGED <<topic, handled, task, purged>>
      \/ c = Consumer /\ \E ok \in BOOLEAN : Finish(ok) /\ call'[c] = Idle
  BY <1>1, <1>3 DEF Ends, CallType
<1>5. PurgesInOrder'
  <2>1. task \in topic \/ c # Consumer
    BY <1>1 DEF FInv, ConsumerInOrder
  <2>2. topic' \subseteq topic /\ handled' \subseteq handled \cup topic
    BY <1>4, <2>1 DEF Finish
  <2> QED
    BY <1>1, <1>2, <2>2 DEF PInv, PurgesInOrder, StoreAges
<1>6. CASE c # Consumer
  <2>1. call'[Consumer] = call[Consumer] /\ UNCHANGED <<task, purged>>
    BY <1>1, <1>2, <1>4, <1>6 DEF Effect, Alone
  <2> QED
    BY <1>2, <1>5, <2>1 DEF PInv, HandlerInOrder, PurgedInOrder, StoreAges
<1>7. CASE c = Consumer /\ task.kind = "purge"
  BY <1>1, <1>2, <1>5, <1>7, PurgeStep DEF PInv
<1>8. CASE c = Consumer /\ task.kind # "purge"
  <2>1. purged' = purged /\ (task' = task \/ call'[Consumer].at = "idle")
    BY <1>4, <1>8 DEF Finish, Idle
  <2> QED
    BY <1>2, <1>5, <1>8, <2>1 DEF PInv, HandlerInOrder, PurgedInOrder, StoreAges
<1> QED
  BY <1>6, <1>7, <1>8

\* So does a call that begins.
LEMMA BeginningPurges ==
  ASSUME FInv, PInv, NEW c \in Calls, NEW f \in Files,
         \/ c # Consumer /\ (UploadOverHttp(c, f) \/ DeleteOverHttp(c, f))
         \/ c = Consumer /\ \E r \in topic : HandleUploadDelete(r) \/ HandleUploadCreate(r, f)
  PROVE  PInv'
<1> USE DEF contents, events, kafka
<1>1. /\ UNCHANGED <<docs, removed, cut, outbox, topic, handled, purged>>
      /\ Consumer \in Calls /\ call \in CallType
  BY DEF UploadOverHttp, DeleteOverHttp, HandleUploadDelete, HandleUploadCreate, Calls, FInv,
     TypeOK, CallType
<1>2. PurgesInOrder' /\ PurgedInOrder'
  BY <1>1 DEF PInv, PurgesInOrder, PurgedInOrder
<1>3. CASE c # Consumer
  <2>1. call'[Consumer] = call[Consumer] /\ task' = task
    BY <1>1, <1>3 DEF UploadOverHttp, DeleteOverHttp, Begin, CallType
  <2> QED
    BY <1>1, <1>2, <2>1 DEF PInv, HandlerInOrder
<1>4. ASSUME NEW r \in topic, HandleUploadCreate(r, f) PROVE PInv'
  <2>1. task'.kind # "purge"
    BY <1>4 DEF HandleUploadCreate
  <2> QED
    BY <1>2, <2>1 DEF PInv, HandlerInOrder
<1>5. ASSUME NEW r \in topic, HandleUploadDelete(r) PROVE PInv'
  <2>1. /\ task' = r /\ call'[Consumer].at = "find" /\ call'[Consumer].file = Head(r.files)
        /\ call'[Consumer].todo = Tail(r.files) /\ call'[Consumer].patient = (r.kind = "purge")
    BY <1>1, <1>5 DEF HandleUploadDelete, Begin, CallType
  <2>2. r.files \in Seq(used) /\ r.files # <<>>
    BY <1>5 DEF HandleUploadDelete, FInv, RecordsInOrder
  <2>3. Elements(r.files) = {Head(r.files)} \cup Elements(Tail(r.files))
    BY <2>2, FirstAndOthers
  <2>4. r.kind = "purge" => Elements(r.files) \subseteq docs \cup removed
    BY DEF PInv, PurgesInOrder
  <2> QED
    BY <1>1, <1>2, <2>1, <2>3, <2>4 DEF PInv, HandlerInOrder
<1> QED
  BY <1>3, <1>4, <1>5

\* So does a record that is emitted: what is purged has been in use.
LEMMA EmitPurges ==
  ASSUME PInv, NEW kind, NEW files, NEW user, Emit(kind, files, user), Quiet,
         UNCHANGED <<topic, handled>>,
         kind = "purge" => Elements(files) \subseteq docs \cup removed
  PROVE  PInv'
<1> USE DEF contents, Quiet
<1>1. HandlerInOrder' /\ PurgedInOrder'
  BY DEF PInv, HandlerInOrder, PurgedInOrder
<1>2. PurgesInOrder'
  BY DEF Emit, PInv, PurgesInOrder
<1> QED
  BY <1>1, <1>2 DEF PInv

\* So do the users, the gateway and Kafka.
LEMMA QuietPurges ==
  ASSUME FInv, PInv,
         \/ GatewayStep \/ KafkaStep \/ UNCHANGED vars
         \/ \E u \in Users : ComesOnline(u) \/ GoesOffline(u)
         \/ \E f, g \in docs : EmitPurge(IF f = g THEN <<f>> ELSE <<f, g>>)
  PROVE  PInv'
<1> USE DEF contents, events, kafka
<1>1. Quiet
  BY DEF GatewayStep, CreateUpload, DeleteUpload, KafkaStep, Publish, PublishAgain, PublishFails,
     Commit, Rebalance, ComesOnline, GoesOffline, vars, EmitPurge, Quiet
<1>2. ASSUME NEW u, CreateUpload(u) PROVE PInv'
  BY <1>1, <1>2, EmitPurges DEF CreateUpload
<1>3. ASSUME NEW u, NEW f \in Files, DeleteUpload(u, f) PROVE PInv'
  BY <1>1, <1>3, EmitPurges DEF DeleteUpload
<1>4. ASSUME NEW files, EmitPurge(files) PROVE PInv'
  BY <1>1, <1>4, EmitPurges DEF EmitPurge
<1>5. ASSUME \/ KafkaStep \/ UNCHANGED vars
             \/ \E u \in Users : ComesOnline(u) \/ GoesOffline(u)
      PROVE  PInv'
  <2>1. outbox' \cup topic' \cup handled' \subseteq outbox \cup topic \cup handled
    BY <1>5 DEF KafkaStep, Publish, PublishAgain, PublishFails, Commit, Rebalance, Redelivers,
       ComesOnline, GoesOffline, vars
  <2>2. PurgesInOrder'
    BY <1>1, <2>1 DEF Quiet, PInv, PurgesInOrder
  <2>3. HandlerInOrder' /\ PurgedInOrder'
    BY <1>1 DEF Quiet, PInv, HandlerInOrder, PurgedInOrder
  <2> QED
    BY <2>2, <2>3 DEF PInv
<1> QED
  BY <1>2, <1>3, <1>4, <1>5 DEF GatewayStep

\* So does a restart.
LEMMA CrashPurges == FInv /\ PInv /\ Crash => PInv'
<1> SUFFICES ASSUME FInv, PInv, Crash PROVE PInv'
  OBVIOUS
<1>1. /\ \A c \in Calls : call'[c] = Idle
      /\ UNCHANGED <<docs, removed, purged>> /\ cut \subseteq cut'
      /\ outbox' \cup topic' \cup handled' \subseteq outbox \cup topic \cup handled
  BY DEF Crash, Redelivers, CutShort, contents
<1>2. Consumer \in Calls /\ call'[Consumer].at = "idle"
  BY <1>1 DEF Idle, Calls
<1> QED
  BY <1>1, <1>2 DEF PInv, PurgesInOrder, HandlerInOrder, PurgedInOrder

\* Every step keeps the purges in order.
LEMMA StepPInv == FInv /\ PInv /\ [Next]_vars => PInv'
<1> SUFFICES ASSUME FInv, PInv, [Next]_vars PROVE PInv'
  OBVIOUS
<1>1. Consumer \in Calls /\ HttpCalls \subseteq Calls /\ Consumer \notin HttpCalls
  BY FilesAssumption DEF Calls
<1>2. CASE Crash
  BY <1>2, CrashPurges
<1>3. ASSUME NEW c \in Calls, UploadStep(c) \/ DeletionStep(c) \/ StepFails(c) PROVE PInv'
  BY <1>3, CallPurges
<1>4. ASSUME NEW r \in topic, HandleUploadDelete(r) PROVE \E f \in Files : TRUE
  BY <1>4 DEF HandleUploadDelete, FInv, RecordsInOrder, TypeOK
<1>5. CASE ConsumerStep
  BY <1>1, <1>3, <1>4, <1>5, BeginningPurges DEF ConsumerStep
<1>6. ASSUME NEW c \in HttpCalls, NEW f \in Files, UploadOverHttp(c, f) \/ DeleteOverHttp(c, f)
      PROVE  PInv'
  BY <1>1, <1>6, BeginningPurges
<1>7. CASE GatewayStep \/ KafkaStep \/ UNCHANGED vars
           \/ (\E u \in Users : ComesOnline(u) \/ GoesOffline(u))
           \/ \E f, g \in docs : EmitPurge(IF f = g THEN <<f>> ELSE <<f, g>>)
  BY <1>7, QuietPurges
<1> QED
  BY <1>1, <1>2, <1>3, <1>5, <1>6, <1>7 DEF Next, FilesNext

\* The handler of upload.delete.process gets to every file it is given.
THEOREM PurgesReachEveryFile == Spec => []PurgedAreGone
<1>1. Init => PInv
  <2> SUFFICES ASSUME Init PROVE PInv
    OBVIOUS
  <2> USE DEF Init
  <2>1. Consumer \in Calls
    BY DEF Calls
  <2>2. call[Consumer].at = "idle"
    BY <2>1 DEF Idle
  <2> QED
    BY <2>2 DEF PInv, PurgesInOrder, HandlerInOrder, PurgedInOrder
<1>2. FInv /\ PInv => PurgedAreGone
  BY DEF FInv, StoreInOrder, PInv, PurgedInOrder, PurgedAreGone
<1> QED
  BY <1>1, <1>2, StepPInv, FilesInvariant, PTL DEF Spec

-----------------------------------------------------------------------------
(* The documents made for a record *)

\* A record has a number of its own.  It is in one place, unless it came again; the
\* one in hand is still with the broker.
IdsInOrder ==
  /\ \A r \in outbox \cup topic \cup handled : r.id <= requests
  /\ \A r, q \in outbox \cup topic \cup handled : r.id = q.id => r = q
  /\ outbox \cap (topic \cup handled) \subseteq repeated
  /\ \A p \in made : p[1] <= requests

\* An upload is of one file, so it is over when the document is made; the consumer
\* makes one for a record of an upload.
UploadsSingly ==
  \A c \in Calls : call[c].at \in Uploading =>
    /\ call[c].todo = <<>>
    /\ c = Consumer => task.kind = "create"

\* Has the upload not come again?  Is it still to be carried out?
Once(i) == \A r \in repeated : r.kind = "create" => r.id # i
Waits(i) == \E r \in outbox \cup topic : r.kind = "create" /\ r.id = i

\* No document was made yet for an upload that waits, and one for one that is done.
MadeOnce(i) ==
  Once(i) => /\ Waits(i) => \A p \in made : p[1] # i
             /\ \A p, q \in made : p[1] = i /\ q[1] = i => p = q

CopyInv == IdsInOrder /\ UploadsSingly /\ \A i \in 1..MaxRequests : MadeOnce(i)

\* What the types say of the records.
LEMMA RecordTypes ==
  ASSUME FInv
  PROVE  /\ requests \in Nat
         /\ \A r \in outbox \cup topic \cup handled : r.id \in Nat
         /\ \A p \in made : p[1] \in Nat
  BY FilesAssumption DEF FInv, TypeOK, Record

\* A call makes a document for a record only when it is done with it.
LEMMA MakesWhenDone ==
  ASSUME FInv, UploadsSingly, NEW c \in Calls, UploadStep(c) \/ DeletionStep(c) \/ StepFails(c)
  PROVE  \/ made' = made
         \/ /\ c = Consumer /\ call[c].at = "save" /\ topic' = topic \ {task}
            /\ made' = made \cup {<<task.id, call[c].file>>}
<1> USE DEF contents
<1>1. CASE SaveDocument(c) \/ (StepFails(c) /\ Saves(c))
  <2>1. PICK ok \in BOOLEAN : Ends(c, ok)
    BY <1>1 DEF SaveDocument, StepFails
  <2>2. call[c].at = "save" /\ call[c].todo = <<>>
    BY <1>1 DEF SaveDocument, Saves, UploadsSingly, Uploading
  <2>3. c = Consumer => Finish(ok)
    BY <2>1, <2>2 DEF Ends
  <2> QED
    BY <1>1, <2>2, <2>3 DEF SaveDocument, Saves, Finish
<1>2. CASE StepFails(c) /\ ~ Saves(c)
  BY <1>2 DEF StepFails, Creates, Publishes, Puts, Forgets, Discards
<1>3. CASE (UploadStep(c) \/ DeletionStep(c)) /\ ~ SaveDocument(c)
  BY <1>3 DEF UploadStep, DeletionStep, Rejected, Accepted, HeadBucket, CreateBucket, Creates,
     BucketExists, PutBucketPolicy, Publishes, PutObject, Puts, FindByIdAndDelete, Forgets,
     FileNotFound, DeleteObject, Discards
<1> QED
  BY <1>1, <1>2, <1>3 DEF UploadStep

\* An upload stays in its place in the count as long as no document is made and it
\* does not wait anew without coming again; a new one has the number of no other.
LEMMA StaysOnce ==
  ASSUME FInv, IdsInOrder, NEW i \in 1..MaxRequests, MadeOnce(i), made' = made,
         repeated \subseteq repeated',
         (Once(i)' /\ Waits(i)' => Waits(i)) \/ i = requests + 1
  PROVE  MadeOnce(i)'
<1>1. Once(i)' => Once(i)
  BY DEF Once
<1>2. CASE Once(i)' /\ Waits(i)' => Waits(i)
  BY <1>1, <1>2 DEF MadeOnce
<1>3. CASE i = requests + 1
  <2>1. \A p \in made : p[1] \in Nat /\ p[1] <= requests /\ requests \in Nat
    BY RecordTypes DEF IdsInOrder
  <2>2. \A p \in made : p[1] # i
    BY <1>3, <2>1
  <2> QED
    BY <2>2 DEF MadeOnce
<1> QED
  BY <1>2, <1>3

\* A call that is under way.
LEMMA CallCopies ==
  ASSUME FInv, CopyInv, NEW c \in Calls, UploadStep(c) \/ DeletionStep(c) \/ StepFails(c)
  PROVE  CopyInv'
<1>1. /\ UNCHANGED <<requests, outbox, repeated>> /\ call[c].at # "idle"
  BY DEF UploadStep, DeletionStep, StepFails, Rejected, Accepted, HeadBucket, CreateBucket, Creates,
     BucketExists, PutBucketPolicy, Publishes, PutObject, Puts, SaveDocument, Saves,
     FindByIdAndDelete, Forgets, FileNotFound, DeleteObject, Discards, kafka, events
<1>2. \/ \E ok \in BOOLEAN : Ends(c, ok)
      \/ UNCHANGED <<topic, handled, task>>
  BY DEF UploadStep, DeletionStep, StepFails, Rejected, Accepted, HeadBucket, CreateBucket,
     BucketExists, PutBucketPolicy, PutObject, SaveDocument,
     FindByIdAndDelete, FileNotFound, DeleteObject, kafka
<1>3. /\ topic' \subseteq topic /\ handled' \subseteq handled \cup topic
      /\ task' = task \/ (c = Consumer /\ call'[c].at = "idle")
  BY <1>1, <1>2, EndsRecord
<1>4. /\ IdsInOrder /\ UploadsSingly
      /\ \/ made' = made
         \/ /\ c = Consumer /\ call[c].at = "save" /\ topic' = topic \ {task}
            /\ made' = made \cup {<<task.id, call[c].file>>}
  BY MakesWhenDone DEF CopyInv
<1>5. c = Consumer => task \in topic
  BY <1>1 DEF FInv, ConsumerInOrder
<1>6. IdsInOrder'
  BY <1>1, <1>3, <1>4, <1>5 DEF IdsInOrder
<1>7. UploadsSingly'
  <2>1. Effect(c)
    BY UploadEffect, DeletionEffect, FailureEffect
  <2>2. \A d \in Calls : d # c => call'[d] = call[d]
    BY <2>1 DEF Effect, Alone
  <2>3. call'[c].at \in Uploading => call'[c].todo = <<>> /\ call[c].at \in Uploading
    BY <1>1, <1>4, <2>1 DEF UploadsSingly, Effect, UploadBegins, DeletionBegins, GoesOn, ObjectIsPut,
       DocumentIsDeleted, Over, IsSaved, IsConfirmed, IsRefused, Fails, Uploading, Steps
  <2>4. call'[Consumer].at \in Uploading => task' = task /\ call[Consumer].at \in Uploading
    <3>1. CASE c = Consumer
      BY <1>3, <2>3, <3>1 DEF Uploading
    <3>2. CASE c # Consumer
      BY <1>3, <2>2, <3>2 DEF Calls
    <3> QED
      BY <3>1, <3>2
  <2> QED
    BY <1>4, <2>2, <2>3, <2>4 DEF UploadsSingly
<1>8. ASSUME NEW i \in 1..MaxRequests PROVE MadeOnce(i)'
  <2>1. MadeOnce(i) /\ (Waits(i)' => Waits(i))
    BY <1>1, <1>3 DEF CopyInv, Waits
  <2>2. CASE made' = made
    BY <1>1, <1>4, <2>1, <2>2, StaysOnce
  <2>3. CASE made' # made
    <3>1. /\ c = Consumer /\ topic' = topic \ {task} /\ task \in topic /\ task.kind = "create"
          /\ made' = made \cup {<<task.id, call[c].file>>}
      BY <1>4, <1>5, <2>3 DEF UploadsSingly, Uploading
    <3> SUFFICES ASSUME Once(i)' PROVE /\ Waits(i)' => \A p \in made' : p[1] # i
                                       /\ \A p, q \in made' : p[1] = i /\ q[1] = i => p = q
      BY DEF MadeOnce
    <3>2. Once(i)
      BY <1>1 DEF Once
    <3>3. CASE i = task.id
      <4>1. \A p \in made : p[1] # i
        BY <2>1, <3>1, <3>2, <3>3 DEF MadeOnce, Waits
      <4>2. ~ Waits(i)'
        <5>1. ASSUME NEW r \in outbox' \cup topic', r.kind = "create", r.id = i PROVE FALSE
          <6>1. r = task /\ r \in outbox
            BY <1>1, <1>4, <3>1, <3>3, <5>1 DEF IdsInOrder
          <6> QED
            BY <1>4, <3>1, <3>2, <5>1, <6>1 DEF IdsInOrder, Once
        <5> QED
          BY <5>1 DEF Waits
      <4> QED
        BY <3>1, <4>1, <4>2
    <3>4. CASE i # task.id
      <4>1. \A p \in made' : p[1] = i => p \in made
        BY <3>1, <3>4
      <4> QED
        BY <2>1, <3>2, <4>1 DEF MadeOnce
    <3> QED
      BY <3>3, <3>4
  <2> QED
    BY <2>2, <2>3
<1> QED
  BY <1>6, <1>7, <1>8 DEF CopyInv

\* A call that begins.
LEMMA BeginningCopies ==
  ASSUME FInv, CopyInv, NEW c \in Calls, NEW f \in Files,
         \/ c # Consumer /\ (UploadOverHttp(c, f) \/ DeleteOverHttp(c, f))
         \/ c = Consumer /\ \E r \in topic : HandleUploadDelete(r) \/ HandleUploadCreate(r, f)
  PROVE  CopyInv'
<1>1. UNCHANGED <<requests, outbox, topic, handled, made, repeated>>
  BY DEF UploadOverHttp, DeleteOverHttp, HandleUploadDelete, HandleUploadCreate, contents, kafka,
     events
<1>2. IdsInOrder' /\ \A i \in 1..MaxRequests : MadeOnce(i)'
  BY <1>1 DEF CopyInv, IdsInOrder, MadeOnce, Once, Waits
<1>3. UploadsSingly'
  <2>1. \A d \in Calls : d # c => call'[d] = call[d]
    BY BeginningEffect DEF Effect, Alone
  <2>2. c # Consumer => task' = task
    BY DEF UploadOverHttp, DeleteOverHttp, kafka
  <2>3. call'[c].at \in Uploading => call'[c].todo = <<>> /\ (c = Consumer => task'.kind = "create")
    <3>1. call \in CallType
      BY DEF FInv, TypeOK, CallType
    <3> QED
      BY <3>1 DEF UploadOverHttp, DeleteOverHttp, HandleUploadDelete, HandleUploadCreate, Begin,
         CallType, Uploading
  <2> QED
    BY <2>1, <2>2, <2>3 DEF CopyInv, UploadsSingly
<1> QED
  BY <1>2, <1>3 DEF CopyInv

\* A record is emitted.
LEMMA EmitCopies ==
  ASSUME FInv, CopyInv, NEW kind, NEW files, NEW user, Emit(kind, files, user),
         UNCHANGED <<topic, handled, task, made, call, repeated>>
  PROVE  CopyInv'
<1>1. PICK r : /\ outbox' = outbox \cup {r} /\ r.id = requests'
               /\ requests' = requests + 1 /\ requests \in Nat
  <2> DEFINE r == [kind |-> kind, id |-> requests', files |-> files, user |-> user]
  <2>1. outbox' = outbox \cup {r} /\ r.id = requests'
    BY DEF Emit
  <2>2. requests' = requests + 1 /\ requests \in Nat
    BY FilesAssumption DEF Emit, FInv, TypeOK
  <2> QED
    BY <2>1, <2>2
<1>2. /\ \A s \in outbox \cup topic \cup handled :
           s.id \in Nat /\ s.id <= requests /\ s.id <= requests' /\ s.id # r.id
      /\ \A p \in made : p[1] <= requests'
      /\ r.id <= requests'
  BY <1>1, RecordTypes DEF CopyInv, IdsInOrder
<1>3. IdsInOrder'
  BY <1>1, <1>2 DEF CopyInv, IdsInOrder
<1>4. UploadsSingly'
  BY DEF CopyInv, UploadsSingly
<1>5. ASSUME NEW i \in 1..MaxRequests PROVE MadeOnce(i)'
  <2>1. i # requests + 1 => (Waits(i)' => Waits(i))
    BY <1>1 DEF Waits
  <2> QED
    BY <2>1, StaysOnce DEF CopyInv
<1> QED
  BY <1>3, <1>4, <1>5 DEF CopyInv

\* Kafka and a restart move the records, and those they hand over again have come
\* again.
LEMMA KafkaCopies ==
  ASSUME FInv, CopyInv,
         \/ KafkaStep \/ Crash \/ UNCHANGED vars
         \/ \E u \in Users : ComesOnline(u) \/ GoesOffline(u)
  PROVE  CopyInv'
<1>1. /\ UNCHANGED <<requests, made>> /\ repeated \subseteq repeated'
      /\ UNCHANGED <<call, task>> \/ call' = [c \in Calls |-> Idle]
      /\ outbox' \subseteq outbox
      /\ topic' \cup handled' \subseteq outbox \cup topic \cup handled
      /\ \A r \in topic' \cup handled' : r \in topic \cup handled \/ r \notin outbox' \/ r \in repeated'
      /\ \A r \in topic' : r \in outbox \cup topic \/ r \in repeated'
  BY DEF KafkaStep, Publish, PublishAgain, PublishFails, Commit, Rebalance, Redelivers, Crash,
     ComesOnline, GoesOffline, vars, kafka, contents, events
<1>2. IdsInOrder'
  <2>1. outbox' \cup topic' \cup handled' \subseteq outbox \cup topic \cup handled
    BY <1>1
  <2>2. outbox' \cap (topic' \cup handled') \subseteq repeated'
    BY <1>1 DEF CopyInv, IdsInOrder
  <2> QED
    BY <1>1, <2>1, <2>2 DEF CopyInv, IdsInOrder
<1>3. UploadsSingly'
  BY <1>1 DEF CopyInv, UploadsSingly, Idle, Uploading
<1>4. ASSUME NEW i \in 1..MaxRequests PROVE MadeOnce(i)'
  <2>1. Once(i)' /\ Waits(i)' => Waits(i)
    BY <1>1 DEF Once, Waits
  <2> QED
    BY <1>1, <2>1, StaysOnce DEF CopyInv
<1> QED
  BY <1>2, <1>3, <1>4 DEF CopyInv

\* Every step keeps the uploads carried out once.
LEMMA CopyStep == FInv /\ CopyInv /\ [Next]_vars => CopyInv'
<1> SUFFICES ASSUME FInv, CopyInv, [Next]_vars PROVE CopyInv'
  OBVIOUS
<1>1. Consumer \in Calls /\ HttpCalls \subseteq Calls /\ Consumer \notin HttpCalls
  BY FilesAssumption DEF Calls
<1>2. ASSUME NEW c \in Calls, UploadStep(c) \/ DeletionStep(c) \/ StepFails(c) PROVE CopyInv'
  BY <1>2, CallCopies
<1>3. ASSUME NEW c \in HttpCalls, NEW f \in Files, UploadOverHttp(c, f) \/ DeleteOverHttp(c, f)
      PROVE  CopyInv'
  BY <1>1, <1>3, BeginningCopies
<1>4. ASSUME NEW r \in topic, HandleUploadDelete(r) PROVE \E f \in Files : TRUE
  BY <1>4 DEF HandleUploadDelete, FInv, RecordsInOrder, TypeOK
<1>5. CASE ConsumerStep
  BY <1>1, <1>2, <1>4, <1>5, BeginningCopies DEF ConsumerStep
<1>6. CASE GatewayStep \/ \E f, g \in docs : EmitPurge(IF f = g THEN <<f>> ELSE <<f, g>>)
  BY <1>6, EmitCopies DEF GatewayStep, CreateUpload, DeleteUpload, EmitPurge, contents, events
<1> QED
  BY <1>1, <1>2, <1>3, <1>5, <1>6, KafkaCopies DEF Next, FilesNext

\* An upload makes two documents only if its record comes again: no order of steps,
\* exceptions, restarts and calls at the same time does it otherwise.
THEOREM CopiesComeOfRedelivery == Spec => []CopiesNeedRedelivery
<1>1. Init => CopyInv
  <2> SUFFICES ASSUME Init PROVE CopyInv
    OBVIOUS
  <2> USE DEF Init
  <2>1. UploadsSingly
    BY DEF UploadsSingly, Idle, Uploading
  <2>2. IdsInOrder /\ \A i \in 1..MaxRequests : MadeOnce(i)
    BY DEF IdsInOrder, MadeOnce
  <2> QED
    BY <2>1, <2>2 DEF CopyInv
<1>2. CopyInv => CopiesNeedRedelivery
  <2> SUFFICES ASSUME CopyInv, NEW i \in 1..MaxRequests, NEW f \in Files, NEW g \in Files,
                      f # g, <<i, f>> \in made, <<i, g>> \in made
               PROVE  \E r \in repeated : r.kind = "create" /\ r.id = i
    BY DEF CopiesNeedRedelivery
  <2>1. <<i, f>> # <<i, g>> /\ <<i, f>>[1] = i /\ <<i, g>>[1] = i
    OBVIOUS
  <2>2. ~ Once(i)
    BY <2>1 DEF CopyInv, MadeOnce
  <2> QED
    BY <2>2 DEF Once
<1> QED
  BY <1>1, <1>2, CopyStep, FilesInvariant, PTL DEF Spec
=============================================================================
