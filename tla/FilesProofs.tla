----------------------------- MODULE FilesProofs -----------------------------
(***************************************************************************)
(* Proofs about the files, for any number of files, calls at a time,       *)
(* records, failures and restarts.                                         *)
(***************************************************************************)
EXTENDS Files, TLAPS

Uploading == {"check", "head", "create", "policy", "put", "save"}

CallType == [Calls -> [at : Steps, file : Files \cup {NoFile}, todo : Seq(Files),
                       patient : BOOLEAN]]

-----------------------------------------------------------------------------
(* The inductive invariant *)

\* A call that is under way is at a file that was uploaded some time, and so are
\* the files it has still to do and those the records are about.
CallsInOrder ==
  \A c \in Calls : call[c].at # "idle" => call[c].file \in used /\ call[c].todo \in Seq(used)

RecordsInOrder ==
  \A r \in outbox \cup topic \cup handled :
    r.files \in Seq(used) /\ (r.kind # "create" => r.files # <<>>)

\* A handler under way has a record.
ConsumerInOrder == call[Consumer].at # "idle" => task \in topic

\* An upload has its file to itself: it has no document yet, and never had one.
UploadsOwn ==
  \A c \in Calls : call[c].at \in Uploading =>
    /\ call[c].file \notin docs \cup removed
    /\ \A d \in Calls : call[d].at \in Uploading /\ call[d].file = call[c].file => d = c
    /\ call[c].at = "save" => call[c].file \in objects

\* So has a deletion that took the document: the object is there, and nobody
\* confirmed it yet.
DeletionsOwn ==
  \A c \in Calls : call[c].at = "object" =>
    /\ call[c].file \in removed \cap objects /\ confirmed[call[c].file] = 0
    /\ \A d \in Calls : call[d].at = "object" /\ call[d].file = call[c].file => d = c

\* A file has its document once; what was confirmed is gone.
StoreInOrder ==
  /\ docs \cap removed = {}
  /\ \A f \in Files : /\ confirmed[f] \in {0, 1}
                      /\ confirmed[f] = 1 => f \in removed \ objects

FInv == /\ TypeOK /\ CallsInOrder /\ RecordsInOrder /\ ConsumerInOrder
        /\ UploadsOwn /\ DeletionsOwn /\ StoreInOrder
        /\ DocHasObject /\ OrphansAreCut

\* The initial state satisfies it.
LEMMA InitFInv == Init => FInv
<1> SUFFICES ASSUME Init PROVE FInv
  OBVIOUS
<1> USE FilesAssumption DEF Init
<1>1. \A c \in Calls : call[c] = Idle /\ Idle.at = "idle"
  BY DEF Idle
<1>2. Idle \in [at : Steps, file : Files \cup {NoFile}, todo : Seq(Files), patient : BOOLEAN]
  BY DEF Idle, Steps
<1>3. TypeOK
  <2>1. call \in CallType /\ confirmed \in [Files -> Nat]
    BY <1>2 DEF CallType
  <2>2. 0 \in 0..MaxRequests /\ 0 \in 0..MaxFaults /\ 0 \in 0..MaxCrashes
    OBVIOUS
  <2> QED
    BY <2>1, <2>2 DEF TypeOK, CallType
<1>4. Consumer \in Calls
  BY DEF Calls
<1> QED
  BY <1>1, <1>3, <1>4 DEF FInv, CallsInOrder, RecordsInOrder, ConsumerInOrder, UploadsOwn,
     DeletionsOwn, StoreInOrder, DocHasObject, OrphansAreCut, Uploading

-----------------------------------------------------------------------------
(* How a call changes *)

\* The other calls stay as they are.
Alone(c) == call' \in CallType /\ \A d \in Calls : d # c => call'[d] = call[d]

\* Sequences of the files used so far remain so.
LEMMA SeqGrows ==
  ASSUME NEW S, NEW T, S \subseteq T, NEW q \in Seq(S)
  PROVE  q \in Seq(T)
  OBVIOUS

\* A call goes on with its file.
LEMMA GoOnCall ==
  ASSUME TypeOK, NEW c \in Calls, NEW step \in Steps, GoOn(c, step)
  PROVE  /\ Alone(c)
         /\ call'[c].at = step /\ call'[c].file = call[c].file /\ call'[c].todo = call[c].todo
  BY DEF GoOn, Alone, TypeOK, CallType

\* A call begins.
LEMMA BeginCall ==
  ASSUME TypeOK, NEW c \in Calls, NEW step \in Steps, NEW f \in Files, NEW rest \in Seq(Files),
         NEW patience \in BOOLEAN, Begin(c, step, f, rest, patience)
  PROVE  /\ Alone(c) /\ call[c].at = "idle"
         /\ call'[c].at = step /\ call'[c].file = f /\ call'[c].todo = rest
  BY DEF Begin, Idle, Alone, TypeOK, CallType

\* A call comes to its end, or goes on with the next file of its list.
LEMMA EndsCall ==
  ASSUME FInv, NEW c \in Calls, call[c].at # "idle", NEW ok \in BOOLEAN, Ends(c, ok)
  PROVE  /\ Alone(c) /\ call'[c].at \in {"idle", "find"}
         /\ call'[c].at # "idle" => call'[c].file \in used /\ call'[c].todo \in Seq(used)
         /\ call'[c].at = "idle" => call'[c] = Idle
<1>1. /\ call[c].todo \in Seq(used) /\ call \in CallType /\ used \subseteq Files
      /\ call[c].todo \in Seq(Files) /\ call[c].patient \in BOOLEAN
  BY DEF FInv, CallsInOrder, TypeOK, CallType
<1>2. CASE call[c].todo # <<>> /\ (ok \/ call[c].patient)
  <2>1. Head(call[c].todo) \in used /\ Tail(call[c].todo) \in Seq(used)
        /\ Tail(call[c].todo) \in Seq(Files)
    BY <1>1, <1>2
  <2>2. call' = [call EXCEPT ![c] = [call[c] EXCEPT !.at = "find", !.file = Head(call[c].todo),
                                                    !.todo = Tail(call[c].todo)]]
    BY <1>2 DEF Ends
  <2> QED
    BY <1>1, <2>1, <2>2 DEF Alone, CallType, Steps
<1>3. CASE ~ (call[c].todo # <<>> /\ (ok \/ call[c].patient))
  <2>1. call' = [call EXCEPT ![c] = Idle]
    BY <1>3 DEF Ends
  <2>2. Idle \in [at : Steps, file : Files \cup {NoFile}, todo : Seq(Files), patient : BOOLEAN]
        /\ Idle.at = "idle"
    BY DEF Idle, Steps
  <2> QED
    BY <1>1, <2>1, <2>2 DEF Alone, CallType
<1> QED
  BY <1>2, <1>3

\* What becomes of the record in hand.
LEMMA EndsRecord ==
  ASSUME FInv, NEW c \in Calls, call[c].at # "idle", NEW ok \in BOOLEAN, Ends(c, ok)
  PROVE  /\ topic' \subseteq topic /\ handled' \subseteq handled \cup topic
         /\ task' \in topic' \cup {NoTask}
         /\ c # Consumer => topic' = topic /\ task' = task
         /\ c = Consumer /\ call'[c].at # "idle" => topic' = topic /\ task' = task
         /\ told' \subseteq 1..MaxRequests
         /\ purged' \subseteq used
<1>1. call[c].file \in Files /\ used \subseteq Files
  BY DEF FInv, CallsInOrder, TypeOK
<1>2. CASE UNCHANGED <<topic, handled, task, told, purged>>
  BY <1>2 DEF FInv, TypeOK
<1>3. ASSUME c = Consumer, Finish(ok), call'[c] = Idle
      PROVE  /\ topic' = topic \ {task} /\ handled' = handled \cup {task} /\ task' = NoTask
             /\ task \in topic
             /\ told' \subseteq 1..MaxRequests
             /\ purged' \subseteq used
  <2>1. task \in topic
    BY <1>3 DEF FInv, ConsumerInOrder
  <2>2. task \in Record /\ task.files \in Seq(used)
    BY <2>1 DEF FInv, TypeOK, RecordsInOrder
  <2>3. task.id \in 1..MaxRequests /\ Elements(task.files) \subseteq used
    BY <2>2 DEF Record, Elements
  <2> QED
    BY <1>1, <1>3, <2>1, <2>3 DEF Finish, FInv, TypeOK
<1>4. \/ UNCHANGED <<topic, handled, task, told, purged>>
      \/ c = Consumer /\ Finish(ok) /\ call'[c] = Idle
  <2>1. call \in CallType
    BY DEF FInv, TypeOK, CallType
  <2> QED
    BY <2>1 DEF Ends, CallType
<1>5. Idle.at = "idle"
  BY DEF Idle
<1> QED
  BY <1>2, <1>3, <1>4, <1>5

-----------------------------------------------------------------------------
(* What a step does to the store *)

store == <<objects, docs, removed>>

UploadBegins(c) ==
  /\ call[c].at = "idle" /\ call'[c].at = "check" /\ call'[c].file \notin used
  /\ call'[c].file \in Files /\ call'[c].todo = <<>>
  /\ used' = used \cup {call'[c].file}
  /\ UNCHANGED <<store, confirmed, cut>>

DeletionBegins(c) ==
  /\ call[c].at = "idle" /\ call'[c].at = "find"
  /\ call'[c].file \in used /\ call'[c].todo \in Seq(used)
  /\ UNCHANGED <<store, confirmed, cut, used>>

GoesOn(c) ==
  /\ call[c].at \in Uploading \ {"save"} /\ call'[c].at \in Uploading \ {"check", "save"}
  /\ UNCHANGED <<store, confirmed, cut, used>>

ObjectIsPut(c) ==
  /\ call[c].at = "put" /\ call'[c].at = "save"
  /\ objects' = objects \cup {call[c].file}
  /\ UNCHANGED <<docs, removed, confirmed, cut, used>>

DocumentIsDeleted(c) ==
  /\ call[c].at = "find" /\ call'[c].at = "object" /\ call[c].file \in docs
  /\ docs' = docs \ {call[c].file} /\ removed' = removed \cup {call[c].file}
  /\ UNCHANGED <<objects, confirmed, cut, used>>

\* The call is over, or at the next file of its list.
Over(c) == /\ call[c].at # "idle" /\ call'[c].at \in {"idle", "find"}
           /\ call'[c].at # "idle" => call'[c].file \in used /\ call'[c].todo \in Seq(used)
           /\ UNCHANGED used

IsSaved(c) ==
  /\ Over(c) /\ call[c].at = "save"
  /\ docs' = docs \cup {call[c].file}
  /\ UNCHANGED <<objects, removed, confirmed, cut>>

IsConfirmed(c) ==
  /\ Over(c) /\ call[c].at = "object"
  /\ objects' = objects \ {call[c].file}
  /\ confirmed' = [confirmed EXCEPT ![call[c].file] = @ + 1]
  /\ UNCHANGED <<docs, removed, cut>>

IsRefused(c) ==
  /\ Over(c) /\ call[c].at \notin {"save", "object"}
  /\ UNCHANGED <<store, confirmed, cut>>

Fails(c) ==
  /\ Over(c)
  /\ \/ call[c].at = "put" /\ objects' = objects \cup {call[c].file} /\ UNCHANGED <<docs, removed>>
     \/ call[c].at = "save" /\ docs' = docs \cup {call[c].file} /\ UNCHANGED <<objects, removed>>
     \/ /\ call[c].at = "find" /\ call[c].file \in docs
        /\ docs' = docs \ {call[c].file} /\ removed' = removed \cup {call[c].file}
        /\ UNCHANGED objects
     \/ call[c].at = "object" /\ objects' = objects \ {call[c].file} /\ UNCHANGED <<docs, removed>>
     \/ UNCHANGED store
  /\ cut \subseteq cut' /\ cut' \subseteq used
  /\ call[c].at \in {"put", "save", "find", "object"} => call[c].file \in cut'
  /\ UNCHANGED confirmed

Effect(c) ==
  /\ Alone(c)
  /\ \/ UploadBegins(c) \/ DeletionBegins(c) \/ GoesOn(c) \/ ObjectIsPut(c) \/ DocumentIsDeleted(c)
     \/ IsSaved(c) \/ IsConfirmed(c) \/ IsRefused(c) \/ Fails(c)
  /\ call'[c].at \in Steps \ {"idle", "check", "find"}
       => call'[c].file = call[c].file /\ call'[c].todo = call[c].todo

\* A step of upload has one of these effects.
LEMMA UploadEffect ==
  ASSUME FInv, NEW c \in Calls, UploadStep(c)
  PROVE  Effect(c)
<1> USE DEF store, contents, Over, Uploading, events
<1>1. TypeOK
  BY DEF FInv
<1>2. ASSUME NEW step \in Steps, GoOn(c, step)
      PROVE  /\ Alone(c) /\ call'[c].at = step /\ call'[c].file = call[c].file
             /\ call'[c].todo = call[c].todo
  BY <1>1, <1>2, GoOnCall
<1>3. ASSUME NEW ok \in BOOLEAN, Ends(c, ok), call[c].at # "idle", UNCHANGED used
      PROVE  Alone(c) /\ Over(c)
  BY <1>3, EndsCall
<1>4. CASE Rejected(c)
  BY <1>4, <1>3 DEF Rejected, Effect, IsRefused
<1>5. CASE Accepted(c)
  BY <1>5, <1>2 DEF Accepted, Effect, GoesOn, Steps
<1>6. CASE HeadBucket(c)
  BY <1>6, <1>2 DEF HeadBucket, Effect, GoesOn, Steps
<1>7. CASE CreateBucket(c)
  BY <1>7, <1>2 DEF CreateBucket, Creates, Effect, GoesOn, Steps
<1>8. CASE BucketExists(c)
  BY <1>8, <1>2, <1>3 DEF BucketExists, Effect, GoesOn, IsRefused, Steps
<1>9. CASE PutBucketPolicy(c)
  BY <1>9, <1>2 DEF PutBucketPolicy, Publishes, Effect, GoesOn, Steps
<1>10. CASE PutObject(c)
  BY <1>10, <1>2 DEF PutObject, Puts, Effect, ObjectIsPut, Steps
<1>11. CASE SaveDocument(c)
  BY <1>11, <1>3 DEF SaveDocument, Saves, Effect, IsSaved
<1> QED
  BY <1>4, <1>5, <1>6, <1>7, <1>8, <1>9, <1>10, <1>11 DEF UploadStep, Effect, Rejected, Accepted,
     HeadBucket, CreateBucket, Creates, BucketExists, PutBucketPolicy, Publishes, PutObject, Puts,
     SaveDocument, Saves

\* So has a step of deleteFile.
LEMMA DeletionEffect ==
  ASSUME FInv, NEW c \in Calls, DeletionStep(c)
  PROVE  Effect(c)
<1> USE DEF store, contents, Over, events
<1>1. TypeOK
  BY DEF FInv
<1>2. CASE FindByIdAndDelete(c)
  BY <1>1, <1>2, GoOnCall DEF FindByIdAndDelete, Forgets, Effect, DocumentIsDeleted, Steps
<1>3. CASE FileNotFound(c)
  BY <1>3, EndsCall DEF FileNotFound, Effect, IsRefused
<1>4. CASE DeleteObject(c)
  BY <1>4, EndsCall DEF DeleteObject, Discards, Effect, IsConfirmed
<1> QED
  BY <1>2, <1>3, <1>4 DEF DeletionStep

\* So has a step that throws.
LEMMA FailureEffect ==
  ASSUME FInv, NEW c \in Calls, StepFails(c)
  PROVE  Effect(c)
<1>1. call[c].at # "idle" /\ Ends(c, FALSE) /\ CutShort({c}) /\ UNCHANGED <<used, confirmed>>
  BY DEF StepFails
<1>2. Alone(c) /\ Over(c)
  BY <1>1, EndsCall DEF Over
<1>3. /\ cut \subseteq cut' /\ cut' \subseteq used
      /\ call[c].at \in {"put", "save", "find", "object"} => call[c].file \in cut'
  BY <1>1 DEF CutShort, FInv, TypeOK, CallsInOrder
<1> QED
  BY <1>1, <1>2, <1>3 DEF StepFails, Creates, Publishes, Puts, Saves, Forgets, Discards, contents,
     Effect, Fails, store, Over

\* So has the beginning of a deletion.
LEMMA DeletionBeginsEffect ==
  ASSUME FInv, NEW c \in Calls, NEW f \in used, NEW rest \in Seq(used), NEW patience \in BOOLEAN,
         Begin(c, "find", f, rest, patience), UNCHANGED <<store, confirmed, cut, used>>
  PROVE  Effect(c)
<1>1. TypeOK /\ used \subseteq Files
  BY DEF FInv, TypeOK
<1>2. f \in Files /\ rest \in Seq(Files) /\ "find" \in Steps
  BY <1>1, SeqGrows DEF Steps
<1> QED
  BY <1>1, <1>2, BeginCall DEF Effect, DeletionBegins

\* So has the beginning of every call.
LEMMA BeginningEffect ==
  ASSUME FInv, NEW c \in Calls, NEW f \in Files,
         \/ UploadOverHttp(c, f) \/ DeleteOverHttp(c, f)
         \/ c = Consumer /\ \E r \in topic : HandleUploadDelete(r) \/ HandleUploadCreate(r, f)
  PROVE  Effect(c)
<1> USE DEF store, contents, events
<1>1. TypeOK
  BY DEF FInv
<1>2. <<>> \in Seq(Files) /\ <<>> \in Seq(used) /\ "check" \in Steps
  BY DEF Steps
<1>3. ASSUME f \notin used, Begin(c, "check", f, <<>>, FALSE), used' = used \cup {f},
             UNCHANGED <<store, confirmed, cut>>
      PROVE  Effect(c)
  <2>1. /\ Alone(c) /\ call[c].at = "idle"
        /\ call'[c].at = "check" /\ call'[c].file = f /\ call'[c].todo = <<>>
    BY <1>1, <1>2, <1>3, BeginCall
  <2> QED
    BY <1>3, <2>1 DEF Effect, UploadBegins
<1>4. CASE UploadOverHttp(c, f)
  BY <1>3, <1>4 DEF UploadOverHttp
<1>5. CASE DeleteOverHttp(c, f)
  BY <1>2, <1>5, DeletionBeginsEffect DEF DeleteOverHttp
<1>6. ASSUME c = Consumer, NEW r \in topic, HandleUploadCreate(r, f) PROVE Effect(c)
  BY <1>3, <1>6 DEF HandleUploadCreate
<1>7. ASSUME c = Consumer, NEW r \in topic, HandleUploadDelete(r) PROVE Effect(c)
  <2>1. r.files \in Seq(used) /\ r.files # <<>>
    BY <1>7 DEF HandleUploadDelete, FInv, RecordsInOrder
  <2>2. Head(r.files) \in used /\ Tail(r.files) \in Seq(used)
    BY <2>1
  <2> QED
    BY <1>7, <2>2, DeletionBeginsEffect DEF HandleUploadDelete
<1> QED
  BY <1>4, <1>5, <1>6, <1>7

-----------------------------------------------------------------------------
(* What the effects leave as it should be *)

\* Files, objects and documents stay among those that were uploaded.
LEMMA EffectTypes ==
  ASSUME FInv, NEW c \in Calls, Effect(c)
  PROVE  /\ used \subseteq used' /\ used' \subseteq Files /\ call' \in CallType
         /\ objects' \subseteq used' /\ docs' \subseteq used' /\ removed' \subseteq used'
         /\ cut' \subseteq used' /\ confirmed' \in [Files -> Nat]
<1>1. /\ used \subseteq Files /\ objects \subseteq used /\ docs \subseteq used
      /\ removed \subseteq used /\ cut \subseteq used /\ confirmed \in [Files -> Nat]
  BY DEF FInv, TypeOK
<1>2. call[c].at # "idle" => call[c].file \in used
  BY DEF FInv, CallsInOrder
<1> QED
  BY <1>1, <1>2 DEF Effect, Alone, UploadBegins, DeletionBegins, GoesOn, ObjectIsPut,
     DocumentIsDeleted, IsSaved, IsConfirmed, IsRefused, Fails, Over, store, Uploading

\* Calls stay at files that were uploaded.
LEMMA EffectCalls == ASSUME FInv, NEW c \in Calls, Effect(c) PROVE CallsInOrder'
<1> SUFFICES ASSUME NEW d \in Calls, call'[d].at # "idle"
             PROVE  call'[d].file \in used' /\ call'[d].todo \in Seq(used')
  BY DEF CallsInOrder
<1>1. used \subseteq used'
  BY EffectTypes
<1>2. call[d].at # "idle" => call[d].file \in used /\ call[d].todo \in Seq(used)
  BY DEF FInv, CallsInOrder
<1>3. CASE call'[d].file \in used /\ call'[d].todo \in Seq(used)
  <2>1. call'[d].todo \in Seq(used')
    BY <1>1, <1>3, SeqGrows
  <2> QED
    BY <1>1, <1>3, <2>1
<1>4. CASE d # c
  BY <1>2, <1>3, <1>4 DEF Effect, Alone
<1>5. CASE d = c /\ UploadBegins(c)
  BY <1>5 DEF UploadBegins
<1>6. CASE d = c /\ ~ UploadBegins(c)
  BY <1>2, <1>3, <1>6 DEF Effect, DeletionBegins, GoesOn, ObjectIsPut,
     DocumentIsDeleted, IsSaved, IsConfirmed, IsRefused, Fails, Over, Uploading, Steps
<1> QED
  BY <1>4, <1>5, <1>6

\* An upload keeps its file to itself.
LEMMA EffectUploads == ASSUME FInv, NEW c \in Calls, Effect(c) PROVE UploadsOwn'
<1> USE DEF UploadsOwn, Uploading
<1>1. /\ UploadsOwn /\ docs \subseteq used /\ removed \subseteq used
      /\ \A d \in Calls : call[d].at # "idle" => call[d].file \in used
  BY DEF FInv, TypeOK, CallsInOrder
<1>2. \A d \in Calls : d # c => call'[d] = call[d]
  BY DEF Effect, Alone
<1>3. CASE UploadBegins(c)
  BY <1>1, <1>2, <1>3 DEF UploadBegins, store
<1>4. CASE DeletionBegins(c) \/ IsRefused(c) \/ IsConfirmed(c)
  BY <1>1, <1>2, <1>4 DEF DeletionBegins, IsRefused, IsConfirmed, Over, store, FInv, DeletionsOwn
<1>5. CASE GoesOn(c)
  BY <1>1, <1>2, <1>5 DEF Effect, GoesOn, store, Steps
<1>6. CASE ObjectIsPut(c)
  BY <1>1, <1>2, <1>6 DEF Effect, ObjectIsPut, Steps
<1>7. CASE DocumentIsDeleted(c)
  BY <1>1, <1>2, <1>7 DEF DocumentIsDeleted
<1>8. CASE IsSaved(c)
  BY <1>1, <1>2, <1>8 DEF IsSaved, Over
<1>9. CASE Fails(c)
  BY <1>1, <1>2, <1>9 DEF Fails, Over, store, FInv, DeletionsOwn
<1> QED
  BY <1>3, <1>4, <1>5, <1>6, <1>7, <1>8, <1>9 DEF Effect

\* A deletion that took the document is the only one that did.
LEMMA EffectDeletions == ASSUME FInv, NEW c \in Calls, Effect(c) PROVE DeletionsOwn'
<1> USE DEF DeletionsOwn, Uploading
<1>1. /\ DeletionsOwn /\ StoreInOrder /\ docs \subseteq Files /\ confirmed \in [Files -> Nat]
      /\ docs \subseteq objects
      /\ \A d \in Calls : call[d].at # "idle" => call[d].file \in Files
  BY DEF FInv, TypeOK, CallsInOrder, DocHasObject
<1>2. \A d \in Calls : d # c => call'[d] = call[d]
  BY DEF Effect, Alone
<1>3. CASE DocumentIsDeleted(c)
  BY <1>1, <1>2, <1>3 DEF DocumentIsDeleted, StoreInOrder, Effect, Steps
<1>4. CASE IsConfirmed(c)
  BY <1>1, <1>2, <1>4 DEF IsConfirmed, Over
<1>5. CASE Fails(c)
  BY <1>1, <1>2, <1>5 DEF Fails, Over, store
<1>6. CASE UploadBegins(c) \/ DeletionBegins(c) \/ GoesOn(c) \/ ObjectIsPut(c)
  BY <1>1, <1>2, <1>6 DEF UploadBegins, DeletionBegins, GoesOn, ObjectIsPut, store
<1>7. CASE IsSaved(c) \/ IsRefused(c)
  BY <1>1, <1>2, <1>7 DEF IsSaved, IsRefused, Over, store
<1> QED
  BY <1>3, <1>4, <1>5, <1>6, <1>7 DEF Effect

\* What was confirmed is gone, and a document that was deleted does not come back.
LEMMA EffectStore == ASSUME FInv, NEW c \in Calls, Effect(c) PROVE StoreInOrder'
<1> USE DEF StoreInOrder, Uploading
<1>1. /\ StoreInOrder /\ UploadsOwn /\ DeletionsOwn /\ confirmed \in [Files -> Nat]
      /\ docs \subseteq Files
      /\ \A d \in Calls : call[d].at # "idle" => call[d].file \in Files
  BY DEF FInv, TypeOK, CallsInOrder
<1>2. CASE UNCHANGED <<store, confirmed>>
  BY <1>1, <1>2 DEF store
<1>3. CASE ObjectIsPut(c)
  BY <1>1, <1>3 DEF ObjectIsPut, UploadsOwn
<1>4. CASE DocumentIsDeleted(c)
  BY <1>1, <1>4 DEF DocumentIsDeleted
<1>5. CASE IsSaved(c)
  BY <1>1, <1>5 DEF IsSaved, UploadsOwn
<1>6. CASE IsConfirmed(c)
  BY <1>1, <1>6 DEF IsConfirmed, DeletionsOwn
<1>7. CASE Fails(c)
  BY <1>1, <1>7, <1>2 DEF Fails, UploadsOwn
<1> QED
  BY <1>2, <1>3, <1>4, <1>5, <1>6, <1>7 DEF Effect, UploadBegins, DeletionBegins, GoesOn, IsRefused

\* The object is put before the document and deleted after it.
LEMMA EffectDocs == ASSUME FInv, NEW c \in Calls, Effect(c) PROVE DocHasObject'
<1> USE DEF DocHasObject
<1>1. DocHasObject /\ UploadsOwn /\ DeletionsOwn /\ docs \cap removed = {}
  BY DEF FInv, StoreInOrder
<1> QED
  BY <1>1 DEF Effect, UploadBegins, DeletionBegins, GoesOn, ObjectIsPut, DocumentIsDeleted,
     IsSaved, IsConfirmed, IsRefused, Fails, store, UploadsOwn, DeletionsOwn, Uploading

\* An object without a document has a call to it or was cut short.
LEMMA EffectOrphans == ASSUME FInv, NEW c \in Calls, Effect(c) PROVE OrphansAreCut'
<1> SUFFICES ASSUME NEW f \in objects', f \notin docs', f \notin cut'
             PROVE  \E d \in Calls : call'[d].at \in {"save", "object"} /\ call'[d].file = f
  BY DEF OrphansAreCut, At
<1>1. f \in objects /\ f \notin docs
        => f \in cut \/ \E d \in Calls : call[d].at \in {"save", "object"} /\ call[d].file = f
  BY DEF FInv, OrphansAreCut, At
<1>2. \A d \in Calls : d # c => call'[d] = call[d]
  BY DEF Effect, Alone
<1>3. call'[c].at \in {"save", "object"} => call'[c].file = call[c].file
  BY DEF Effect, Steps
<1>4. CASE UploadBegins(c) \/ DeletionBegins(c) \/ GoesOn(c)
  BY <1>1, <1>2, <1>4 DEF UploadBegins, DeletionBegins, GoesOn, store, Uploading
<1>5. CASE ObjectIsPut(c) \/ DocumentIsDeleted(c)
  BY <1>1, <1>2, <1>3, <1>5 DEF ObjectIsPut, DocumentIsDeleted
<1>6. CASE IsSaved(c) \/ IsConfirmed(c) \/ IsRefused(c)
  BY <1>1, <1>2, <1>6 DEF IsSaved, IsConfirmed, IsRefused, store
<1>7. CASE Fails(c)
  BY <1>1, <1>2, <1>7 DEF Fails, store
<1> QED
  BY <1>4, <1>5, <1>6, <1>7 DEF Effect

-----------------------------------------------------------------------------
(* Records, answers and counters *)

\* What TypeOK says of the rest.
RestOK ==
  /\ bucket \in {"absent", "bare", "public"}
  /\ requests \in 0..MaxRequests
  /\ outbox \subseteq Record /\ topic \subseteq Record
  /\ handled \subseteq Record /\ lost \subseteq Record /\ repeated \subseteq Record
  /\ online \subseteq Users
  /\ task \in topic \cup {NoTask}
  /\ told \subseteq 1..MaxRequests
  /\ made \subseteq (1..MaxRequests) \X Files
  /\ purged \subseteq used
  /\ bare \in BOOLEAN
  /\ faults \in 0..MaxFaults /\ crashes \in 0..MaxCrashes

\* A step of a call that is under way lets go of the record in hand at its end.
LEMMA CallRecords ==
  ASSUME FInv, NEW c \in Calls, UploadStep(c) \/ DeletionStep(c) \/ StepFails(c)
  PROVE  RestOK' /\ RecordsInOrder' /\ ConsumerInOrder'
<1> USE DEF events, contents, kafka
<1>1. /\ UNCHANGED <<requests, outbox, used, lost, repeated, online, crashes>>
      /\ call[c].at # "idle"
  BY DEF UploadStep, DeletionStep, StepFails, Rejected, Accepted, HeadBucket, CreateBucket, Creates,
     BucketExists, PutBucketPolicy, Publishes, PutObject, Puts, SaveDocument, Saves,
     FindByIdAndDelete, Forgets, FileNotFound, DeleteObject, Discards
<1>2. \/ \E ok \in BOOLEAN : Ends(c, ok)
      \/ (\E step \in Steps : GoOn(c, step)) /\ UNCHANGED <<topic, handled, task, told, purged>>
  BY DEF UploadStep, DeletionStep, StepFails, Rejected, Accepted, HeadBucket, CreateBucket,
     BucketExists, PutBucketPolicy, PutObject, SaveDocument,
     FindByIdAndDelete, FileNotFound, DeleteObject, Steps
<1>3. /\ bucket' \in {bucket, "bare", "public"}
      /\ made' = made \/ (c = Consumer /\ made' = made \cup {<<task.id, call[c].file>>})
  BY DEF UploadStep, DeletionStep, StepFails, Rejected, Accepted, HeadBucket, CreateBucket, Creates,
     BucketExists, PutBucketPolicy, Publishes, PutObject, Puts, SaveDocument, Saves,
     FindByIdAndDelete, Forgets, FileNotFound, DeleteObject, Discards
<1>10. faults' \in 0..MaxFaults /\ bare' \in BOOLEAN
  <2>1. CASE UNCHANGED <<faults, bare>>
    BY <2>1 DEF FInv, TypeOK
  <2>2. CASE StepFails(c)
    BY <2>2, FilesAssumption DEF StepFails, Fault, CutShort, FInv, TypeOK
  <2> QED
    BY <2>1, <2>2 DEF UploadStep, DeletionStep, Rejected, Accepted, HeadBucket, CreateBucket,
       BucketExists, PutBucketPolicy, PutObject, SaveDocument, FindByIdAndDelete, FileNotFound,
       DeleteObject
<1>4. /\ Alone(c)
      /\ topic' \subseteq topic /\ handled' \subseteq handled \cup topic
      /\ task' \in topic' \cup {NoTask}
      /\ c # Consumer => topic' = topic /\ task' = task
      /\ c = Consumer /\ call'[c].at # "idle" => topic' = topic /\ task' = task
      /\ told' \subseteq 1..MaxRequests
      /\ purged' \subseteq used
  <2>1. ASSUME NEW ok \in BOOLEAN, Ends(c, ok) PROVE <1>4!:
    BY <1>1, <2>1, EndsCall, EndsRecord
  <2>2. ASSUME NEW step \in Steps, GoOn(c, step), UNCHANGED <<topic, handled, task, told, purged>>
        PROVE  <1>4!:
    BY <2>2, GoOnCall DEF FInv, TypeOK
  <2> QED
    BY <1>2, <2>1, <2>2
<1>5. Consumer \in Calls
  BY DEF Calls
<1>6. ConsumerInOrder'
  BY <1>1, <1>4, <1>5 DEF FInv, ConsumerInOrder, Alone
<1>7. made' \subseteq (1..MaxRequests) \X Files
  <2>1. c = Consumer => task.id \in 1..MaxRequests
    BY <1>1 DEF FInv, ConsumerInOrder, TypeOK, Record
  <2>2. call[c].file \in Files
    BY <1>1 DEF FInv, CallsInOrder, TypeOK
  <2> QED
    BY <1>3, <2>1, <2>2 DEF FInv, TypeOK
<1>8. RestOK'
  BY <1>1, <1>3, <1>4, <1>7, <1>10 DEF FInv, TypeOK, RestOK
<1>9. RecordsInOrder'
  BY <1>1, <1>4 DEF FInv, RecordsInOrder
<1> QED
  BY <1>6, <1>8, <1>9

\* A call that begins leaves the records where they are.
LEMMA BeginningRecords ==
  ASSUME FInv, NEW c \in Calls, NEW f \in Files,
         \/ UploadOverHttp(c, f) \/ DeleteOverHttp(c, f)
         \/ c = Consumer /\ \E r \in topic : HandleUploadDelete(r) \/ HandleUploadCreate(r, f)
  PROVE  RestOK' /\ RecordsInOrder' /\ ConsumerInOrder'
<1> USE DEF events, contents, kafka
<1>1. /\ UNCHANGED <<bucket, requests, outbox, topic, handled, told, made, purged, events>>
      /\ c = Consumer \/ task' = task
      /\ task' \in topic \cup {NoTask} /\ (c = Consumer => task' \in topic)
  BY FilesAssumption
     DEF UploadOverHttp, DeleteOverHttp, HandleUploadDelete, HandleUploadCreate, FInv, TypeOK
<1>2. used \subseteq used' /\ Alone(c) /\ Consumer \in Calls
  BY BeginningEffect, EffectTypes DEF Effect, Calls
<1>3. RestOK'
  BY <1>1, <1>2 DEF FInv, TypeOK, RestOK
<1>4. RecordsInOrder'
  BY <1>1, <1>2, SeqGrows DEF FInv, RecordsInOrder
<1>5. ConsumerInOrder'
  BY <1>1, <1>2 DEF FInv, ConsumerInOrder, Alone
<1> QED
  BY <1>3, <1>4, <1>5

\* The users, the gateway and Kafka: only records move.
Quiet == UNCHANGED <<contents, used, call, task, told, confirmed, purged, cut, bare, crashes>>

\* As long as the records are in order, nothing else is touched.
LEMMA QuietFInv ==
  ASSUME FInv, Quiet, topic \subseteq topic', requests' \in 0..MaxRequests,
         faults' \in 0..MaxFaults, online' \subseteq Users,
         outbox' \subseteq Record, topic' \subseteq Record, handled' \subseteq Record,
         lost' \subseteq Record, repeated' \subseteq Record, RecordsInOrder'
  PROVE  FInv'
<1> USE DEF contents, Quiet
<1>1. TypeOK'
  BY DEF FInv, TypeOK
<1>2. CallsInOrder' /\ ConsumerInOrder' /\ UploadsOwn' /\ DeletionsOwn' /\ StoreInOrder'
  BY DEF FInv, CallsInOrder, ConsumerInOrder, UploadsOwn, DeletionsOwn, StoreInOrder
<1>3. DocHasObject' /\ OrphansAreCut'
  BY DEF FInv, DocHasObject, OrphansAreCut, At
<1> QED
  BY <1>1, <1>2, <1>3 DEF FInv

\* A record is emitted about files that are in use.
LEMMA EmitFInv ==
  ASSUME FInv, NEW kind \in {"create", "delete", "purge"}, NEW files \in Seq(used),
         NEW user \in Users \cup {NoUser}, kind # "create" => files # <<>>,
         Emit(kind, files, user), Quiet, UNCHANGED <<topic, handled, events>>
  PROVE  FInv'
<1> DEFINE r == [kind |-> kind, id |-> requests', files |-> files, user |-> user]
<1>1. used \subseteq Files /\ requests \in 0..MaxRequests
  BY DEF FInv, TypeOK
<1>2. files \in Seq(Files)
  BY <1>1, SeqGrows
<1>3. requests' \in 1..MaxRequests
  BY <1>1, FilesAssumption DEF Emit
<1>4. r \in Record /\ r.kind = kind /\ r.files = files
  BY <1>2, <1>3 DEF Record
<1>5. outbox' = outbox \cup {r}
  BY DEF Emit
<1> HIDE DEF r
<1>6. /\ outbox' \subseteq Record /\ topic' \subseteq Record /\ handled' \subseteq Record
      /\ RecordsInOrder'
  BY <1>4, <1>5 DEF Quiet, FInv, TypeOK, RecordsInOrder
<1>7. /\ lost' \subseteq Record /\ repeated' \subseteq Record /\ online' \subseteq Users
      /\ faults' \in 0..MaxFaults /\ topic \subseteq topic'
  BY DEF events, FInv, TypeOK
<1> QED
  BY <1>3, <1>6, <1>7, QuietFInv

\* A user who comes or goes, and what Kafka does, leave the calls alone.
LEMMA KafkaFInv ==
  ASSUME FInv, KafkaStep \/ UNCHANGED vars \/ \E u \in Users : ComesOnline(u) \/ GoesOffline(u)
  PROVE  FInv'
<1> USE DEF events, contents, kafka
<1>1. /\ Quiet /\ topic \subseteq topic' /\ requests' = requests
      /\ online' \subseteq online \cup Users
      /\ outbox' \subseteq outbox
      /\ topic' \cup handled' \cup lost' \cup repeated'
            \subseteq outbox \cup topic \cup handled \cup lost \cup repeated
      /\ topic' \cup handled' \subseteq outbox \cup topic \cup handled
  BY DEF KafkaStep, Publish, PublishAgain, PublishFails, Commit, Rebalance, Redelivers,
     ComesOnline, GoesOffline, vars, Quiet
<1>2. faults' \in 0..MaxFaults
  BY FilesAssumption
     DEF KafkaStep, Publish, PublishAgain, PublishFails, Commit, Rebalance, Fault,
         ComesOnline, GoesOffline, vars, FInv, TypeOK
<1>3. RecordsInOrder'
  BY <1>1 DEF Quiet, FInv, RecordsInOrder
<1>4. /\ outbox \subseteq Record /\ topic \subseteq Record /\ handled \subseteq Record
      /\ lost \subseteq Record /\ repeated \subseteq Record /\ online \subseteq Users
      /\ requests \in 0..MaxRequests
  BY DEF FInv, TypeOK
<1> HIDE DEF events, contents, kafka
<1> QED
  BY <1>1, <1>2, <1>3, <1>4, QuietFInv

LEMMA QuietStep ==
  ASSUME FInv,
         \/ GatewayStep \/ KafkaStep \/ UNCHANGED vars
         \/ \E u \in Users : ComesOnline(u) \/ GoesOffline(u)
         \/ \E f, g \in docs : EmitPurge(IF f = g THEN <<f>> ELSE <<f, g>>)
  PROVE  FInv'
<1>1. docs \subseteq used /\ online \subseteq Users
  BY DEF FInv, TypeOK
<1>2. ASSUME NEW u \in online \cup {NoUser}, CreateUpload(u) PROVE FInv'
  <2>1. <<>> \in Seq(used)
    OBVIOUS
  <2>2. Quiet /\ UNCHANGED <<topic, handled, events>> /\ Emit("create", <<>>, u)
    BY <1>2 DEF CreateUpload, Quiet, events
  <2> QED
    BY <1>1, <2>1, <2>2, EmitFInv
<1>3. ASSUME NEW u \in online \cup {NoUser}, NEW f \in Files, DeleteUpload(u, f) PROVE FInv'
  <2>1. <<f>> \in Seq(used) /\ <<f>> # <<>>
    BY <1>3 DEF DeleteUpload
  <2>2. Quiet /\ UNCHANGED <<topic, handled, events>> /\ Emit("delete", <<f>>, u)
    BY <1>3 DEF DeleteUpload, Quiet, events
  <2> QED
    BY <1>1, <2>1, <2>2, EmitFInv
<1>4. ASSUME NEW f \in docs, NEW g \in docs, EmitPurge(IF f = g THEN <<f>> ELSE <<f, g>>)
      PROVE  FInv'
  <2>1. <<f>> \in Seq(used) /\ <<f, g>> \in Seq(used) /\ <<f>> # <<>> /\ <<f, g>> # <<>>
    BY <1>1
  <2>2. PICK files \in Seq(used) : files # <<>> /\ Emit("purge", files, NoUser)
    <3>1. CASE f = g
      BY <1>4, <2>1, <3>1 DEF EmitPurge
    <3>2. CASE f # g
      BY <1>4, <2>1, <3>2 DEF EmitPurge
    <3> QED
      BY <3>1, <3>2
  <2>3. Quiet /\ UNCHANGED <<topic, handled, events>>
    BY <1>4 DEF EmitPurge, Quiet, events
  <2> QED
    BY <2>2, <2>3, EmitFInv
<1> QED
  BY <1>2, <1>3, <1>4, KafkaFInv DEF GatewayStep

\* A restart ends every call; what it leaves half done is noted.
LEMMA CrashStep == FInv /\ Crash => FInv'
<1> SUFFICES ASSUME FInv, Crash PROVE FInv'
  OBVIOUS
<1> USE DEF contents
<1>1. /\ call' = [c \in Calls |-> Idle] /\ task' = NoTask
      /\ UNCHANGED <<bucket, objects, docs, removed, made, used, requests, told, confirmed, purged,
                     faults>>
      /\ online' = {} /\ repeated' = repeated \cup handled
      /\ outbox' = {} /\ handled' = {} /\ topic' = topic \cup handled /\ lost' = lost \cup outbox
      /\ crashes' \in 0..MaxCrashes
  BY FilesAssumption DEF Crash, Redelivers, FInv, TypeOK
<1>2. \A c \in Calls : call[c].at \in {"put", "save", "find", "object"} => call[c].file \in cut'
  BY DEF Crash, CutShort
<1>3. cut \subseteq cut' /\ cut' \subseteq used /\ bare' \in BOOLEAN
  BY DEF Crash, CutShort, FInv, TypeOK, CallsInOrder
<1>4. Idle \in [at : Steps, file : Files \cup {NoFile}, todo : Seq(Files), patient : BOOLEAN]
      /\ Idle.at = "idle"
  BY DEF Idle, Steps
<1>5. call' \in CallType /\ \A c \in Calls : call'[c].at = "idle"
  BY <1>1, <1>4 DEF CallType
<1>6. TypeOK'
  BY <1>1, <1>3, <1>5 DEF FInv, TypeOK, CallType
<1>7. RecordsInOrder'
  BY <1>1 DEF FInv, RecordsInOrder
<1>8. CallsInOrder' /\ ConsumerInOrder' /\ UploadsOwn' /\ DeletionsOwn'
  BY <1>5 DEF CallsInOrder, ConsumerInOrder, UploadsOwn, DeletionsOwn, Uploading, Calls
<1>9. StoreInOrder' /\ DocHasObject'
  BY <1>1 DEF FInv, StoreInOrder, DocHasObject
<1>10. OrphansAreCut'
  BY <1>1, <1>2, <1>3 DEF FInv, OrphansAreCut, At
<1> QED
  BY <1>6, <1>7, <1>8, <1>9, <1>10 DEF FInv

-----------------------------------------------------------------------------
(* The theorems *)

\* A step of a call keeps the invariant.
LEMMA EffectFInv ==
  ASSUME FInv, NEW c \in Calls, Effect(c), RestOK', RecordsInOrder', ConsumerInOrder'
  PROVE  FInv'
<1>1. TypeOK'
  BY EffectTypes DEF RestOK, TypeOK, CallType
<1> QED
  BY <1>1, EffectCalls, EffectUploads, EffectDeletions, EffectStore, EffectDocs, EffectOrphans
     DEF FInv

LEMMA CallFInv ==
  ASSUME FInv, NEW c \in Calls, UploadStep(c) \/ DeletionStep(c) \/ StepFails(c)
  PROVE  FInv'
  BY EffectFInv, UploadEffect, DeletionEffect, FailureEffect, CallRecords

LEMMA BeginningFInv ==
  ASSUME FInv, NEW c \in Calls, NEW f \in Files,
         \/ UploadOverHttp(c, f) \/ DeleteOverHttp(c, f)
         \/ c = Consumer /\ \E r \in topic : HandleUploadDelete(r) \/ HandleUploadCreate(r, f)
  PROVE  FInv'
  BY EffectFInv, BeginningEffect, BeginningRecords

\* Every step keeps the invariant.
LEMMA StepFInv == FInv /\ [Next]_vars => FInv'
<1> SUFFICES ASSUME FInv, [Next]_vars PROVE FInv'
  OBVIOUS
<1>1. Consumer \in Calls /\ HttpCalls \subseteq Calls
  BY DEF Calls
<1>2. ASSUME NEW c \in Calls, UploadStep(c) \/ DeletionStep(c) \/ StepFails(c) PROVE FInv'
  BY <1>2, CallFInv
<1>3. ASSUME NEW c \in Calls, NEW f \in Files,
             \/ UploadOverHttp(c, f) \/ DeleteOverHttp(c, f)
             \/ c = Consumer /\ \E r \in topic : HandleUploadDelete(r) \/ HandleUploadCreate(r, f)
      PROVE  FInv'
  BY <1>3, BeginningFInv
<1>4. ASSUME NEW r \in topic, HandleUploadDelete(r) PROVE \E f \in Files : TRUE
  BY <1>4 DEF HandleUploadDelete, FInv, RecordsInOrder, TypeOK
<1>5. CASE ConsumerStep
  BY <1>1, <1>2, <1>3, <1>4, <1>5 DEF ConsumerStep
<1>6. CASE GatewayStep \/ KafkaStep \/ UNCHANGED vars
           \/ (\E u \in Users : ComesOnline(u) \/ GoesOffline(u))
           \/ \E f, g \in docs : EmitPurge(IF f = g THEN <<f>> ELSE <<f, g>>)
  BY <1>6, QuietStep
<1>7. CASE Crash
  BY <1>7, CrashStep
<1> QED
  BY <1>1, <1>2, <1>3, <1>5, <1>6, <1>7 DEF Next, FilesNext

\* The inductive invariant holds in every reachable state.
THEOREM FilesInvariant == Spec => []FInv
<1> QED
  BY InitFInv, StepFInv, PTL DEF Spec

\* The calls of UploadService and the handlers of its records keep the types.
THEOREM FilesTypeCorrect == Spec => []TypeOK
<1>1. FInv => TypeOK
  BY DEF FInv
<1> QED
  BY <1>1, FilesInvariant, PTL

\* No document of upload and deleteFile points to an object that is not there.
THEOREM DocumentsHaveObjects == Spec => []DocHasObject
<1>1. FInv => DocHasObject
  BY DEF FInv
<1> QED
  BY <1>1, FilesInvariant, PTL

\* Only a failure or a restart leaves an object nobody can find.
THEOREM OverlapsLeaveNoOrphans == Spec => []OrphansAreCut
<1>1. FInv => OrphansAreCut
  BY DEF FInv
<1> QED
  BY <1>1, FilesInvariant, PTL

\* "File deleted" is said once for a file, and then it is gone for good.
THEOREM DeletionIsConfirmedOnce == Spec => []DeletionConfirmed
<1>1. FInv => DeletionConfirmed
  BY DEF FInv, StoreInOrder, DeletionConfirmed
<1> QED
  BY <1>1, FilesInvariant, PTL

-----------------------------------------------------------------------------
(* Files implements FileLife *)

lives == [f \in Files |-> Stage(f)]

\* How far a file is, without the stage that no file is at.
LEMMA StageOf ==
  ASSUME DocHasObject, NEW f
  PROVE  /\ f \in docs => Stage(f) = "whole"
         /\ f \in objects /\ f \notin docs /\ f \notin removed => Stage(f) = "arriving"
         /\ f \in objects /\ f \notin docs /\ f \in removed => Stage(f) = "leaving"
         /\ f \notin objects /\ f \notin removed => Stage(f) = "none"
         /\ f \notin objects /\ f \in removed => Stage(f) = "gone"
<1>1. docs \subseteq objects
  BY DEF DocHasObject
<1> QED
  BY <1>1 DEF Stage

\* The same after a step.
LEMMA StageOfNext ==
  ASSUME DocHasObject', NEW f
  PROVE  /\ f \in docs' => Stage(f)' = "whole"
         /\ f \in objects' /\ f \notin docs' /\ f \notin removed' => Stage(f)' = "arriving"
         /\ f \in objects' /\ f \notin docs' /\ f \in removed' => Stage(f)' = "leaving"
         /\ f \notin objects' /\ f \notin removed' => Stage(f)' = "none"
         /\ f \notin objects' /\ f \in removed' => Stage(f)' = "gone"
<1>1. docs' \subseteq objects'
  BY DEF DocHasObject
<1> QED
  BY <1>1 DEF Stage

\* A step that touches one file leaves the others as far as they are.
LEMMA OneFileMoves ==
  ASSUME NEW f \in Files,
         \A g \in Files \ {f} : /\ g \in objects' <=> g \in objects
                                /\ g \in docs' <=> g \in docs
                                /\ g \in removed' <=> g \in removed
  PROVE  /\ lives' = [lives EXCEPT ![f] = Stage(f)'] /\ lives[f] = Stage(f)
         /\ Stage(f)' = Stage(f) => lives' = lives
<1>1. \A g \in Files \ {f} : Stage(g)' = Stage(g)
  BY DEF Stage
<1> QED
  BY <1>1 DEF lives

\* What a call does to its file is a step of the life of that file.
LEMMA EffectLife ==
  ASSUME FInv, NEW c \in Calls, Effect(c)
  PROVE  Life!Next \/ UNCHANGED <<lives, confirmed>>
<1>0. PICK f : f = call[c].file
  OBVIOUS
<1>1. /\ DocHasObject /\ DocHasObject' /\ docs \subseteq objects /\ docs \cap removed = {}
  BY EffectDocs DEF FInv, StoreInOrder, DocHasObject
<1>2. call[c].at # "idle" => f \in Files
  BY <1>0 DEF FInv, CallsInOrder, TypeOK
<1>3. /\ call[c].at \in {"put", "save"} => f \notin docs /\ f \notin removed
      /\ call[c].at = "save" => f \in objects
      /\ call[c].at = "object" => f \in removed /\ f \in objects /\ f \notin docs
  BY <1>0, <1>1 DEF FInv, UploadsOwn, DeletionsOwn, Uploading
<1>4. CASE UNCHANGED <<store, confirmed>>
  BY <1>4 DEF store, lives, Stage
<1>5. ASSUME call[c].at = "put", objects' = objects \cup {f}, UNCHANGED <<docs, removed, confirmed>>
      PROVE  Life!Next \/ UNCHANGED <<lives, confirmed>>
  <2>1. /\ lives' = [lives EXCEPT ![f] = Stage(f)'] /\ lives[f] = Stage(f)
        /\ Stage(f)' = Stage(f) => lives' = lives
    BY <1>2, <1>5, OneFileMoves
  <2>2. Stage(f)' = "arriving" /\ Stage(f) \in {"none", "arriving"}
    BY <1>1, <1>3, <1>5, StageOf, StageOfNext
  <2> QED
    BY <1>2, <1>5, <2>1, <2>2 DEF Life!Next, Life!Arrives, Life!Moves, lives
<1>6. ASSUME call[c].at = "save", docs' = docs \cup {f}, UNCHANGED <<objects, removed, confirmed>>
      PROVE  Life!Next
  <2>1. lives' = [lives EXCEPT ![f] = Stage(f)'] /\ lives[f] = Stage(f)
    BY <1>2, <1>6, OneFileMoves
  <2>2. Stage(f)' = "whole" /\ Stage(f) = "arriving"
    BY <1>1, <1>3, <1>6, StageOf, StageOfNext
  <2> QED
    BY <1>2, <1>6, <2>1, <2>2 DEF Life!Next, Life!BecomesWhole, Life!Moves, lives
<1>7. ASSUME call[c].at = "find", f \in docs, docs' = docs \ {f}, removed' = removed \cup {f},
             UNCHANGED <<objects, confirmed>>
      PROVE  Life!Next
  <2>1. lives' = [lives EXCEPT ![f] = Stage(f)'] /\ lives[f] = Stage(f)
    BY <1>2, <1>7, OneFileMoves
  <2>2. Stage(f)' = "leaving" /\ Stage(f) = "whole"
    BY <1>1, <1>7, StageOf, StageOfNext
  <2> QED
    BY <1>2, <1>7, <2>1, <2>2 DEF Life!Next, Life!Leaves, Life!Moves, lives
<1>8. ASSUME call[c].at = "object", objects' = objects \ {f}, UNCHANGED <<docs, removed>>,
             confirmed' \in {confirmed, [confirmed EXCEPT ![f] = @ + 1]}
      PROVE  Life!Next
  <2>1. lives' = [lives EXCEPT ![f] = Stage(f)'] /\ lives[f] = Stage(f)
    BY <1>2, <1>8, OneFileMoves
  <2>2. Stage(f)' = "gone" /\ Stage(f) = "leaving"
    BY <1>1, <1>3, <1>8, StageOf, StageOfNext
  <2> QED
    BY <1>2, <1>8, <2>1, <2>2 DEF Life!Next, Life!Goes, Life!Moves, lives
<1>9. CASE Fails(c)
  BY <1>0, <1>4, <1>5, <1>6, <1>7, <1>8, <1>9 DEF Fails, store
<1>10. CASE ObjectIsPut(c) \/ DocumentIsDeleted(c) \/ IsSaved(c) \/ IsConfirmed(c)
  BY <1>0, <1>5, <1>6, <1>7, <1>8, <1>10 DEF ObjectIsPut, DocumentIsDeleted, IsSaved, IsConfirmed
<1> QED
  BY <1>4, <1>9, <1>10 DEF Effect, UploadBegins, DeletionBegins, GoesOn, IsRefused

\* The other steps leave every file as far as it is.
LEMMA StepLife == FInv /\ [Next]_vars => [Life!Next]_<<lives, confirmed>>
<1> SUFFICES ASSUME FInv, [Next]_vars PROVE Life!Next \/ UNCHANGED <<lives, confirmed>>
  BY DEF lives
<1>1. Consumer \in Calls /\ HttpCalls \subseteq Calls
  BY DEF Calls
<1>2. ASSUME NEW c \in Calls, UploadStep(c) \/ DeletionStep(c) \/ StepFails(c)
      PROVE  Life!Next \/ UNCHANGED <<lives, confirmed>>
  BY <1>2, UploadEffect, DeletionEffect, FailureEffect, EffectLife
<1>3. ASSUME NEW c \in Calls, NEW f \in Files,
             \/ UploadOverHttp(c, f) \/ DeleteOverHttp(c, f)
             \/ c = Consumer /\ \E r \in topic : HandleUploadDelete(r) \/ HandleUploadCreate(r, f)
      PROVE  Life!Next \/ UNCHANGED <<lives, confirmed>>
  BY <1>3, BeginningEffect, EffectLife
<1>4. ASSUME NEW r \in topic, HandleUploadDelete(r) PROVE \E f \in Files : TRUE
  BY <1>4 DEF HandleUploadDelete, FInv, RecordsInOrder, TypeOK
<1>5. CASE ConsumerStep
  BY <1>1, <1>2, <1>3, <1>4, <1>5 DEF ConsumerStep
<1>6. CASE GatewayStep \/ KafkaStep \/ UNCHANGED vars \/ Crash
           \/ (\E u \in Users : ComesOnline(u) \/ GoesOffline(u))
           \/ \E f, g \in docs : EmitPurge(IF f = g THEN <<f>> ELSE <<f, g>>)
  <2>1. UNCHANGED <<objects, docs, removed, confirmed>>
    BY <1>6 DEF GatewayStep, CreateUpload, DeleteUpload, KafkaStep, Publish, PublishAgain,
       PublishFails, Commit, Rebalance, ComesOnline, GoesOffline, vars, Crash, EmitPurge, contents
  <2> QED
    BY <2>1 DEF lives, Stage
<1> QED
  BY <1>1, <1>2, <1>3, <1>5, <1>6 DEF Next, FilesNext

\* Upload and deleteFile take every file through its life in order: the calls of
\* UploadService implement FileLife, however they overlap, fail or are cut short.
THEOREM FilesKeepLife == Spec => KeepsFileLife
<1>1. Init => Life!Init
  BY DEF Init, Life!Init, Stage
<1>2. FInv /\ [Next]_vars => [Life!Next]_<<[f \in Files |-> Stage(f)], confirmed>>
  BY StepLife DEF lives
<1> QED
  BY <1>1, <1>2, FilesInvariant, PTL DEF Spec, KeepsFileLife, Life!Spec
=============================================================================
