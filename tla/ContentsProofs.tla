--------------------------- MODULE ContentsProofs ---------------------------
(***************************************************************************)
(* Proofs about what messages refer to, for any number of messages, files, *)
(* images of a message, calls at a time, records, failures and restarts,   *)
(* on top of the invariants of FilesProofs and PurgeProofs.                *)
(***************************************************************************)
EXTENDS Contents, PurgeProofs

-----------------------------------------------------------------------------
(* What holds of the calls and of the records *)

\* A call is at a message there was, and has files purged that have been in use.
OpsInOrder ==
  \A c \in HttpCalls :
    /\ op[c].at = "none" => op[c] = NoOp
    /\ op[c].at # "none" => op[c].msg \in born
    /\ Elements(op[c].removed) \subseteq docs \cup removed

\* What call c is deleting and going to delete.
Doing(c) == {call[c].file} \cup Elements(call[c].todo)

\* Files are only deleted here, those of a record while it is in the topic.
OnlyPurges ==
  /\ \A c \in Calls : call[c] = Idle \/ call[c].at \in {"find", "object"}
  /\ \A r \in outbox \cup topic \cup handled : r.kind = "purge"
  /\ \A r \in handled : Elements(r.files) \subseteq purged
  /\ call[Consumer].at # "idle" => Doing(Consumer) \subseteq Elements(task.files)

CInv == FInv /\ PInv /\ ContentsTypeOK /\ OpsInOrder /\ OnlyPurges

\* The initial state is as it should be.
LEMMA InitCInv == ContentsInit => CInv
<1> SUFFICES ASSUME ContentsInit PROVE CInv
  OBVIOUS
<1> USE DEF ContentsInit
<1>1. Consumer \in Calls /\ \A c \in Calls : call[c] = Idle /\ Idle.at = "idle"
  BY DEF Idle, Calls
<1>2. Idle \in [at : Steps, file : Files \cup {NoFile}, todo : Seq(Files), patient : BOOLEAN]
  BY DEF Idle, Steps
<1>3. call \in CallType /\ confirmed \in [Files -> Nat]
  BY <1>2 DEF CallType
<1>4. 0 \in 0..MaxRequests /\ 0 \in 0..MaxFaults /\ 0 \in 0..MaxCrashes /\ 0 \in 0..MaxBegun
  BY FilesAssumption, ContentsAssumption
<1>5. TypeOK
  BY <1>3, <1>4 DEF TypeOK, CallType
<1>6. FInv
  BY <1>1, <1>5 DEF FInv, CallsInOrder, RecordsInOrder, ConsumerInOrder, UploadsOwn,
     DeletionsOwn, StoreInOrder, DocHasObject, OrphansAreCut, Uploading
<1>7. PInv /\ OnlyPurges
  BY <1>1 DEF PInv, PurgesInOrder, HandlerInOrder, PurgedInOrder, OnlyPurges
<1>8. NoOp \in [at : {"none", "last", "write", "emit"}, msg : Messages \cup {NoMessage},
                body : Lists \cup {TextOnly}, removed : Lists]
  <2>1. <<>> \in [1..0 -> Files] /\ 0 \in 0..MaxImages
    BY ContentsAssumption
  <2>2. <<>> \in Lists
    BY <2>1 DEF Lists, ListsUpTo
  <2> QED
    BY <2>2 DEF NoOp
<1>9. ContentsTypeOK
  <2>1. op \in [HttpCalls -> [at : {"none", "last", "write", "emit"},
                             msg : Messages \cup {NoMessage},
                             body : Lists \cup {TextOnly}, removed : Lists]]
    BY <1>8
  <2>2. DOMAIN msgs = {}
    OBVIOUS
  <2> QED
    BY <1>4, <1>5, <2>1, <2>2 DEF ContentsTypeOK
<1>10. OpsInOrder
  BY DEF OpsInOrder, NoOp, Elements
<1> QED
  BY <1>6, <1>7, <1>9, <1>10 DEF CInv

-----------------------------------------------------------------------------
(* Lists of files *)

\* A list of files is a sequence of files.
LEMMA ListsAreSequences ==
  ASSUME NEW k \in Nat, NEW q \in ListsUpTo(k)
  PROVE  q \in Seq(Files) /\ Elements(q) \subseteq Files
<1>1. PICK n \in 0..k : q \in [1..n -> Files]
  BY DEF ListsUpTo
<1> QED
  BY <1>1 DEF Elements

\* A sequence of some files is a sequence of its elements.
LEMMA SeqOfElements ==
  ASSUME NEW S, NEW T, NEW q \in Seq(S), Elements(q) \subseteq T
  PROVE  q \in Seq(T)
<1>1. \A i \in 1..Len(q) : q[i] \in T
  BY DEF Elements
<1> QED
  BY <1>1

\* What a filter leaves is what it lets through.
LEMMA FilteredElements ==
  ASSUME NEW out, NEW q, NEW S, Filtered(out, q, S)
  PROVE  Elements(out) = Elements(q) \cap S
<1>1. PICK place \in [DOMAIN out -> DOMAIN q] :
        /\ {place[i] : i \in DOMAIN out} = {i \in DOMAIN q : q[i] \in S}
        /\ \A i \in DOMAIN out : out[i] = q[place[i]]
  BY DEF Filtered
<1>2. ASSUME NEW i \in DOMAIN out PROVE out[i] \in Elements(q) \cap S
  <2>1. place[i] \in {j \in DOMAIN q : q[j] \in S}
    BY <1>1
  <2> QED
    BY <1>1, <2>1 DEF Elements
<1>3. ASSUME NEW j \in DOMAIN q, q[j] \in S PROVE q[j] \in Elements(out)
  <2>1. PICK i \in DOMAIN out : place[i] = j
    BY <1>1, <1>3
  <2> QED
    BY <1>1, <2>1 DEF Elements
<1> QED
  BY <1>2, <1>3 DEF Elements

\* A list with another file at its end.
LEMMA AppendElements ==
  ASSUME NEW S, NEW q \in Seq(S), NEW f
  PROVE  Elements(Append(q, f)) = Elements(q) \cup {f}
<1> DEFINE longer == Append(q, f)
<1>1. /\ DOMAIN q = 1..Len(q) /\ Len(q) \in Nat /\ DOMAIN longer = 1..(Len(q) + 1)
      /\ longer[Len(q) + 1] = f
      /\ \A i \in 1..Len(q) : longer[i] = q[i]
  OBVIOUS
<1> HIDE DEF longer
<1>2. Elements(longer) = Elements(q) \cup {f}
  BY <1>1 DEF Elements
<1> QED
  BY <1>2 DEF longer

-----------------------------------------------------------------------------
(* What the steps do to the files *)

\* The steps of the deletions, of the consumer and of Kafka are those of Files.
LEMMA FileStepFiles ==
  ASSUME FInv, PInv, FileStep
  PROVE  FInv' /\ PInv'
<1>1. ASSUME NEW c \in Calls, DeletionStep(c) \/ StepFails(c) PROVE FInv' /\ PInv'
  BY <1>1, CallFInv, CallPurges
<1>2. ASSUME NEW r \in topic, HandleUploadDelete(r) PROVE FInv' /\ PInv'
  <2>1. \E f \in Files : TRUE
    BY <1>2 DEF HandleUploadDelete, FInv, RecordsInOrder, TypeOK
  <2>2. Consumer \in Calls
    BY DEF Calls
  <2> QED
    BY <1>2, <2>1, <2>2, BeginningFInv, BeginningPurges
<1>3. CASE KafkaStep
  BY <1>3, QuietStep, QuietPurges
<1> QED
  BY <1>1, <1>2, <1>3 DEF FileStep, KafkaStep

\* An HTTP call begins to delete some files.
LEMMA HttpDeletionFiles ==
  ASSUME FInv, PInv, NEW c \in HttpCalls, NEW f \in used, NEW rest \in Seq(used),
         Begin(c, "find", f, rest, FALSE),
         UNCHANGED <<contents, used, kafka, confirmed, purged, events>>
  PROVE  FInv' /\ PInv'
<1> USE DEF contents, kafka, events
<1>1. c \in Calls /\ Consumer \in Calls /\ c # Consumer
  BY FilesAssumption DEF Calls
<1>2. Effect(c)
  BY <1>1, DeletionBeginsEffect DEF store
<1>3. call'[Consumer] = call[Consumer]
  BY <1>1, <1>2 DEF Effect, Alone
<1>4. RestOK' /\ RecordsInOrder'
  BY DEF FInv, TypeOK, RestOK, RecordsInOrder
<1>5. ConsumerInOrder'
  BY <1>3 DEF FInv, ConsumerInOrder
<1>6. PInv'
  BY <1>3 DEF PInv, PurgesInOrder, HandlerInOrder, PurgedInOrder
<1> QED
  BY <1>1, <1>2, <1>4, <1>5, <1>6, EffectFInv

\* A call fails on the way to its next step.
LEMMA FaultFiles ==
  ASSUME FInv, PInv, NEW c \in HttpCalls, CallFails(c)
  PROVE  FInv' /\ PInv'
<1> USE DEF contents, kafka
<1>1. /\ UNCHANGED <<contents, used, call, kafka, confirmed, purged, cut, bare, lost, repeated,
                      online, crashes>>
      /\ faults' \in 0..MaxFaults
  BY FilesAssumption DEF CallFails, Fault, FInv, TypeOK
<1>2. TypeOK'
  BY <1>1 DEF FInv, TypeOK
<1>3. /\ CallsInOrder' /\ RecordsInOrder' /\ ConsumerInOrder' /\ UploadsOwn' /\ DeletionsOwn'
      /\ StoreInOrder' /\ DocHasObject' /\ OrphansAreCut'
  BY <1>1 DEF FInv, CallsInOrder, RecordsInOrder, ConsumerInOrder, UploadsOwn, DeletionsOwn,
     StoreInOrder, DocHasObject, OrphansAreCut, At
<1>4. PInv'
  BY <1>1 DEF PInv, PurgesInOrder, HandlerInOrder, PurgedInOrder
<1> QED
  BY <1>2, <1>3, <1>4 DEF FInv

\* The images an update leaves out go to the consumer.
LEMMA EmitRemovedFiles ==
  ASSUME FInv, PInv, ContentsTypeOK, OpsInOrder, NEW c \in HttpCalls, EmitRemoved(c)
  PROVE  FInv' /\ PInv'
<1> USE DEF contents, events
<1>1. op[c].removed \in Lists
  BY DEF ContentsTypeOK
<1>2. op[c].removed \in Seq(Files) /\ Elements(op[c].removed) \subseteq docs \cup removed
  BY <1>1, ListsAreSequences, ContentsAssumption DEF Lists, OpsInOrder
<1>3. docs \cup removed \subseteq used
  BY DEF FInv, TypeOK
<1>4. op[c].removed \in Seq(used)
  BY <1>2, <1>3, SeqOfElements
<1>5. Quiet /\ UNCHANGED <<topic, handled>>
  BY DEF EmitRemoved, Quiet
<1>6. CASE op[c].removed # <<>>
  BY <1>2, <1>4, <1>5, <1>6, EmitFInv, EmitPurges DEF EmitRemoved
<1>7. CASE op[c].removed = <<>>
  <2>1. UNCHANGED vars
    BY <1>7 DEF EmitRemoved, vars, kafka
  <2> QED
    BY <2>1, QuietStep, QuietPurges
<1> QED
  BY <1>6, <1>7

\* What a message that is deleted refers to, is deleted by the same call.
LEMMA DeletedList ==
  ASSUME CInv, NEW c \in HttpCalls, NEW m \in Messages, DeleteMessage(c, m)
  PROVE  \E list \in Seq(used) :
           /\ Elements(list) = Refs(m) \cap docs
           /\ IF list = <<>> THEN UNCHANGED call
              ELSE Begin(c, "find", Head(list), Tail(list), FALSE)
<1>1. PICK list \in ListsUpTo(MaxImages + 1) :
        /\ Filtered(list, Append(msgs[m].images, msgs[m].file), docs)
        /\ IF list = <<>> THEN UNCHANGED call
           ELSE Begin(c, "find", Head(list), Tail(list), FALSE)
  BY DEF DeleteMessage
<1>2. m \in DOMAIN msgs /\ msgs[m] \in Content
  BY DEF DeleteMessage, CInv, ContentsTypeOK
<1>3. list \in Seq(Files) /\ msgs[m].images \in Seq(Files)
  BY <1>2, ListsAreSequences, ContentsAssumption DEF Content, Lists
<1>4. docs \subseteq used /\ used \subseteq Files
  BY DEF CInv, FInv, TypeOK
<1>5. Elements(list) = (Elements(msgs[m].images) \cup {msgs[m].file}) \cap docs
  BY <1>1, <1>3, FilteredElements, AppendElements
<1>6. Elements(list) = Refs(m) \cap docs
  BY <1>4, <1>5, FilesAssumption DEF Refs
<1>7. list \in Seq(used)
  BY <1>3, <1>4, <1>6, SeqOfElements
<1> QED
  BY <1>1, <1>6, <1>7

\* Every step of the calls, of the files and of Kafka keeps the files in order.
LEMMA StepFiles == CInv /\ [ContentsNext]_contentsVars => FInv' /\ PInv'
<1> SUFFICES ASSUME CInv, [ContentsNext]_contentsVars PROVE FInv' /\ PInv'
  OBVIOUS
<1>1. FInv /\ PInv /\ ContentsTypeOK /\ OpsInOrder
  BY DEF CInv
<1>2. CASE UNCHANGED vars
  BY <1>1, <1>2, QuietStep, QuietPurges
<1>3. CASE FileStep
  BY <1>1, <1>3, FileStepFiles
<1>4. ASSUME NEW c \in HttpCalls, NEW m \in Messages, DeleteMessage(c, m) PROVE FInv' /\ PInv'
  <2>1. PICK list \in Seq(used) : IF list = <<>> THEN UNCHANGED call
                                  ELSE Begin(c, "find", Head(list), Tail(list), FALSE)
    BY <1>4, DeletedList
  <2>2. UNCHANGED <<contents, used, kafka, confirmed, purged, events>>
    BY <1>4 DEF DeleteMessage
  <2>3. CASE list = <<>>
    BY <1>1, <2>1, <2>2, <2>3, QuietStep, QuietPurges DEF vars, contents, kafka, events
  <2>4. CASE list # <<>>
    <3>1. Head(list) \in used /\ Tail(list) \in Seq(used)
      BY <2>4
    <3> QED
      BY <1>1, <2>1, <2>2, <2>4, <3>1, HttpDeletionFiles
  <2> QED
    BY <2>3, <2>4
<1>5. ASSUME NEW c \in HttpCalls, NEW f \in Files, DeleteFile(c, f) PROVE FInv' /\ PInv'
  <2>1. <<>> \in Seq(used)
    OBVIOUS
  <2> QED
    BY <1>1, <1>5, <2>1, HttpDeletionFiles DEF DeleteFile, DeleteOverHttp
<1>6. ASSUME NEW c \in HttpCalls, MessageStep(c) PROVE FInv' /\ PInv'
  <2>1. CASE EmitRemoved(c)
    BY <1>1, <2>1, EmitRemovedFiles
  <2>2. CASE CallFails(c)
    BY <1>1, <2>2, FaultFiles
  <2>3. CASE UpdateChat(c) \/ WriteMessage(c)
    BY <1>2, <2>3 DEF UpdateChat, WriteMessage
  <2>4. ASSUME NEW m \in Messages, NEW images \in Lists, NEW f \in Files \cup {NoFile},
               AddMessage(c, m, images, f)
        PROVE  FInv' /\ PInv'
    BY <1>2, <2>4 DEF AddMessage
  <2>5. ASSUME NEW m \in Messages, NEW body \in Lists \cup {TextOnly}, FindMessage(c, m, body)
        PROVE  FInv' /\ PInv'
    BY <1>2, <2>5 DEF FindMessage
  <2> QED
    BY <1>4, <1>5, <1>6, <2>1, <2>2, <2>3, <2>4, <2>5 DEF MessageStep
<1>7. CASE Restart
  BY <1>1, <1>7, CrashStep, CrashPurges DEF Restart
<1> QED
  BY <1>2, <1>3, <1>6, <1>7 DEF ContentsNext, contentsVars

-----------------------------------------------------------------------------
(* What a step of a deletion does *)

\* A call that is over does nothing.
LEMMA IdleDoes == Idle.at = "idle" /\ {Idle.file} \cup Elements(Idle.todo) = {NoFile}
  BY DEF Idle, Elements

\* A call goes on with the next file of its list.
LEMMA EndsNext ==
  ASSUME call \in CallType, NEW c \in Calls, NEW ok \in BOOLEAN, Ends(c, ok),
         call[c].todo # <<>>, ok \/ call[c].patient
  PROVE  /\ call'[c].at = "find" /\ call'[c].file = Head(call[c].todo)
         /\ call'[c].todo = Tail(call[c].todo)
         /\ UNCHANGED <<topic, handled, task, told, purged>>
<1>1. /\ call' = [call EXCEPT ![c] = [call[c] EXCEPT !.at = "find", !.file = Head(call[c].todo),
                                                    !.todo = Tail(call[c].todo)]]
      /\ UNCHANGED <<topic, handled, task, told, purged>>
  BY DEF Ends
<1> QED
  BY <1>1 DEF CallType

\* The call drops files from what it is going to do, and only its file loses its
\* document; the others are done later, or dropped at the end of an HTTP call.
LEMMA StepOfCall ==
  ASSUME CInv, NEW c \in Calls, DeletionStep(c) \/ StepFails(c)
  PROVE  /\ call[c].at \in {"find", "object"}
         /\ call'[c] = Idle \/ call'[c].at \in {"find", "object"}
         /\ \A d \in Calls : d # c => call'[d] = call[d]
         /\ call'[c] = Idle \/ Doing(c)' \subseteq Doing(c)
         /\ docs' \subseteq docs /\ docs \ {call[c].file} \subseteq docs' /\ cut \subseteq cut'
         /\ Doing(c) \cap docs' \subseteq Doing(c)' \cup cut' \cup Elements(call[c].todo)
         /\ call'[c] # Idle => Doing(c) \cap docs' \subseteq Doing(c)' \cup cut'
         /\ UNCHANGED <<outbox, lost, requests>>
<1> USE DEF contents, kafka, events
<1>1. /\ FInv /\ call \in CallType
      /\ call[c] = Idle \/ call[c].at \in {"find", "object"}
      /\ call[c].todo \in Seq(Files) /\ docs \cap removed = {}
  BY DEF CInv, FInv, TypeOK, CallType, OnlyPurges, StoreInOrder
<1>2. call[c].at \in {"find", "object"}
  BY <1>1, IdleDoes DEF DeletionStep, StepFails, FindByIdAndDelete, FileNotFound, DeleteObject,
     Forgets, Discards
<1>3. Effect(c)
  BY <1>1, DeletionEffect, FailureEffect
<1>4. \A d \in Calls : d # c => call'[d] = call[d]
  BY <1>3 DEF Effect, Alone
<1>5. cut \subseteq cut' /\ UNCHANGED <<outbox, lost, requests>>
  BY DEF DeletionStep, StepFails, FindByIdAndDelete, FileNotFound, DeleteObject, CutShort
<1>6. docs' \subseteq docs /\ docs \ {call[c].file} \subseteq docs'
  BY <1>1, <1>2 DEF DeletionStep, StepFails, FindByIdAndDelete, FileNotFound, DeleteObject,
     Forgets, Discards, Creates, Publishes, Puts, Saves
<1>7. CASE FindByIdAndDelete(c)
  <2>1. /\ call'[c].file = call[c].file /\ call'[c].todo = call[c].todo /\ call'[c].at = "object"
    BY <1>1, <1>7 DEF FindByIdAndDelete, GoOn, CallType
  <2> QED
    BY <1>1, <1>2, <1>4, <1>5, <1>6, <2>1 DEF Doing
<1>8. ASSUME NEW ok \in BOOLEAN, Ends(c, ok), call[c].file \notin docs' \ cut'
      PROVE  /\ call'[c] = Idle \/ call'[c].at = "find"
             /\ call'[c] = Idle \/ Doing(c)' \subseteq Doing(c)
             /\ Doing(c) \cap docs' \subseteq Doing(c)' \cup cut' \cup Elements(call[c].todo)
             /\ call'[c] # Idle => Doing(c) \cap docs' \subseteq Doing(c)' \cup cut'
  <2>1. CASE call[c].todo # <<>> /\ (ok \/ call[c].patient)
    <3>1. /\ call'[c].at = "find" /\ call'[c].file = Head(call[c].todo)
          /\ call'[c].todo = Tail(call[c].todo)
      BY <1>1, <1>8, <2>1, EndsNext
    <3>2. Elements(call[c].todo) = {Head(call[c].todo)} \cup Elements(Tail(call[c].todo))
      BY <1>1, <2>1, FirstAndOthers
    <3>3. Doing(c)' = Elements(call[c].todo)
      BY <3>1, <3>2 DEF Doing
    <3> QED
      BY <1>8, <3>1, <3>3 DEF Doing
  <2>2. CASE ~ (call[c].todo # <<>> /\ (ok \/ call[c].patient))
    <3>1. call'[c] = Idle
      BY <1>1, <1>8, <2>2 DEF Ends, CallType
    <3> QED
      BY <1>8, <3>1, IdleDoes DEF Doing
  <2> QED
    BY <2>1, <2>2
<1>9. CASE FileNotFound(c)
  BY <1>1, <1>2, <1>4, <1>5, <1>6, <1>8, <1>9 DEF FileNotFound
<1>10. CASE DeleteObject(c)
  <2>1. call[c].file \in removed
    BY <1>1, <1>10 DEF DeleteObject, Discards, FInv, DeletionsOwn
  <2> QED
    BY <1>1, <1>2, <1>4, <1>5, <1>6, <1>8, <1>10, <2>1 DEF DeleteObject, Discards
<1>11. CASE StepFails(c)
  <2>1. call[c].file \in cut'
    BY <1>1, <1>2, <1>11 DEF StepFails, CutShort
  <2> QED
    BY <1>1, <1>2, <1>4, <1>5, <1>6, <1>8, <1>11, <2>1 DEF StepFails
<1> QED
  BY <1>7, <1>9, <1>10, <1>11 DEF DeletionStep

\* The record in hand stays until the consumer is done with it.
LEMMA RecordOfCall ==
  ASSUME CInv, NEW c \in Calls, DeletionStep(c) \/ StepFails(c)
  PROVE  \/ /\ UNCHANGED <<topic, handled, task, purged>>
            /\ c = Consumer => call'[c].at # "idle"
         \/ /\ c = Consumer /\ task \in topic /\ call'[c] = Idle
            /\ topic' = topic \ {task} /\ handled' = handled \cup {task}
            /\ purged' = purged \cup Elements(task.files)
<1> USE DEF contents, kafka, events
<1>1. FInv /\ call \in CallType /\ call[c].at # "idle"
  BY StepOfCall DEF CInv, FInv, TypeOK, CallType
<1>2. CASE FindByIdAndDelete(c)
  BY <1>1, <1>2 DEF FindByIdAndDelete, GoOn, CallType
<1>3. ASSUME NEW ok \in BOOLEAN, Ends(c, ok)
      PROVE  \/ /\ UNCHANGED <<topic, handled, task, purged>>
                /\ c = Consumer => call'[c].at # "idle"
             \/ c = Consumer /\ call'[c] = Idle /\ Finish(ok)
  <2>1. CASE call[c].todo # <<>> /\ (ok \/ call[c].patient)
    BY <1>1, <1>3, <2>1, EndsNext
  <2>2. CASE ~ (call[c].todo # <<>> /\ (ok \/ call[c].patient))
    BY <1>1, <1>3, <2>2 DEF Ends, CallType
  <2> QED
    BY <2>1, <2>2
<1>4. ASSUME NEW ok \in BOOLEAN, c = Consumer, Finish(ok)
      PROVE  /\ task \in topic
             /\ topic' = topic \ {task} /\ handled' = handled \cup {task}
             /\ purged' = purged \cup Elements(task.files)
  <2>1. task \in topic
    BY <1>1, <1>4 DEF FInv, ConsumerInOrder
  <2>2. task.kind = "purge"
    BY <2>1 DEF CInv, OnlyPurges
  <2> QED
    BY <1>4, <2>1, <2>2 DEF Finish
<1> QED
  BY <1>2, <1>3, <1>4 DEF DeletionStep, StepFails, FileNotFound, DeleteObject

-----------------------------------------------------------------------------
(* Every step keeps the calls and the records in order *)

\* The consumer takes a record: it is to delete the files of the record.
LEMMA TakesRecord ==
  ASSUME CInv, NEW r \in topic, HandleUploadDelete(r)
  PROVE  /\ task' = r /\ call'[Consumer].at = "find"
         /\ Doing(Consumer)' = Elements(r.files) /\ Doing(Consumer) = {NoFile}
         /\ \A d \in Calls : d # Consumer => call'[d] = call[d]
         /\ UNCHANGED <<contents, requests, outbox, topic, handled, purged, events>>
<1>1. r.files \in Seq(used) /\ r.files # <<>> /\ call \in CallType /\ Consumer \in Calls
  BY DEF CInv, FInv, RecordsInOrder, HandleUploadDelete, TypeOK, CallType, Calls
<1>2. /\ task' = r /\ call[Consumer] = Idle
      /\ call'[Consumer].at = "find" /\ call'[Consumer].file = Head(r.files)
      /\ call'[Consumer].todo = Tail(r.files)
      /\ \A d \in Calls : d # Consumer => call'[d] = call[d]
      /\ UNCHANGED <<contents, requests, outbox, topic, handled, purged, events>>
  BY <1>1 DEF HandleUploadDelete, Begin, CallType
<1>3. Elements(r.files) = {Head(r.files)} \cup Elements(Tail(r.files))
  BY <1>1, FirstAndOthers
<1>4. Doing(Consumer) = {NoFile}
  BY <1>2, IdleDoes DEF Doing
<1>5. Doing(Consumer)' = Elements(r.files)
  BY <1>2, <1>3 DEF Doing
<1> QED
  BY <1>2, <1>4, <1>5

\* An HTTP call begins to delete the files of a list.
LEMMA TakesList ==
  ASSUME CInv, NEW c \in HttpCalls, NEW list \in Seq(used),
         IF list = <<>> THEN UNCHANGED call ELSE Begin(c, "find", Head(list), Tail(list), FALSE)
  PROVE  /\ \A d \in Calls : d # c => call'[d] = call[d]
         /\ list = <<>> => UNCHANGED call
         /\ list # <<>> => /\ call[c] = Idle /\ call'[c].at = "find"
                           /\ Doing(c)' = Elements(list)
<1>1. call \in CallType /\ c \in Calls
  BY DEF CInv, FInv, TypeOK, CallType, Calls
<1>2. CASE list # <<>>
  <2>1. /\ call[c] = Idle /\ call'[c].at = "find" /\ call'[c].file = Head(list)
        /\ call'[c].todo = Tail(list) /\ \A d \in Calls : d # c => call'[d] = call[d]
    BY <1>1, <1>2 DEF Begin, CallType
  <2>2. Elements(list) = {Head(list)} \cup Elements(Tail(list))
    BY <1>2, FirstAndOthers
  <2> QED
    BY <1>2, <2>1, <2>2 DEF Doing
<1> QED
  BY <1>2

\* So does a call that deletes one file.
LEMMA TakesFile ==
  ASSUME CInv, NEW c \in HttpCalls, NEW f \in Files, DeleteOverHttp(c, f)
  PROVE  /\ \A d \in Calls : d # c => call'[d] = call[d]
         /\ call[c] = Idle /\ call'[c].at = "find" /\ Doing(c)' = {f}
<1>1. call \in CallType /\ c \in Calls
  BY DEF CInv, FInv, TypeOK, CallType, Calls
<1>2. /\ call[c] = Idle /\ call'[c].at = "find" /\ call'[c].file = f /\ call'[c].todo = <<>>
      /\ \A d \in Calls : d # c => call'[d] = call[d]
  BY <1>1 DEF DeleteOverHttp, Begin, CallType
<1> QED
  BY <1>2 DEF Doing, Elements

\* Kafka moves records, and loses some; what is handled again was handled already.
LEMMA KafkaMoves ==
  ASSUME CInv, KafkaStep
  PROVE  /\ UNCHANGED <<contents, used, call, requests, task, told, confirmed, purged, cut>>
         /\ outbox' \subseteq outbox /\ handled' \subseteq handled /\ lost \subseteq lost'
         /\ topic \subseteq topic' /\ topic' \subseteq topic \cup outbox \cup handled
         /\ outbox \subseteq outbox' \cup topic' \cup lost'
<1> USE DEF contents, events
<1>1. ASSUME NEW r \in outbox, Publish(r) \/ PublishAgain(r) \/ PublishFails(r)
      PROVE  /\ UNCHANGED <<contents, used, call, requests, task, told, confirmed, purged, cut>>
             /\ outbox' \subseteq outbox /\ handled' = handled /\ lost \subseteq lost'
             /\ topic \subseteq topic' /\ topic' \subseteq topic \cup outbox
             /\ outbox \subseteq outbox' \cup topic' \cup lost'
  BY <1>1 DEF Publish, PublishAgain, PublishFails
<1>2. CASE Commit \/ Rebalance
  BY <1>2 DEF Commit, Rebalance, Redelivers
<1> QED
  BY <1>1, <1>2 DEF KafkaStep

\* What is deleted and sent remains of the kind it is.
LEMMA StepOnlyPurges == CInv /\ [ContentsNext]_contentsVars => OnlyPurges'
<1> SUFFICES ASSUME CInv, [ContentsNext]_contentsVars PROVE OnlyPurges'
  OBVIOUS
<1> USE DEF contents, kafka, events
<1>1. OnlyPurges /\ Consumer \in Calls /\ HttpCalls \subseteq Calls /\ Consumer \notin HttpCalls
  BY FilesAssumption DEF CInv, Calls
<1>2. CASE UNCHANGED <<call, outbox, topic, handled, purged, task>>
  BY <1>1, <1>2 DEF OnlyPurges, Doing
<1>3. ASSUME NEW c \in Calls, DeletionStep(c) \/ StepFails(c) PROVE OnlyPurges'
  <2>1. /\ call'[c] = Idle \/ call'[c].at \in {"find", "object"}
        /\ outbox' = outbox
        /\ \A d \in Calls : d # c => call'[d] = call[d]
        /\ call'[c] = Idle \/ Doing(c)' \subseteq Doing(c)
        /\ call[c].at # "idle"
    BY <1>3, StepOfCall
  <2>2. CASE UNCHANGED <<topic, handled, task, purged>>
    BY <1>1, <2>1, <2>2, IdleDoes DEF OnlyPurges, Doing
  <2>3. CASE /\ c = Consumer /\ task \in topic /\ call'[c] = Idle
             /\ topic' = topic \ {task} /\ handled' = handled \cup {task}
             /\ purged' = purged \cup Elements(task.files)
    BY <1>1, <2>1, <2>3, IdleDoes DEF OnlyPurges
  <2> QED
    BY <1>3, <2>2, <2>3, RecordOfCall
<1>4. ASSUME NEW r \in topic, HandleUploadDelete(r) PROVE OnlyPurges'
  BY <1>1, <1>4, TakesRecord DEF OnlyPurges
<1>5. ASSUME KafkaStep PROVE OnlyPurges'
  BY <1>1, <1>5, KafkaMoves DEF OnlyPurges, Doing
<1>6. CASE FileStep
  BY <1>3, <1>4, <1>5, <1>6 DEF FileStep, KafkaStep
<1>7. ASSUME NEW c \in HttpCalls, NEW m \in Messages, DeleteMessage(c, m) PROVE OnlyPurges'
  <2>1. UNCHANGED <<outbox, topic, handled, purged, task>>
    BY <1>7 DEF DeleteMessage
  <2>2. PICK list \in Seq(used) : IF list = <<>> THEN UNCHANGED call
                                  ELSE Begin(c, "find", Head(list), Tail(list), FALSE)
    BY <1>7, DeletedList
  <2> QED
    BY <1>1, <2>1, <2>2, TakesList DEF OnlyPurges, Doing
<1>8. ASSUME NEW c \in HttpCalls, NEW f \in Files, DeleteFile(c, f) PROVE OnlyPurges'
  <2>1. DeleteOverHttp(c, f) /\ UNCHANGED <<outbox, topic, handled, purged, task>>
    BY <1>8 DEF DeleteFile, DeleteOverHttp
  <2> QED
    BY <1>1, <2>1, TakesFile DEF OnlyPurges, Doing
<1>9. ASSUME NEW c \in HttpCalls, EmitRemoved(c) PROVE OnlyPurges'
  BY <1>1, <1>9 DEF EmitRemoved, Emit, OnlyPurges, Doing
<1>10. ASSUME NEW c \in HttpCalls, MessageStep(c) PROVE OnlyPurges'
  <2>1. CASE \/ \E m \in Messages : \/ \E images \in Lists, f \in Files \cup {NoFile} :
                                         AddMessage(c, m, images, f)
                                    \/ \E body \in Lists \cup {TextOnly} : FindMessage(c, m, body)
             \/ UpdateChat(c) \/ WriteMessage(c) \/ CallFails(c)
    <3>1. UNCHANGED <<call, outbox, topic, handled, purged, task>>
      BY <2>1 DEF AddMessage, FindMessage, UpdateChat, WriteMessage, CallFails, vars
    <3> QED
      BY <1>2, <3>1
  <2> QED
    BY <1>7, <1>8, <1>9, <1>10, <2>1 DEF MessageStep
<1>11. CASE Restart
  <2>1. /\ \A c \in Calls : call'[c] = Idle
        /\ outbox' = {} /\ topic' = topic \cup handled /\ handled' = {}
    BY <1>11 DEF Restart, Crash, Redelivers
  <2> QED
    BY <1>1, <2>1, IdleDoes DEF OnlyPurges
<1> QED
  BY <1>2, <1>6, <1>10, <1>11 DEF ContentsNext, contentsVars, vars

-----------------------------------------------------------------------------
(* The types *)

OpRecord == [at : {"none", "last", "write", "emit"}, msg : Messages \cup {NoMessage},
             body : Lists \cup {TextOnly}, removed : Lists]
Reasons == {"direct", "shared", "again", "text", "overwritten"} \X Files

\* The files that have been in use remain so.
LEMMA StepAges == CInv /\ [ContentsNext]_contentsVars => StoreAges
<1> SUFFICES ASSUME CInv, [ContentsNext]_contentsVars PROVE StoreAges
  OBVIOUS
<1> USE DEF contents, kafka, events
<1>1. ASSUME NEW c \in Calls, DeletionStep(c) \/ StepFails(c) PROVE StoreAges
  BY <1>1, DeletionEffect, FailureEffect, EffectAges DEF CInv
<1>2. ASSUME NEW r, HandleUploadDelete(r) \/ KafkaStep PROVE StoreAges
  BY <1>2, KafkaMoves DEF HandleUploadDelete, StoreAges
<1>3. ASSUME NEW c \in HttpCalls, MessageStep(c) PROVE StoreAges
  BY <1>3 DEF MessageStep, AddMessage, FindMessage, DeleteMessage, UpdateChat, WriteMessage,
     EmitRemoved, CallFails, DeleteFile, DeleteOverHttp, vars, StoreAges
<1>4. CASE Restart
  BY <1>4 DEF Restart, Crash, CutShort, StoreAges
<1>5. CASE UNCHANGED contentsVars
  BY <1>5 DEF contentsVars, vars, StoreAges
<1> QED
  BY <1>1, <1>2, <1>3, <1>4, <1>5 DEF ContentsNext, FileStep, KafkaStep

\* A call that is over is well typed.
LEMMA NoOpType ==
  /\ NoOp \in OpRecord /\ NoOp.at = "none" /\ NoOp.removed = <<>> /\ NoOp.msg = NoMessage
  /\ Elements(NoOp.removed) = {}
<1>1. <<>> \in [1..0 -> Files] /\ 0 \in 0..MaxImages
  BY ContentsAssumption
<1>2. <<>> \in Lists
  BY <1>1 DEF Lists, ListsUpTo
<1> QED
  BY <1>2 DEF NoOp, OpRecord, Elements

\* What a message refers to and what a call has removed are files.
LEMMA RefsAreFiles ==
  ASSUME ContentsTypeOK
  PROVE  /\ \A q \in Lists : q \in Seq(Files) /\ Elements(q) \subseteq Files
         /\ \A m \in DOMAIN msgs : Refs(m) \subseteq Files /\ Elements(msgs[m].images) \subseteq Files
         /\ \A c \in HttpCalls : Elements(op[c].removed) \subseteq Files
<1>1. \A q \in Lists : q \in Seq(Files) /\ Elements(q) \subseteq Files
  BY ListsAreSequences, ContentsAssumption DEF Lists
<1>2. \A m \in DOMAIN msgs : msgs[m].images \in Lists /\ msgs[m].file \in Files \cup {NoFile}
  BY DEF ContentsTypeOK, Content
<1>3. \A c \in HttpCalls : op[c].removed \in Lists
  BY DEF ContentsTypeOK
<1> QED
  BY <1>1, <1>2, <1>3 DEF Refs

\* The reasons noted are about files.
LEMMA DoubtsType ==
  ASSUME NEW m, NEW files \in SUBSET Files
  PROVE  Doubts(m, files) \subseteq Reasons
  BY DEF Doubts, Reasons

\* What a call drops is a file.
LEMMA AbandoningType ==
  ASSUME CInv, Abandoning
  PROVE  abandoned' \subseteq Files /\ abandoned \subseteq abandoned'
<1>1. \A c \in HttpCalls : Elements(call[c].todo) \subseteq Files
  BY DEF CInv, FInv, TypeOK, Calls, Elements
<1>2. abandoned \subseteq Files /\ \A c \in HttpCalls : Elements(op[c].removed) \subseteq Files
  BY RefsAreFiles DEF CInv, ContentsTypeOK
<1> DEFINE lists == UNION {Elements(call[c].todo) : c \in {d \in HttpCalls : call'[d] = Idle}}
           ended == {d \in HttpCalls : op[d].at = "emit" /\ op'[d] = NoOp /\ requests' = requests}
           images == UNION {Elements(op[c].removed) : c \in ended}
<1>3. abandoned' = abandoned \cup lists \cup images
  BY DEF Abandoning
<1>4. lists \subseteq Files /\ images \subseteq Files
  BY <1>1, <1>2
<1> HIDE DEF lists, images
<1> QED
  BY <1>2, <1>3, <1>4

\* What the types say of the messages and of the calls about them.
MessageTypes ==
  /\ DOMAIN msgs \subseteq born /\ born \subseteq Messages
  /\ \A m \in DOMAIN msgs : msgs[m] \in Content
  /\ last \in born \cup {NoMessage}
  /\ settled \subseteq born /\ before \subseteq settled \X born
  /\ op \in [HttpCalls -> OpRecord]
  /\ begun \in 0..MaxBegun
  /\ why \subseteq Reasons /\ given \subseteq Files

\* One call begins.
LEMMA BegunType == ContentsTypeOK /\ Begun => begun' \in 0..MaxBegun
  BY ContentsAssumption DEF ContentsTypeOK, Begun

\* addMessage keeps the types.
LEMMA AddMessageTypes ==
  ASSUME CInv, NEW c \in HttpCalls, NEW m \in Messages, NEW images \in Lists,
         NEW f \in Files \cup {NoFile}, AddMessage(c, m, images, f)
  PROVE  MessageTypes' /\ OpsInOrder'
<1>1. MessageTypes /\ OpsInOrder /\ m \notin born /\ begun' \in 0..MaxBegun
  BY BegunType DEF CInv, ContentsTypeOK, MessageTypes, OpRecord, Reasons, AddMessage
<1>2. Elements(images) \cup ({f} \ {NoFile}) \subseteq Files
  BY RefsAreFiles DEF CInv
<1>3. why' \subseteq Reasons /\ given' \subseteq Files
  BY <1>1, <1>2, DoubtsType DEF AddMessage, MessageTypes, Reasons
<1>4. /\ DOMAIN msgs' \subseteq born' /\ born' \subseteq Messages
      /\ \A n \in DOMAIN msgs' : msgs'[n] \in Content
  BY <1>1 DEF AddMessage, MessageTypes, Content
<1>5. [NoOp EXCEPT !.at = "last", !.msg = m] \in OpRecord
  BY NoOpType DEF OpRecord
<1>6. op' \in [HttpCalls -> OpRecord] /\ op'[c].at = "last" /\ op'[c].msg = m
      /\ op'[c].removed = <<>> /\ \A d \in HttpCalls : d # c => op'[d] = op[d]
  BY <1>1, <1>5, NoOpType DEF AddMessage, MessageTypes, OpRecord
<1>7. OpsInOrder'
  BY <1>1, <1>6 DEF AddMessage, OpsInOrder, vars, contents, Elements
<1> QED
  BY <1>1, <1>3, <1>4, <1>6, <1>7 DEF AddMessage, MessageTypes

\* So does the first step of updateMessageById.
LEMMA FindMessageTypes ==
  ASSUME CInv, NEW c \in HttpCalls, NEW m \in Messages, NEW body \in Lists \cup {TextOnly},
         FindMessage(c, m, body)
  PROVE  MessageTypes' /\ OpsInOrder'
<1>1. MessageTypes /\ OpsInOrder /\ m \in DOMAIN msgs /\ begun' \in 0..MaxBegun
  BY BegunType DEF CInv, ContentsTypeOK, MessageTypes, OpRecord, Reasons, FindMessage
<1>2. PICK out \in Lists :
        /\ Filtered(out, msgs[m].images, docs \ KeptBy(body))
        /\ op' = [op EXCEPT ![c] = [at |-> "write", msg |-> m, body |-> body, removed |-> out]]
        /\ why' = IF body = TextOnly THEN why \cup {<<"text", f>> : f \in Elements(out)} ELSE why
  BY DEF FindMessage
<1>3. Elements(out) \subseteq docs /\ Elements(out) \subseteq Files
  BY <1>2, FilteredElements, RefsAreFiles DEF CInv
<1>4. /\ op' \in [HttpCalls -> OpRecord] /\ op'[c].at = "write" /\ op'[c].msg = m
      /\ op'[c].removed = out /\ \A d \in HttpCalls : d # c => op'[d] = op[d]
  BY <1>1, <1>2 DEF MessageTypes, OpRecord
<1>5. OpsInOrder'
  BY <1>1, <1>3, <1>4 DEF FindMessage, OpsInOrder, MessageTypes, vars, contents
<1>6. why' \subseteq Reasons
  BY <1>1, <1>2, <1>3 DEF MessageTypes, Reasons
<1> QED
  BY <1>1, <1>4, <1>5, <1>6 DEF FindMessage, MessageTypes

\* So does its write.
LEMMA WriteMessageTypes ==
  ASSUME CInv, NEW c \in HttpCalls, WriteMessage(c)
  PROVE  MessageTypes' /\ OpsInOrder'
<1>1. MessageTypes /\ OpsInOrder
  BY DEF CInv, ContentsTypeOK, MessageTypes, OpRecord, Reasons
<1>2. /\ op' \in [HttpCalls -> OpRecord]
      /\ op'[c] = NoOp \/ /\ op'[c].at = "emit" /\ op'[c].msg = op[c].msg
                          /\ op'[c].removed = op[c].removed
      /\ \A d \in HttpCalls : d # c => op'[d] = op[d]
  BY <1>1, NoOpType DEF WriteMessage, MessageTypes, OpRecord
<1>3. OpsInOrder'
  BY <1>1, <1>2, NoOpType DEF WriteMessage, OpsInOrder, vars, contents
<1>4. op[c].body # TextOnly => op[c].body \in Lists /\ Elements(op[c].body) \subseteq Files
  BY <1>1, RefsAreFiles DEF CInv, MessageTypes, OpRecord
<1>5. \A m \in DOMAIN msgs : Elements(msgs[m].images) \subseteq Files
  BY RefsAreFiles DEF CInv
<1>6. given' \subseteq Files /\ why' \subseteq Reasons
  BY <1>1, <1>4, <1>5, DoubtsType DEF WriteMessage, MessageTypes, Reasons
<1>7. DOMAIN msgs' = DOMAIN msgs /\ \A m \in DOMAIN msgs : msgs'[m] \in Content
  BY <1>1, <1>4 DEF WriteMessage, MessageTypes, Content
<1> QED
  BY <1>1, <1>2, <1>3, <1>6, <1>7 DEF WriteMessage, MessageTypes

\* So do the steps that end a call.
LEMMA CallEndsTypes ==
  ASSUME CInv, NEW c \in HttpCalls, UpdateChat(c) \/ EmitRemoved(c) \/ CallFails(c)
  PROVE  MessageTypes' /\ OpsInOrder'
<1>1. MessageTypes /\ OpsInOrder
  BY DEF CInv, ContentsTypeOK, MessageTypes, OpRecord, Reasons
<1>2. /\ op' \in [HttpCalls -> OpRecord] /\ op'[c] = NoOp
      /\ \A d \in HttpCalls : d # c => op'[d] = op[d]
  BY <1>1, NoOpType DEF UpdateChat, EmitRemoved, CallFails, MessageTypes
<1>3. UNCHANGED <<docs, removed, born>>
  BY DEF UpdateChat, EmitRemoved, CallFails, vars, contents
<1>4. OpsInOrder'
  BY <1>1, <1>2, <1>3, NoOpType DEF OpsInOrder
<1>5. /\ last' \in born \cup {NoMessage}
      /\ settled' \subseteq born /\ before' \subseteq settled' \X born
  BY <1>1 DEF UpdateChat, EmitRemoved, CallFails, MessageTypes, OpsInOrder
<1> QED
  BY <1>1, <1>2, <1>3, <1>4, <1>5 DEF UpdateChat, EmitRemoved, CallFails, MessageTypes

\* Every step keeps the types, and the calls about messages in order.
LEMMA StepTypes == CInv /\ [ContentsNext]_contentsVars => ContentsTypeOK' /\ OpsInOrder'
<1> SUFFICES ASSUME CInv, [ContentsNext]_contentsVars PROVE ContentsTypeOK' /\ OpsInOrder'
  OBVIOUS
<1>1. MessageTypes /\ OpsInOrder /\ abandoned \subseteq Files /\ TypeOK' /\ StoreAges
  BY StepFiles, StepAges DEF CInv, FInv, ContentsTypeOK, MessageTypes, OpRecord, Reasons
<1>2. ASSUME UNCHANGED chatVars PROVE MessageTypes' /\ OpsInOrder'
  BY <1>1, <1>2 DEF chatVars, MessageTypes, OpsInOrder, StoreAges
<1>3. ASSUME NEW c \in HttpCalls, NEW m \in Messages, DeleteMessage(c, m)
      PROVE  MessageTypes' /\ OpsInOrder'
  <2>1. /\ DOMAIN msgs' \subseteq DOMAIN msgs /\ \A n \in DOMAIN msgs' : msgs'[n] = msgs[n]
        /\ begun' \in 0..MaxBegun /\ UNCHANGED <<last, op, born, given, settled, before, why>>
    BY <1>3, BegunType DEF DeleteMessage, CInv
  <2> QED
    BY <1>1, <2>1 DEF MessageTypes, OpsInOrder, StoreAges
<1>4. ASSUME NEW c \in HttpCalls, NEW f \in Files, DeleteFile(c, f)
      PROVE  MessageTypes' /\ OpsInOrder'
  BY <1>1, <1>4 DEF DeleteFile, MessageTypes, OpsInOrder, StoreAges, Reasons
<1>5. ASSUME NEW c \in HttpCalls, MessageStep(c) PROVE MessageTypes' /\ OpsInOrder'
  BY <1>3, <1>4, <1>5, AddMessageTypes, FindMessageTypes, WriteMessageTypes, CallEndsTypes
     DEF MessageStep
<1>6. ASSUME Restart PROVE MessageTypes' /\ OpsInOrder'
  <2>1. op' \in [HttpCalls -> OpRecord] /\ \A c \in HttpCalls : op'[c] = NoOp
    BY <1>6, NoOpType DEF Restart
  <2>2. UNCHANGED <<msgs, last, born, given, settled, before, begun, why>>
    BY <1>6 DEF Restart
  <2> QED
    BY <1>1, <2>1, <2>2, NoOpType DEF MessageTypes, OpsInOrder
<1>7. MessageTypes' /\ OpsInOrder'
  BY <1>2, <1>5, <1>6 DEF ContentsNext, contentsVars
<1>8. abandoned' \subseteq Files
  BY <1>1, AbandoningType DEF ContentsNext, contentsVars
<1> QED
  BY <1>1, <1>7, <1>8 DEF ContentsTypeOK, MessageTypes, OpRecord, Reasons

\* The invariant of the calls, the records and the files is inductive.
LEMMA StepCInv == CInv /\ [ContentsNext]_contentsVars => CInv'
  BY StepFiles, StepTypes, StepOnlyPurges DEF CInv

\* In every reachable state: the types, the order of the calls, and only purges on the way.
THEOREM ContentsInvariant == ContentsSpec => []CInv
<1> QED
  BY InitCInv, StepCInv, PTL DEF ContentsSpec

\* The calls about messages and the deletions of their files keep the types.
THEOREM ContentsTypeCorrect == ContentsSpec => []ContentsTypeOK
<1>1. CInv => ContentsTypeOK
  BY DEF CInv
<1> QED
  BY <1>1, ContentsInvariant, PTL

-----------------------------------------------------------------------------
(* The last message of the chat *)

\* A message the chat has not got yet as its last one is the business of one call.
LastInOrder ==
  /\ \A c \in HttpCalls : op[c].at = "last" => op[c].msg \notin settled
  /\ \A c, d \in HttpCalls :
       op[c].at = "last" /\ op[d].at = "last" /\ op[c].msg = op[d].msg => c = d
  /\ LastIsNewest

LEMMA LastStep == CInv /\ LastInOrder /\ [ContentsNext]_contentsVars => LastInOrder'
<1> SUFFICES ASSUME CInv, LastInOrder, [ContentsNext]_contentsVars PROVE LastInOrder'
  OBVIOUS
<1>1. /\ op \in [HttpCalls -> OpRecord] /\ NoOp.at = "none"
      /\ settled \subseteq born /\ before \subseteq settled \X born
      /\ \A c \in HttpCalls : op[c].at # "none" => op[c].msg \in born
  BY NoOpType DEF CInv, ContentsTypeOK, OpRecord, OpsInOrder
<1>2. ASSUME UNCHANGED <<last, settled, before>>,
             \A c \in HttpCalls : op'[c] = op[c] \/ op'[c].at # "last"
      PROVE  LastInOrder'
  BY <1>2 DEF LastInOrder, LastIsNewest
<1>3. ASSUME NEW c \in HttpCalls, NEW m \in Messages, NEW images, NEW f, AddMessage(c, m, images, f)
      PROVE  LastInOrder'
  <2>1. op'[c].at = "last" /\ op'[c].msg = m /\ \A d \in HttpCalls : d # c => op'[d] = op[d]
    BY <1>1, <1>3, NoOpType DEF AddMessage, OpRecord
  <2>2. m \notin born /\ UNCHANGED <<last, settled>> /\ before' = before \cup (settled \X {m})
    BY <1>3 DEF AddMessage
  <2>3. LastIsNewest'
    BY <1>1, <2>2 DEF LastInOrder, LastIsNewest
  <2>4. \A d \in HttpCalls : d # c /\ op[d].at = "last" => op[d].msg # m
    BY <1>1, <2>2
  <2> QED
    BY <1>1, <2>1, <2>2, <2>3, <2>4 DEF LastInOrder
<1>4. ASSUME NEW c \in HttpCalls, UpdateChat(c) PROVE LastInOrder'
  <2>1. op[c].at = "last" /\ op'[c] = NoOp /\ \A d \in HttpCalls : d # c => op'[d] = op[d]
    BY <1>1, <1>4 DEF UpdateChat
  <2>2. last' = op[c].msg /\ settled' = settled \cup {op[c].msg} /\ before' = before
    BY <1>4 DEF UpdateChat
  <2>3. op[c].msg \notin settled
    BY <2>1 DEF LastInOrder
  <2>4. LastIsNewest'
    BY <1>1, <2>2, <2>3 DEF LastIsNewest
  <2> QED
    BY <1>1, <2>1, <2>2, <2>4 DEF LastInOrder
<1>5. ASSUME NEW c \in HttpCalls, MessageStep(c) PROVE LastInOrder'
  <2>1. ASSUME NEW m \in Messages, NEW body, FindMessage(c, m, body) PROVE LastInOrder'
    <3>1. op'[c].at # "last" /\ \A d \in HttpCalls : d # c => op'[d] = op[d]
      BY <1>1, <2>1 DEF FindMessage
    <3> QED
      BY <1>2, <2>1, <3>1 DEF FindMessage
  <2>2. ASSUME WriteMessage(c) \/ EmitRemoved(c) \/ CallFails(c) PROVE LastInOrder'
    <3>1. op'[c].at # "last" /\ \A d \in HttpCalls : d # c => op'[d] = op[d]
      BY <1>1, <2>2 DEF WriteMessage, EmitRemoved, CallFails, OpRecord
    <3> QED
      BY <1>2, <2>2, <3>1 DEF WriteMessage, EmitRemoved, CallFails
  <2>3. ASSUME \/ \E m \in Messages : DeleteMessage(c, m)
               \/ \E f \in Files : DeleteFile(c, f)
        PROVE  LastInOrder'
    BY <1>2, <2>3 DEF DeleteMessage, DeleteFile
  <2> QED
    BY <1>3, <1>4, <1>5, <2>1, <2>2, <2>3 DEF MessageStep
<1>6. CASE Restart
  BY <1>1, <1>2, <1>6 DEF Restart
<1>7. CASE UNCHANGED chatVars
  BY <1>2, <1>7 DEF chatVars
<1> QED
  BY <1>5, <1>6, <1>7 DEF ContentsNext, contentsVars

\* However additions of messages overlap, the chat's last message is one of them, and
\* no other that got that far was begun after it.
THEOREM NewestIsLast == ContentsSpec => []LastIsNewest
<1>1. ContentsInit => LastInOrder
  BY NoOpType DEF ContentsInit, LastInOrder, LastIsNewest
<1>2. LastInOrder => LastIsNewest
  BY DEF LastInOrder
<1> QED
  BY <1>1, <1>2, LastStep, ContentsInvariant, PTL DEF ContentsSpec

-----------------------------------------------------------------------------
(* The files that messages refer to *)

Excused(f) == \E w \in {"direct", "shared", "again", "text"} : <<w, f>> \in why

\* Nothing deletes file f, and nothing is going to.
Untouched(f) ==
  /\ f \in docs \ purged
  /\ \A r \in outbox \cup topic : f \notin Elements(r.files)
  /\ \A c \in Calls : f \notin Doing(c)

\* Message m refers to f in one place, and no other message does.
OnlyOf(m, f) ==
  /\ \A n \in DOMAIN msgs \ {m} : f \notin Refs(n)
  /\ f = msgs[m].file => f \notin Elements(msgs[m].images)

\* A call that has f removed is the update of message m that is going to replace f.
ReplacedIn(m, f) ==
  \A c \in HttpCalls : f \in Elements(op[c].removed) =>
    /\ op[c].at = "write" /\ op[c].msg = m /\ f # msgs[m].file
    /\ op[c].body # TextOnly /\ f \notin Elements(op[c].body)

FilesKept ==
  \A m \in DOMAIN msgs : \A f \in Refs(m) :
    Excused(f) \/ (Untouched(f) /\ OnlyOf(m, f) /\ ReplacedIn(m, f))

\* A file that nothing is going to delete is not deleted by the calls and the
\* consumer.
LEMMA FileStepUntouched ==
  ASSUME CInv, FileStep, NEW f \in Files, Untouched(f)
  PROVE  Untouched(f)'
<1> USE DEF contents, kafka, events, Untouched
<1>1. Consumer \in Calls /\ f # NoFile /\ {Idle.file} \cup Elements(Idle.todo) = {NoFile}
  BY FilesAssumption, IdleDoes DEF Calls
<1>2. ASSUME NEW c \in Calls, DeletionStep(c) \/ StepFails(c) PROVE Untouched(f)'
  <2>1. f # call[c].file
    BY DEF Doing
  <2>2. /\ f \in docs' /\ outbox' = outbox
        /\ \A d \in Calls : d # c => call'[d] = call[d]
        /\ call'[c] = Idle \/ Doing(c)' \subseteq Doing(c)
    BY <1>2, <2>1, StepOfCall
  <2>3. \A d \in Calls : f \notin Doing(d)'
    BY <1>1, <2>2 DEF Doing
  <2>4. f \notin purged' /\ topic' \subseteq topic
    BY <1>2, RecordOfCall
  <2> QED
    BY <2>2, <2>3, <2>4
<1>3. ASSUME NEW r \in topic, HandleUploadDelete(r) PROVE Untouched(f)'
  <2>1. /\ f \notin Doing(Consumer)' /\ \A d \in Calls : d # Consumer => call'[d] = call[d]
        /\ UNCHANGED <<docs, outbox, topic, purged>>
    BY <1>3, TakesRecord
  <2>2. \A d \in Calls : f \notin Doing(d)'
    BY <2>1 DEF Doing
  <2> QED
    BY <2>1, <2>2
<1>4. CASE KafkaStep
  <2>1. \A r \in handled : f \notin Elements(r.files)
    BY DEF CInv, OnlyPurges
  <2>2. \A r \in outbox' \cup topic' : f \notin Elements(r.files)
    BY <1>4, <2>1, KafkaMoves
  <2> QED
    BY <1>4, <2>2, KafkaMoves DEF Doing
<1> QED
  BY <1>2, <1>3, <1>4 DEF FileStep, KafkaStep

\* Nor is it by a restart.
LEMMA CrashUntouched ==
  ASSUME CInv, Crash, NEW f \in Files, Untouched(f)
  PROVE  Untouched(f)'
<1>1. f # NoFile /\ \A c \in Calls : call'[c] = Idle
  BY FilesAssumption DEF Crash
<1>2. \A c \in Calls : f \notin Doing(c)'
  BY <1>1, IdleDoes DEF Doing
<1>3. outbox' = {} /\ topic' = topic \cup handled /\ UNCHANGED <<docs, purged>>
  BY DEF Crash, Redelivers, contents
<1>4. \A r \in handled : Elements(r.files) \subseteq purged
  BY DEF CInv, OnlyPurges
<1> QED
  BY <1>2, <1>3, <1>4 DEF Untouched

\* A message that comes to refer to f without giving rise to a doubt is the only
\* one, and nothing is going to delete f.
LEMMA NoDoubts ==
  ASSUME NEW m, NEW files, NEW f \in files, Doubts(m, files) \subseteq why', ~ Excused(f)'
  PROVE  /\ \A n \in DOMAIN msgs \ {m} : f \notin Refs(n)
         /\ m \in DOMAIN msgs => f # msgs[m].file
         /\ Untouched(f) /\ \A c \in HttpCalls : f \notin Elements(op[c].removed)
<1>1. <<"shared", f>> \notin why' /\ <<"again", f>> \notin why'
  BY DEF Excused
<1>2. <<"shared", f>> \notin Doubts(m, files) /\ <<"again", f>> \notin Doubts(m, files)
  BY <1>1
<1>3. /\ f \notin UNION {Refs(n) : n \in DOMAIN msgs \ {m}}
      /\ f \notin {msgs[n].file : n \in DOMAIN msgs \cap {m}}
  BY <1>2 DEF Doubts
<1>4. ~ Pending(f) /\ f \notin purged /\ f \in docs
  BY <1>2 DEF Doubts
<1> QED
  BY <1>3, <1>4 DEF Pending, Untouched, Doing

\* What was excused remains excused.
LEMMA ExcusedRemains ==
  ASSUME NEW f, ~ Excused(f)', why \subseteq why'
  PROVE  ~ Excused(f)
  BY DEF Excused

\* addMessage.
LEMMA AddMessageKept ==
  ASSUME CInv, FilesKept, NEW c \in HttpCalls, NEW m \in Messages, NEW images \in Lists,
         NEW file \in Files \cup {NoFile}, AddMessage(c, m, images, file)
  PROVE  FilesKept'
<1> USE DEF contents, kafka, events
<1> DEFINE files == Elements(images) \cup ({file} \ {NoFile})
<1>1. /\ UNCHANGED <<docs, purged, outbox, topic, call>>
      /\ why \subseteq why' /\ Doubts(m, files) \subseteq why'
      /\ \A f \in Elements(images) \cap {file} : <<"shared", f>> \in why'
  BY DEF AddMessage, vars
<1>2. m \notin DOMAIN msgs /\ DOMAIN msgs' = DOMAIN msgs \cup {m}
  BY DEF AddMessage, CInv, ContentsTypeOK
<1>3. msgs'[m].images = images /\ msgs'[m].file = file
      /\ \A n \in DOMAIN msgs : msgs'[n] = msgs[n]
  BY <1>2 DEF AddMessage
<1>4. Refs(m)' = files /\ \A n \in DOMAIN msgs : Refs(n)' = Refs(n)
  BY <1>2, <1>3 DEF Refs
<1>5. \A d \in HttpCalls : d # c => op'[d] = op[d]
  BY DEF AddMessage, CInv, ContentsTypeOK
<1>6. op'[c].removed = <<>> /\ Elements(op'[c].removed) = {}
  BY NoOpType DEF AddMessage, CInv, ContentsTypeOK, OpRecord, Elements
<1>7. \A f : Untouched(f) => Untouched(f)'
  BY <1>1 DEF Untouched, Doing
<1> SUFFICES ASSUME NEW n \in DOMAIN msgs', NEW f \in Refs(n)', ~ Excused(f)'
             PROVE  Untouched(f)' /\ OnlyOf(n, f)' /\ ReplacedIn(n, f)'
  BY DEF FilesKept
<1>8. ~ Excused(f)
  BY <1>1, ExcusedRemains
<1> HIDE DEF files
<1>9. CASE n = m
  <2>1. f \in files
    BY <1>4, <1>9
  <2>2. /\ \A k \in DOMAIN msgs \ {m} : f \notin Refs(k)
        /\ Untouched(f) /\ \A d \in HttpCalls : f \notin Elements(op[d].removed)
    BY <1>1, <2>1, NoDoubts
  <2>3. f = file => f \notin Elements(images)
    BY <1>1 DEF Excused
  <2>4. OnlyOf(m, f)'
    BY <1>2, <1>3, <1>4, <2>2, <2>3 DEF OnlyOf
  <2>5. ReplacedIn(m, f)'
    BY <1>5, <1>6, <2>2 DEF ReplacedIn
  <2> QED
    BY <1>7, <1>9, <2>2, <2>4, <2>5
<1>10. CASE n # m
  <2>1. n \in DOMAIN msgs /\ f \in Refs(n)
    BY <1>2, <1>4, <1>10
  <2>2. Untouched(f) /\ OnlyOf(n, f) /\ ReplacedIn(n, f)
    BY <1>8, <2>1 DEF FilesKept
  <2>3. f \notin files
    <3>1. f \in files => \A k \in DOMAIN msgs \ {m} : f \notin Refs(k)
      BY <1>1, NoDoubts
    <3> QED
      BY <1>10, <2>1, <3>1
  <2>4. OnlyOf(n, f)'
    BY <1>2, <1>3, <1>4, <2>1, <2>2, <2>3 DEF OnlyOf
  <2>5. ReplacedIn(n, f)'
    BY <1>3, <1>5, <1>6, <2>1, <2>2 DEF ReplacedIn
  <2> QED
    BY <1>7, <2>2, <2>4, <2>5
<1> QED
  BY <1>9, <1>10

\* The first step of updateMessageById.
LEMMA FindMessageKept ==
  ASSUME CInv, FilesKept, NEW c \in HttpCalls, NEW m \in Messages,
         NEW body \in Lists \cup {TextOnly}, FindMessage(c, m, body)
  PROVE  FilesKept'
<1>1. PICK out \in Lists :
        /\ Filtered(out, msgs[m].images, docs \ KeptBy(body))
        /\ op' = [op EXCEPT ![c] = [at |-> "write", msg |-> m, body |-> body, removed |-> out]]
        /\ why' = IF body = TextOnly THEN why \cup {<<"text", f>> : f \in Elements(out)} ELSE why
  BY DEF FindMessage
<1>2. Elements(out) = Elements(msgs[m].images) \cap (docs \ KeptBy(body))
  BY <1>1, FilteredElements
<1>3. /\ op'[c].at = "write" /\ op'[c].msg = m /\ op'[c].body = body /\ op'[c].removed = out
      /\ \A d \in HttpCalls : d # c => op'[d] = op[d]
  BY <1>1 DEF CInv, ContentsTypeOK
<1>4. m \in DOMAIN msgs /\ UNCHANGED <<vars, msgs>> /\ why \subseteq why'
  BY <1>1 DEF FindMessage
<1> SUFFICES ASSUME NEW n \in DOMAIN msgs, NEW f \in Refs(n), ~ Excused(f)'
             PROVE  Untouched(f)' /\ OnlyOf(n, f)' /\ ReplacedIn(n, f)'
  BY <1>4 DEF FilesKept, Refs
<1>5. Untouched(f) /\ OnlyOf(n, f) /\ ReplacedIn(n, f)
  BY <1>4, ExcusedRemains DEF FilesKept
<1>6. Untouched(f)' /\ OnlyOf(n, f)'
  BY <1>4, <1>5 DEF Untouched, OnlyOf, Doing, Refs, vars, contents, kafka
<1>7. ASSUME f \in Elements(out)
      PROVE  m = n /\ f # msgs[n].file /\ body # TextOnly /\ f \notin Elements(body)
  <2>1. f \in Elements(msgs[m].images) /\ f \in Refs(m)
    BY <1>2, <1>7 DEF Refs
  <2>2. m = n /\ f # msgs[n].file
    BY <1>4, <1>5, <2>1 DEF OnlyOf
  <2>3. body # TextOnly
    BY <1>1, <1>7 DEF Excused
  <2> QED
    BY <1>2, <1>7, <2>2, <2>3 DEF KeptBy
<1>8. ReplacedIn(n, f)'
  BY <1>3, <1>4, <1>5, <1>7 DEF ReplacedIn
<1> QED
  BY <1>6, <1>8

\* Its write.
LEMMA WriteMessageKept ==
  ASSUME CInv, FilesKept, NEW c \in HttpCalls, WriteMessage(c)
  PROVE  FilesKept'
<1>1. /\ UNCHANGED vars /\ why \subseteq why' /\ op[c].at = "write"
      /\ op \in [HttpCalls -> OpRecord]
  BY DEF WriteMessage, CInv, ContentsTypeOK, OpRecord
<1>2. \A f : Untouched(f) => Untouched(f)'
  BY <1>1 DEF Untouched, Doing, vars, contents, kafka
<1>3. /\ \A d \in HttpCalls : d # c => op'[d] = op[d]
      /\ \/ op'[c] = NoOp
         \/ op'[c].at = "emit" /\ op'[c].removed = op[c].removed /\ op[c].msg \in DOMAIN msgs
  BY <1>1 DEF WriteMessage, OpRecord
<1>4. ASSUME UNCHANGED msgs, op'[c] = NoOp \/ op[c].body = TextOnly PROVE FilesKept'
  <2> SUFFICES ASSUME NEW n \in DOMAIN msgs, NEW f \in Refs(n), ~ Excused(f)'
               PROVE  Untouched(f)' /\ OnlyOf(n, f)' /\ ReplacedIn(n, f)'
    BY <1>4 DEF FilesKept, Refs
  <2>1. Untouched(f) /\ OnlyOf(n, f) /\ ReplacedIn(n, f)
    BY <1>1, ExcusedRemains DEF FilesKept
  <2>2. Untouched(f)' /\ OnlyOf(n, f)'
    BY <1>2, <1>4, <2>1 DEF OnlyOf, Refs
  <2>3. ReplacedIn(n, f)'
    BY <1>3, <1>4, <2>1, NoOpType DEF ReplacedIn
  <2> QED
    BY <2>2, <2>3
<1>5. ASSUME NEW m \in DOMAIN msgs, NEW body \in Lists, m = op[c].msg, body = op[c].body,
             body # TextOnly
      PROVE  FilesKept'
  <2> DEFINE new == Elements(body) \ Elements(msgs[m].images)
  <2>1. /\ msgs' = [msgs EXCEPT ![m].images = body] /\ Doubts(m, new) \subseteq why'
        /\ op' = [op EXCEPT ![c].at = "emit"]
    BY <1>5 DEF WriteMessage
  <2>2. op'[c].at = "emit" /\ op'[c].removed = op[c].removed
    BY <1>1, <2>1 DEF OpRecord
  <2>3. msgs[m] \in Content
    BY <1>5 DEF CInv, ContentsTypeOK
  <2>4. /\ DOMAIN msgs' = DOMAIN msgs
        /\ msgs'[m].images = body /\ msgs'[m].file = msgs[m].file
        /\ \A n \in DOMAIN msgs : n # m => msgs'[n] = msgs[n]
    BY <1>5, <2>1, <2>3 DEF Content
  <2>5. /\ Refs(m)' = Elements(body) \cup ({msgs[m].file} \ {NoFile})
        /\ \A n \in DOMAIN msgs : n # m => Refs(n)' = Refs(n)
    BY <2>4 DEF Refs
  <2> SUFFICES ASSUME NEW n \in DOMAIN msgs, NEW f \in Refs(n)', ~ Excused(f)'
               PROVE  Untouched(f)' /\ OnlyOf(n, f)' /\ ReplacedIn(n, f)'
    BY <2>4 DEF FilesKept
  <2>6. ~ Excused(f)
    BY <1>1, ExcusedRemains
  <2>7. ASSUME f \in new
        PROVE  /\ \A k \in DOMAIN msgs \ {m} : f \notin Refs(k)
               /\ f # msgs[m].file
               /\ Untouched(f) /\ \A d \in HttpCalls : f \notin Elements(op[d].removed)
    <3>1. m \in DOMAIN msgs /\ Doubts(m, new) \subseteq why'
      BY <2>1
    <3> HIDE DEF new
    <3> QED
      BY <2>7, <3>1, NoDoubts
  <2>8. CASE f \in new
    <3>1. n = m
      BY <2>5, <2>7, <2>8
    <3>2. OnlyOf(m, f)'
      BY <2>4, <2>5, <2>7, <2>8 DEF OnlyOf
    <3>3. ReplacedIn(m, f)'
      BY <1>3, <2>2, <2>7, <2>8 DEF ReplacedIn
    <3> QED
      BY <1>2, <2>7, <2>8, <3>1, <3>2, <3>3
  <2>9. CASE f \notin new /\ n = m
    <3>1. f \in Refs(m)
      BY <2>5, <2>9 DEF Refs
    <3>2. Untouched(f) /\ OnlyOf(m, f) /\ ReplacedIn(m, f)
      BY <1>5, <2>6, <3>1 DEF FilesKept
    <3>3. OnlyOf(m, f)'
      BY <2>4, <2>5, <2>9, <3>2 DEF OnlyOf
    <3>4. f \notin Elements(op[c].removed)
      BY <1>5, <2>5, <2>9, <3>2 DEF ReplacedIn
    <3>5. ReplacedIn(m, f)'
      BY <1>3, <2>2, <2>4, <3>2, <3>4 DEF ReplacedIn
    <3> QED
      BY <1>2, <2>9, <3>2, <3>3, <3>5
  <2>10. CASE f \notin new /\ n # m
    <3>1. Untouched(f) /\ OnlyOf(n, f) /\ ReplacedIn(n, f)
      BY <2>5, <2>6, <2>10 DEF FilesKept
    <3>2. f \notin Refs(m)'
      BY <1>5, <2>5, <2>10, <3>1 DEF OnlyOf, Refs
    <3>3. OnlyOf(n, f)'
      BY <2>4, <2>5, <2>10, <3>1, <3>2 DEF OnlyOf
    <3>4. ReplacedIn(n, f)'
      BY <1>3, <1>5, <2>2, <2>4, <2>10, <3>1 DEF ReplacedIn
    <3> QED
      BY <1>2, <3>1, <3>3, <3>4
  <2> QED
    BY <2>8, <2>9, <2>10
<1>6. op[c].msg \notin DOMAIN msgs => UNCHANGED msgs /\ op'[c] = NoOp
  BY <1>1 DEF WriteMessage
<1>7. op[c].body = TextOnly => UNCHANGED msgs
  BY DEF WriteMessage
<1>8. op[c].body \in Lists \cup {TextOnly}
  BY <1>1 DEF OpRecord
<1> QED
  BY <1>4, <1>5, <1>6, <1>7, <1>8

\* The steps that leave the messages alone and have no more files removed.
LEMMA OthersKept ==
  ASSUME FilesKept, why \subseteq why', DOMAIN msgs' \subseteq DOMAIN msgs,
         \A n \in DOMAIN msgs' : msgs'[n] = msgs[n],
         \A c \in HttpCalls : op'[c] = op[c] \/ op'[c] = NoOp,
         \A n \in DOMAIN msgs' : \A f \in Refs(n) :
           ~ Excused(f)' /\ Untouched(f) /\ OnlyOf(n, f) /\ ReplacedIn(n, f) => Untouched(f)'
  PROVE  FilesKept'
<1>1. \A n \in DOMAIN msgs' : Refs(n)' = Refs(n)
  BY DEF Refs
<1> SUFFICES ASSUME NEW n \in DOMAIN msgs', NEW f \in Refs(n), ~ Excused(f)'
             PROVE  Untouched(f)' /\ OnlyOf(n, f)' /\ ReplacedIn(n, f)'
  BY <1>1 DEF FilesKept
<1>2. Untouched(f) /\ OnlyOf(n, f) /\ ReplacedIn(n, f)
  BY ExcusedRemains DEF FilesKept
<1>3. OnlyOf(n, f)'
  BY <1>1, <1>2 DEF OnlyOf
<1>4. ReplacedIn(n, f)'
  BY <1>2, NoOpType DEF ReplacedIn
<1> QED
  BY <1>2, <1>3, <1>4

LEMMA StepKept == CInv /\ FilesKept /\ [ContentsNext]_contentsVars => FilesKept'
<1> SUFFICES ASSUME CInv, FilesKept, [ContentsNext]_contentsVars PROVE FilesKept'
  OBVIOUS
<1> USE DEF contents, kafka, events
<1>1. \A n \in DOMAIN msgs : Refs(n) \subseteq Files
  BY RefsAreFiles DEF CInv
<1>2. op \in [HttpCalls -> OpRecord]
  BY DEF CInv, ContentsTypeOK, OpRecord
<1>3. CASE FileStep /\ UNCHANGED chatVars
  BY <1>1, <1>3, FileStepUntouched, OthersKept DEF chatVars
<1>4. CASE UNCHANGED contentsVars
  BY <1>4, OthersKept DEF contentsVars, chatVars, vars, Untouched, Doing
<1>5. CASE Restart
  <2>1. Crash /\ UNCHANGED <<msgs, why>> /\ \A c \in HttpCalls : op'[c] = NoOp
    BY <1>5 DEF Restart
  <2> QED
    BY <1>1, <2>1, CrashUntouched, OthersKept
<1>6. ASSUME NEW c \in HttpCalls, UpdateChat(c) \/ CallFails(c) PROVE FilesKept'
  <2>1. /\ UNCHANGED <<msgs, why, docs, purged, outbox, topic, call>>
        /\ \A d \in HttpCalls : op'[d] = op[d] \/ op'[d] = NoOp
    BY <1>2, <1>6 DEF UpdateChat, CallFails, vars
  <2>2. \A f : Untouched(f) => Untouched(f)'
    BY <2>1 DEF Untouched, Doing
  <2> QED
    BY <2>1, <2>2, OthersKept
<1>7. ASSUME NEW c \in HttpCalls, EmitRemoved(c) PROVE FilesKept'
  <2>1. /\ UNCHANGED <<msgs, why, docs, purged, topic, call>> /\ op[c].at = "emit"
        /\ \A d \in HttpCalls : op'[d] = op[d] \/ op'[d] = NoOp
    BY <1>2, <1>7 DEF EmitRemoved
  <2>2. \A r \in outbox' : r \in outbox \/ r.files = op[c].removed
    BY <1>7 DEF EmitRemoved, Emit
  <2>3. \A n, f : Untouched(f) /\ ReplacedIn(n, f) => Untouched(f)'
    BY <2>1, <2>2 DEF Untouched, ReplacedIn, Doing
  <2> QED
    BY <2>1, <2>3, OthersKept
<1>8. ASSUME NEW c \in HttpCalls, NEW m \in Messages, DeleteMessage(c, m) PROVE FilesKept'
  <2>1. /\ m \in DOMAIN msgs /\ DOMAIN msgs' = DOMAIN msgs \ {m}
        /\ \A n \in DOMAIN msgs' : msgs'[n] = msgs[n]
        /\ UNCHANGED <<op, why, docs, purged, outbox, topic>>
    BY <1>8 DEF DeleteMessage
  <2>2. PICK list \in Seq(used) : /\ Elements(list) = Refs(m) \cap docs
                                  /\ IF list = <<>> THEN UNCHANGED call
                                     ELSE Begin(c, "find", Head(list), Tail(list), FALSE)
    BY <1>8, DeletedList
  <2>3. /\ \A d \in Calls : d # c => call'[d] = call[d]
        /\ UNCHANGED call \/ Doing(c)' \subseteq Refs(m)
    BY <2>2, TakesList
  <2>4. ASSUME NEW n \in DOMAIN msgs', NEW f, Untouched(f), OnlyOf(n, f) PROVE Untouched(f)'
    <3>1. f \notin Refs(m)
      BY <2>1, <2>4 DEF OnlyOf
    <3>2. \A d \in Calls : f \notin Doing(d)'
      BY <2>3, <2>4, <3>1 DEF Untouched, Doing
    <3> QED
      BY <2>1, <2>4, <3>2 DEF Untouched
  <2> QED
    BY <2>1, <2>4, OthersKept
<1>9. ASSUME NEW c \in HttpCalls, NEW g \in Files, DeleteFile(c, g) PROVE FilesKept'
  <2>1. /\ UNCHANGED <<msgs, op, docs, purged, outbox, topic>> /\ why' = why \cup {<<"direct", g>>}
        /\ DeleteOverHttp(c, g)
    BY <1>9 DEF DeleteFile, DeleteOverHttp
  <2>2. (\A d \in Calls : d # c => call'[d] = call[d]) /\ Doing(c)' = {g}
    BY <2>1, TakesFile
  <2>3. ASSUME NEW f, Untouched(f), ~ Excused(f)' PROVE Untouched(f)'
    <3>1. f # g
      BY <2>1, <2>3 DEF Excused
    <3>2. \A d \in Calls : f \notin Doing(d)'
      BY <2>2, <2>3, <3>1 DEF Untouched, Doing
    <3> QED
      BY <2>1, <2>3, <3>2 DEF Untouched
  <2> QED
    BY <2>1, <2>3, OthersKept
<1>10. ASSUME NEW c \in HttpCalls, MessageStep(c) PROVE FilesKept'
  BY <1>6, <1>7, <1>8, <1>9, <1>10, AddMessageKept, FindMessageKept, WriteMessageKept
     DEF MessageStep
<1> QED
  BY <1>3, <1>4, <1>5, <1>10 DEF ContentsNext

\* A file a message refers to is there, unless it was deleted by a client, given to
\* two messages, or taken up while or after it was given up.
THEOREM FilesInUseStay == ContentsSpec => []KeptFilesStay
<1>1. ContentsInit => FilesKept
  <2>1. ContentsInit => DOMAIN msgs = {}
    BY DEF ContentsInit
  <2> QED
    BY <2>1 DEF FilesKept
<1>2. FilesKept => KeptFilesStay
  BY DEF FilesKept, KeptFilesStay, Untouched, Excused
<1> QED
  BY <1>1, <1>2, StepKept, ContentsInvariant, PTL DEF ContentsSpec

-----------------------------------------------------------------------------
(* The files that no message refers to any more *)

\* A call or a record is going to delete f, or the end of an update to send it.
ToBeDeleted(f) ==
  \/ \E r \in outbox \cup topic : f \in Elements(r.files)
  \/ \E c \in Calls : f \in Doing(c)
  \/ \E c \in HttpCalls : op[c].at = "emit" /\ f \in Elements(op[c].removed)

\* Nobody does, for a reason that is noted.
Forgotten(f) ==
  \/ <<"overwritten", f>> \in why
  \/ f \in cut \cup abandoned
  \/ \E r \in lost : f \in Elements(r.files)

Referenced(f) == \E m \in DOMAIN msgs : f \in Refs(m)

UnusedInOrder ==
  \A f \in given \cap docs : Referenced(f) \/ ToBeDeleted(f) \/ Forgotten(f)

\* What a call drops when it ends is noted.
LEMMA AbandoningNotes ==
  ASSUME Abandoning
  PROVE  /\ abandoned \subseteq abandoned'
         /\ \A c \in HttpCalls : call'[c] = Idle => Elements(call[c].todo) \subseteq abandoned'
         /\ \A c \in HttpCalls : op[c].at = "emit" /\ op'[c] = NoOp /\ requests' = requests
              => Elements(op[c].removed) \subseteq abandoned'
<1> DEFINE lists == UNION {Elements(call[c].todo) : c \in {d \in HttpCalls : call'[d] = Idle}}
           ended == {d \in HttpCalls : op[d].at = "emit" /\ op'[d] = NoOp /\ requests' = requests}
           images == UNION {Elements(op[c].removed) : c \in ended}
<1>1. abandoned' = abandoned \cup lists \cup images
  BY DEF Abandoning
<1>2. \A c \in HttpCalls : call'[c] = Idle => Elements(call[c].todo) \subseteq lists
  OBVIOUS
<1>3. \A c \in HttpCalls : op[c].at = "emit" /\ op'[c] = NoOp /\ requests' = requests
        => Elements(op[c].removed) \subseteq images
  OBVIOUS
<1> HIDE DEF lists, images
<1> QED
  BY <1>1, <1>2, <1>3

\* The reasons remain.
LEMMA ForgottenRemains ==
  ASSUME NEW f, Forgotten(f), why \subseteq why', cut \subseteq cut', abandoned \subseteq abandoned',
         lost \subseteq lost'
  PROVE  Forgotten(f)'
  BY DEF Forgotten

\* A document that a call or the consumer was to delete is still to be deleted, or
\* the reason why it is not is noted.
LEMMA FileStepDeletes ==
  ASSUME CInv, FileStep, UNCHANGED chatVars, Abandoning, NEW f \in docs, f \in docs', ToBeDeleted(f)
  PROVE  ToBeDeleted(f)' \/ Forgotten(f)'
<1> USE DEF contents, kafka, events
<1>1. UNCHANGED op
  BY DEF chatVars
<1>2. Consumer \in Calls /\ HttpCalls = Calls \ {Consumer} /\ f # NoFile
  BY FilesAssumption DEF Calls, CInv, FInv, TypeOK
<1>3. ASSUME NEW c \in Calls, DeletionStep(c) \/ StepFails(c)
      PROVE  ToBeDeleted(f)' \/ Forgotten(f)'
  <2>1. /\ \A d \in Calls : d # c => call'[d] = call[d]
        /\ Doing(c) \cap docs' \subseteq Doing(c)' \cup cut' \cup Elements(call[c].todo)
        /\ call'[c] # Idle => Doing(c) \cap docs' \subseteq Doing(c)' \cup cut'
        /\ outbox' = outbox
    BY <1>3, StepOfCall
  <2>2. ASSUME task \in topic, purged' = purged \cup Elements(task.files), f \in Elements(task.files)
        PROVE  f \in cut'
    <3>1. PurgedInOrder' /\ docs' \cap removed' = {}
      BY StepFiles DEF ContentsNext, PInv, FInv, StoreInOrder
    <3> QED
      BY <2>2, <3>1 DEF PurgedInOrder
  <2>3. ASSUME NEW r \in outbox \cup topic, f \in Elements(r.files)
        PROVE  ToBeDeleted(f)' \/ Forgotten(f)'
    BY <1>3, <2>1, <2>2, <2>3, RecordOfCall DEF ToBeDeleted, Forgotten
  <2>4. ASSUME NEW d \in Calls, d # c, f \in Doing(d) PROVE ToBeDeleted(f)'
    BY <2>1, <2>4 DEF ToBeDeleted, Doing
  <2>5. ASSUME f \in Doing(c) PROVE ToBeDeleted(f)' \/ Forgotten(f)'
    <3>1. CASE f \in Doing(c)' \cup cut'
      BY <3>1 DEF ToBeDeleted, Forgotten
    <3>2. CASE f \notin Doing(c)' \cup cut' /\ c # Consumer
      BY <1>2, <2>1, <2>5, <3>2, AbandoningNotes DEF Forgotten
    <3>3. CASE f \notin Doing(c)' \cup cut' /\ c = Consumer
      <4>1. call'[c] = Idle /\ call[c].at # "idle"
        BY <1>3, <2>1, <2>5, <3>3, StepOfCall
      <4>2. f \in Elements(task.files)
        BY <2>5, <3>3, <4>1 DEF CInv, OnlyPurges
      <4>3. task \in topic /\ purged' = purged \cup Elements(task.files)
        BY <1>3, <3>3, <4>1, RecordOfCall, IdleDoes
      <4> QED
        BY <2>2, <4>2, <4>3 DEF Forgotten
    <3> QED
      BY <3>1, <3>2, <3>3
  <2> QED
    BY <1>1, <2>3, <2>4, <2>5 DEF ToBeDeleted
<1>4. ASSUME NEW r \in topic, HandleUploadDelete(r) PROVE ToBeDeleted(f)'
  <2>1. /\ Doing(Consumer) = {NoFile} /\ \A d \in Calls : d # Consumer => call'[d] = call[d]
        /\ UNCHANGED <<outbox, topic>>
    BY <1>4, TakesRecord
  <2>2. \A d \in Calls : f \in Doing(d) => f \in Doing(d)'
    BY <1>2, <2>1 DEF Doing
  <2> QED
    BY <1>1, <2>1, <2>2 DEF ToBeDeleted
<1>5. CASE KafkaStep
  <2>1. /\ UNCHANGED call /\ topic \subseteq topic'
        /\ outbox \subseteq outbox' \cup topic' \cup lost'
    BY <1>5, KafkaMoves
  <2>2. ASSUME NEW r \in outbox \cup topic, f \in Elements(r.files)
        PROVE  ToBeDeleted(f)' \/ Forgotten(f)'
    BY <2>1, <2>2 DEF ToBeDeleted, Forgotten
  <2> QED
    BY <1>1, <2>1, <2>2 DEF ToBeDeleted, Doing
<1> QED
  BY <1>3, <1>4, <1>5 DEF FileStep, KafkaStep

\* A restart.
LEMMA RestartDeletes ==
  ASSUME CInv, Restart, Abandoning, NEW f \in docs, ToBeDeleted(f)
  PROVE  ToBeDeleted(f)' \/ Forgotten(f)'
<1> USE DEF contents, kafka, events
<1>1. /\ \A c \in Calls : call'[c] = Idle
      /\ \A c \in HttpCalls : op'[c] = NoOp
      /\ requests' = requests /\ lost' = lost \cup outbox /\ topic \subseteq topic'
      /\ CutShort(Calls)
  BY DEF Restart, Crash, Redelivers
<1>2. HttpCalls = Calls \ {Consumer} /\ f # NoFile
  BY FilesAssumption DEF Calls, CInv, FInv, TypeOK
<1>3. ASSUME NEW r \in outbox \cup topic, f \in Elements(r.files)
      PROVE  ToBeDeleted(f)' \/ Forgotten(f)'
  BY <1>1, <1>3 DEF ToBeDeleted, Forgotten
<1>4. ASSUME NEW c \in HttpCalls, op[c].at = "emit", f \in Elements(op[c].removed)
      PROVE  Forgotten(f)'
  BY <1>1, <1>4, AbandoningNotes DEF Forgotten
<1>5. ASSUME NEW c \in Calls, f \in Doing(c) PROVE ToBeDeleted(f)' \/ Forgotten(f)'
  <2>1. call[c].at \in {"find", "object"}
    BY <1>2, <1>5, IdleDoes DEF CInv, OnlyPurges, Doing
  <2>2. CASE c = Consumer
    <3>1. task \in topic /\ f \in Elements(task.files)
      BY <1>5, <2>1, <2>2 DEF CInv, FInv, ConsumerInOrder, OnlyPurges
    <3> QED
      BY <1>3, <3>1
  <2>3. CASE f = call[c].file
    BY <1>1, <2>1, <2>3 DEF CutShort, Forgotten
  <2>4. CASE c # Consumer /\ f \in Elements(call[c].todo)
    BY <1>1, <1>2, <2>4, AbandoningNotes DEF Forgotten
  <2> QED
    BY <1>5, <2>2, <2>3, <2>4 DEF Doing
<1> QED
  BY <1>3, <1>4, <1>5 DEF ToBeDeleted

\* The calls about messages.
LEMMA MessageStepDeletes ==
  ASSUME CInv, NEW c \in HttpCalls, MessageStep(c), Abandoning, NEW f \in docs, ToBeDeleted(f)
  PROVE  ToBeDeleted(f)' \/ Forgotten(f)'
<1> USE DEF contents, kafka, events
<1>1. op \in [HttpCalls -> OpRecord] /\ f # NoFile /\ c \in Calls
  BY FilesAssumption DEF CInv, ContentsTypeOK, OpRecord, FInv, TypeOK, Calls
<1>2. ASSUME outbox' = outbox, topic' = topic,
             \A d \in Calls : f \in Doing(d) => f \in Doing(d)',
             \A d \in HttpCalls : \/ op'[d] = op[d]
                                  \/ op[d].at = "emit" => f \notin Elements(op[d].removed)
      PROVE  ToBeDeleted(f)'
  BY <1>2 DEF ToBeDeleted
<1>3. ASSUME UNCHANGED <<outbox, topic, call>>, op[c].at # "emit",
             \A d \in HttpCalls : d # c => op'[d] = op[d]
      PROVE  ToBeDeleted(f)'
  BY <1>2, <1>3 DEF Doing
<1>4. ASSUME NEW m \in Messages, NEW images, NEW g, AddMessage(c, m, images, g)
      PROVE  ToBeDeleted(f)'
  BY <1>1, <1>3, <1>4, NoOpType DEF AddMessage, Free, vars
<1>5. ASSUME NEW m \in Messages, NEW body, FindMessage(c, m, body) PROVE ToBeDeleted(f)'
  BY <1>1, <1>3, <1>5, NoOpType DEF FindMessage, Free, vars
<1>6. CASE UpdateChat(c) \/ WriteMessage(c)
  BY <1>1, <1>3, <1>6 DEF UpdateChat, WriteMessage, vars
<1>7. CASE EmitRemoved(c)
  <2>1. /\ UNCHANGED <<call, topic>> /\ outbox \subseteq outbox'
        /\ \A d \in HttpCalls : d # c => op'[d] = op[d]
    BY <1>1, <1>7 DEF EmitRemoved, Emit
  <2>2. ASSUME f \in Elements(op[c].removed) PROVE \E r \in outbox' : f \in Elements(r.files)
    <3>1. op[c].removed # <<>>
      BY <2>2 DEF Elements
    <3>2. outbox' = outbox \cup {[kind |-> "purge", id |-> requests', files |-> op[c].removed,
                                user |-> NoUser]}
      BY <1>7, <3>1 DEF EmitRemoved, Emit
    <3> DEFINE r == [kind |-> "purge", id |-> requests', files |-> op[c].removed, user |-> NoUser]
    <3>3. r \in outbox' /\ r.files = op[c].removed
      BY <3>2
    <3> HIDE DEF r
    <3> QED
      BY <2>2, <3>3
  <2> QED
    BY <2>1, <2>2 DEF ToBeDeleted, Doing
<1>8. CASE CallFails(c)
  <2>1. /\ UNCHANGED <<call, topic, outbox, requests>> /\ op'[c] = NoOp
        /\ \A d \in HttpCalls : d # c => op'[d] = op[d]
    BY <1>1, <1>8 DEF CallFails
  <2>2. ASSUME op[c].at = "emit", f \in Elements(op[c].removed) PROVE Forgotten(f)'
    BY <2>1, <2>2, AbandoningNotes DEF Forgotten
  <2> QED
    BY <2>1, <2>2 DEF ToBeDeleted, Doing
<1>9. ASSUME NEW m \in Messages, DeleteMessage(c, m) PROVE ToBeDeleted(f)'
  <2>1. PICK list \in Seq(used) : IF list = <<>> THEN UNCHANGED call
                                  ELSE Begin(c, "find", Head(list), Tail(list), FALSE)
    BY <1>9, DeletedList
  <2>2. /\ \A d \in Calls : d # c => call'[d] = call[d]
        /\ UNCHANGED call \/ call[c] = Idle
    BY <2>1, TakesList
  <2>3. \A d \in Calls : f \in Doing(d) => f \in Doing(d)'
    BY <1>1, <2>2, IdleDoes DEF Doing
  <2> QED
    BY <1>2, <1>9, <2>3 DEF DeleteMessage
<1>10. ASSUME NEW g \in Files, DeleteFile(c, g) PROVE ToBeDeleted(f)'
  <2>1. /\ \A d \in Calls : d # c => call'[d] = call[d]
        /\ call[c] = Idle
    BY <1>10, TakesFile DEF DeleteFile
  <2>2. \A d \in Calls : f \in Doing(d) => f \in Doing(d)'
    BY <1>1, <2>1, IdleDoes DEF Doing
  <2> QED
    BY <1>2, <1>10, <2>2 DEF DeleteFile, DeleteOverHttp
<1> QED
  BY <1>4, <1>5, <1>6, <1>7, <1>8, <1>9, <1>10 DEF MessageStep

\* No document comes back, and no reason is forgotten.
LEMMA StepReasons ==
  ASSUME CInv, [ContentsNext]_contentsVars
  PROVE  /\ docs' \subseteq docs /\ why \subseteq why' /\ cut \subseteq cut'
         /\ abandoned \subseteq abandoned' /\ lost \subseteq lost'
<1> USE DEF contents, kafka, events
<1>1. cut \subseteq cut'
  BY StepAges DEF StoreAges
<1>2. abandoned \subseteq abandoned'
  BY AbandoningNotes DEF ContentsNext, contentsVars
<1>3. ASSUME NEW c \in Calls, DeletionStep(c) \/ StepFails(c)
      PROVE  docs' \subseteq docs /\ lost \subseteq lost'
  BY <1>3, StepOfCall
<1>4. ASSUME NEW r, HandleUploadDelete(r) \/ KafkaStep
      PROVE  docs' \subseteq docs /\ lost \subseteq lost'
  BY <1>4, KafkaMoves DEF HandleUploadDelete
<1>5. ASSUME NEW c \in HttpCalls, MessageStep(c)
      PROVE  docs' \subseteq docs /\ lost \subseteq lost' /\ why \subseteq why'
  <2>1. UNCHANGED <<docs, lost>>
    BY <1>5 DEF MessageStep, AddMessage, FindMessage, DeleteMessage, UpdateChat, WriteMessage,
       EmitRemoved, CallFails, DeleteFile, DeleteOverHttp, vars
  <2>2. ASSUME NEW m \in Messages, NEW images \in Lists, NEW f \in Files \cup {NoFile},
               AddMessage(c, m, images, f)
        PROVE  why \subseteq why'
    BY <2>2 DEF AddMessage
  <2>3. ASSUME WriteMessage(c) \/ UpdateChat(c) \/ EmitRemoved(c) \/ CallFails(c)
        PROVE  why \subseteq why'
    BY <2>3 DEF WriteMessage, UpdateChat, EmitRemoved, CallFails
  <2>4. ASSUME NEW m \in Messages, NEW body \in Lists \cup {TextOnly},
               FindMessage(c, m, body) \/ DeleteMessage(c, m)
        PROVE  why \subseteq why'
    BY <2>4 DEF FindMessage, DeleteMessage
  <2>5. ASSUME NEW f \in Files, DeleteFile(c, f) PROVE why \subseteq why'
    BY <2>5 DEF DeleteFile
  <2> QED
    BY <1>5, <2>1, <2>2, <2>3, <2>4, <2>5 DEF MessageStep
<1>6. CASE Restart
  BY <1>1, <1>2, <1>6 DEF Restart, Crash
<1>7. CASE FileStep /\ UNCHANGED chatVars
  BY <1>1, <1>2, <1>3, <1>4, <1>7 DEF FileStep, KafkaStep, chatVars
<1> QED
  BY <1>1, <1>2, <1>5, <1>6, <1>7 DEF ContentsNext, contentsVars, chatVars, vars

\* A file that is no longer referenced after the write of an update was left out
\* by it, or nobody noticed that the update replaced it.
LEMMA WriteMessageUnused ==
  ASSUME CInv, NEW c \in HttpCalls, WriteMessage(c), NEW f \in given' \cap docs,
         Referenced(f), ~ Referenced(f)'
  PROVE  ToBeDeleted(f)' \/ Forgotten(f)'
<1>1. op \in [HttpCalls -> OpRecord]
  BY DEF CInv, ContentsTypeOK, OpRecord
<1>2. PICK n \in DOMAIN msgs : f \in Refs(n)
  BY DEF Referenced
<1>3. ~ UNCHANGED msgs
  BY <1>2 DEF Referenced, Refs
<1>4. op[c].msg \in DOMAIN msgs /\ op[c].body # TextOnly
  BY <1>3 DEF WriteMessage
<1>5. /\ msgs' = [msgs EXCEPT ![op[c].msg].images = op[c].body]
      /\ op' = [op EXCEPT ![c].at = "emit"]
      /\ {<<"overwritten", g>> : g \in Elements(msgs[op[c].msg].images) \
                                   (Elements(op[c].body) \cup Elements(op[c].removed))} \subseteq why'
  BY <1>4 DEF WriteMessage
<1>6. msgs[op[c].msg] \in Content
  BY <1>4 DEF CInv, ContentsTypeOK
<1>7. /\ DOMAIN msgs' = DOMAIN msgs
      /\ msgs'[op[c].msg].images = op[c].body /\ msgs'[op[c].msg].file = msgs[op[c].msg].file
      /\ \A m \in DOMAIN msgs : m # op[c].msg => msgs'[m] = msgs[m]
  BY <1>4, <1>5, <1>6 DEF Content
<1>8. n = op[c].msg
  BY <1>2, <1>7 DEF Referenced, Refs
<1>9. f \in Elements(msgs[op[c].msg].images) /\ f \notin Elements(op[c].body)
  BY <1>2, <1>7, <1>8 DEF Referenced, Refs
<1>10. op'[c].at = "emit" /\ op'[c].removed = op[c].removed
  BY <1>1, <1>5 DEF OpRecord
<1>11. f \in Elements(op[c].removed) \/ <<"overwritten", f>> \in why'
  BY <1>5, <1>9
<1> QED
  BY <1>10, <1>11 DEF ToBeDeleted, Forgotten

LEMMA UnusedStep == CInv /\ UnusedInOrder /\ [ContentsNext]_contentsVars => UnusedInOrder'
<1> SUFFICES ASSUME CInv, UnusedInOrder, [ContentsNext]_contentsVars,
                    NEW f \in given' \cap docs', ~ Referenced(f)'
             PROVE  ToBeDeleted(f)' \/ Forgotten(f)'
  BY DEF UnusedInOrder
<1> USE DEF contents, kafka, events
<1>1. f \in docs
  BY StepReasons
<1>2. CASE Forgotten(f)
  BY <1>2, StepReasons, ForgottenRemains
<1>3. CASE ToBeDeleted(f)
  <2>1. CASE UNCHANGED contentsVars
    BY <1>3, <2>1 DEF contentsVars, chatVars, vars, ToBeDeleted, Doing
  <2> QED
    BY <1>1, <1>3, <2>1, FileStepDeletes, RestartDeletes, MessageStepDeletes DEF ContentsNext
<1>4. f \in given => Referenced(f) \/ ToBeDeleted(f) \/ Forgotten(f)
  BY <1>1 DEF UnusedInOrder
<1>5. ASSUME UNCHANGED <<msgs, given>> PROVE ToBeDeleted(f)' \/ Forgotten(f)'
  <2>1. ~ Referenced(f) /\ f \in given
    BY <1>5 DEF Referenced, Refs
  <2> QED
    BY <1>2, <1>3, <1>4, <2>1
<1>6. ASSUME NEW c \in HttpCalls, NEW m \in Messages, NEW images \in Lists,
             NEW g \in Files \cup {NoFile}, AddMessage(c, m, images, g)
      PROVE  ToBeDeleted(f)' \/ Forgotten(f)'
  <2>1. m \notin DOMAIN msgs
    BY <1>6 DEF AddMessage, CInv, ContentsTypeOK
  <2>2. /\ DOMAIN msgs' = DOMAIN msgs \cup {m}
        /\ \A n \in DOMAIN msgs : msgs'[n] = msgs[n]
        /\ msgs'[m].images = images /\ msgs'[m].file = g
        /\ given' = given \cup Elements(images) \cup ({g} \ {NoFile})
    BY <1>6, <2>1 DEF AddMessage
  <2>3. f \in given /\ ~ Referenced(f)
    BY <2>2 DEF Referenced, Refs
  <2> QED
    BY <1>2, <1>3, <1>4, <2>3
<1>7. ASSUME NEW c \in HttpCalls, WriteMessage(c) PROVE ToBeDeleted(f)' \/ Forgotten(f)'
  <2>1. CASE Referenced(f)
    BY <1>1, <1>7, <2>1, WriteMessageUnused
  <2>2. CASE ~ Referenced(f) /\ f \in given
    BY <1>2, <1>3, <1>4, <2>2
  <2>3. CASE f \notin given
    <3>1. /\ op[c].body # TextOnly /\ op[c].msg \in DOMAIN msgs /\ f \in Elements(op[c].body)
          /\ msgs' = [msgs EXCEPT ![op[c].msg].images = op[c].body]
      BY <1>7, <2>3 DEF WriteMessage
    <3>2. msgs[op[c].msg] \in Content
      BY <3>1 DEF CInv, ContentsTypeOK
    <3>3. op[c].msg \in DOMAIN msgs' /\ msgs'[op[c].msg].images = op[c].body
      BY <3>1, <3>2 DEF Content
    <3> QED
      BY <3>1, <3>3 DEF Referenced, Refs
  <2> QED
    BY <2>1, <2>2, <2>3
<1>8. ASSUME NEW c \in HttpCalls, NEW m \in Messages, DeleteMessage(c, m)
      PROVE  ToBeDeleted(f)' \/ Forgotten(f)'
  <2>1. /\ DOMAIN msgs' = DOMAIN msgs \ {m} /\ \A n \in DOMAIN msgs' : msgs'[n] = msgs[n]
        /\ given' = given
    BY <1>8 DEF DeleteMessage
  <2>2. CASE f \in Refs(m)
    <3>1. PICK list \in Seq(used) : /\ Elements(list) = Refs(m) \cap docs
                                    /\ IF list = <<>> THEN UNCHANGED call
                                       ELSE Begin(c, "find", Head(list), Tail(list), FALSE)
      BY <1>8, DeletedList
    <3>2. f \in Elements(list)
      BY <1>1, <2>2, <3>1
    <3>3. list # <<>>
      BY <3>2 DEF Elements
    <3>4. f \in Doing(c)' /\ c \in Calls
      BY <3>1, <3>2, <3>3, TakesList DEF Calls
    <3> QED
      BY <3>4 DEF ToBeDeleted
  <2>3. CASE f \notin Refs(m)
    <3>1. ~ Referenced(f)
      BY <2>1, <2>3 DEF Referenced, Refs
    <3> QED
      BY <1>2, <1>3, <1>4, <2>1, <3>1
  <2> QED
    BY <2>2, <2>3
<1>9. ASSUME NEW c \in HttpCalls, MessageStep(c) PROVE ToBeDeleted(f)' \/ Forgotten(f)'
  <2>1. CASE \/ \E m \in Messages, body \in Lists \cup {TextOnly} : FindMessage(c, m, body)
             \/ \E g \in Files : DeleteFile(c, g)
             \/ UpdateChat(c) \/ EmitRemoved(c) \/ CallFails(c)
    BY <1>5, <2>1 DEF FindMessage, DeleteFile, UpdateChat, EmitRemoved, CallFails
  <2> QED
    BY <1>6, <1>7, <1>8, <1>9, <2>1 DEF MessageStep
<1> QED
  BY <1>5, <1>9 DEF ContentsNext, contentsVars, chatVars, Restart

\* A file that messages referred to and none refers to any more is deleted, or is
\* going to be, or its deletion failed, was cut short or was lost.
THEOREM FilesNotInUseGo == ContentsSpec => []UnusedFilesGo
<1>1. ContentsInit => UnusedInOrder
  BY DEF ContentsInit, UnusedInOrder
<1>2. UnusedInOrder => UnusedFilesGo
  <2> SUFFICES ASSUME UnusedInOrder, NEW f \in given \cap docs, ~ Referenced(f)
               PROVE  \/ Pending(f) \/ <<"overwritten", f>> \in why
                      \/ f \in cut \cup abandoned \cup (UNION {Elements(r.files) : r \in lost})
    BY DEF UnusedFilesGo, Referenced
  <2>1. ToBeDeleted(f) => Pending(f)
    BY DEF ToBeDeleted, Pending, Doing
  <2>2. ASSUME NEW r \in lost, f \in Elements(r.files)
        PROVE  f \in UNION {Elements(s.files) : s \in lost}
    BY <2>2
  <2> QED
    BY <2>1, <2>2 DEF UnusedInOrder, Forgotten
<1> QED
  BY <1>1, <1>2, UnusedStep, ContentsInvariant, PTL DEF ContentsSpec

=============================================================================
