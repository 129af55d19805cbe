------------------------------ MODULE Contents ------------------------------
(***************************************************************************)
(* What the messages of a chat refer to: a message has images and a file,  *)
(* which are documents of the module Files.  addMessage, updateMessageById *)
(* and deleteMessageById of ChatService run for HTTP endpoints and for the *)
(* handlers of chat.message.create, .update and .delete, here all among    *)
(* HttpCalls.  None of them is atomic: an update reads the images it is    *)
(* going to replace, writes, and then has the replaced ones purged; a      *)
(* deletion removes the message and then its files one by one.             *)
(***************************************************************************)
EXTENDS Files

CONSTANTS Messages,    \* bound: identities of messages
          NoMessage,   \* there is no last message
          TextOnly,    \* the images of an update whose body has none
          MaxImages,   \* bound: images of a message
          MaxBegun     \* bound: calls of addMessage, updateMessageById, deleteMessageById

\* The first call adds a message, and each later one sends at most one record.
ASSUME ContentsAssumption == /\ NoMessage \notin Messages
                             /\ MaxImages \in Nat /\ MaxBegun \in 0..MaxRequests + 1

VARIABLES
  msgs,      \* the messages there are, each with its images and its file
  last,      \* lastMessage of the chat
  op,        \* per HTTP call: what it does to a message
  born,      \* history: the messages so far
  given,     \* history: the files messages have referred to
  settled,   \* history: the messages the chat got as its last message
  before,    \* history: <<k, m>>: k was settled before m was created
  begun,     \* number of calls so far
  why,       \* history: <<reason, file>>: what may have a file in use deleted
  abandoned  \* history: files a call that ended early should have deleted

chatVars == <<msgs, last, op, born, given, settled, before, begun, why>>
fileVars == <<bucket, used, docs, objects, removed, made, told, bare, confirmed>>
contentsVars == <<vars, chatVars, abandoned>>

ListsUpTo(k) == UNION {[1..n -> Files] : n \in 0..k}
Lists == ListsUpTo(MaxImages)
Content == [images : Lists, file : Files \cup {NoFile}]
NoOp == [at |-> "none", msg |-> NoMessage, body |-> TextOnly, removed |-> <<>>]

ContentsTypeOK ==
  /\ TypeOK
  /\ DOMAIN msgs \subseteq born /\ born \subseteq Messages
  /\ \A m \in DOMAIN msgs : msgs[m] \in Content
  /\ last \in born \cup {NoMessage}
  /\ settled \subseteq born /\ before \subseteq settled \X born
  /\ op \in [HttpCalls -> [at : {"none", "last", "write", "emit"}, msg : Messages \cup {NoMessage},
                           body : Lists \cup {TextOnly}, removed : Lists]]
  /\ begun \in 0..MaxBegun
  /\ why \subseteq {"direct", "shared", "again", "text", "overwritten"} \X Files
  /\ given \subseteq Files /\ abandoned \subseteq Files

\* The files are uploaded already.
ContentsInit ==
  /\ bucket = "public" /\ objects = Files /\ docs = Files /\ used = Files
  /\ call = [c \in Calls |-> Idle]
  /\ requests = 0 /\ outbox = {} /\ topic = {} /\ handled = {} /\ task = NoTask
  /\ told = {} /\ made = {} /\ removed = {} /\ purged = {}
  /\ confirmed = [f \in Files |-> 0]
  /\ cut = {} /\ bare = FALSE /\ lost = {} /\ repeated = {} /\ online = {}
  /\ faults = 0 /\ crashes = 0
  /\ msgs = <<>> /\ last = NoMessage /\ op = [c \in HttpCalls |-> NoOp]
  /\ born = {} /\ given = {} /\ settled = {} /\ before = {} /\ begun = 0
  /\ why = {} /\ abandoned = {}

-----------------------------------------------------------------------------
Refs(m) == Elements(msgs[m].images) \cup ({msgs[m].file} \ {NoFile})

\* Some call or record is going to delete file f.
Pending(f) ==
  \/ \E r \in outbox \cup topic : f \in Elements(r.files)
  \/ \E c \in Calls : call[c].file = f \/ f \in Elements(call[c].todo)
  \/ \E c \in HttpCalls : f \in Elements(op[c].removed)

\* What may go wrong when message m is made to refer to these files: something
\* refers to them already, or they are being deleted, or have been.
Doubts(m, files) ==
  LET elsewhere == (UNION {Refs(n) : n \in DOMAIN msgs \ {m}})
                     \cup {msgs[n].file : n \in DOMAIN msgs \cap {m}}
  IN  {<<"shared", f>> : f \in files \cap elsewhere}
      \cup {<<"again", f>> : f \in {g \in files : Pending(g) \/ g \in purged \/ g \notin docs}}

\* A filter leaves of list q the members in S, in their order.
Filtered(out, q, S) ==
  \E place \in [DOMAIN out -> DOMAIN q] :
    /\ \A i, j \in DOMAIN out : i < j => place[i] < place[j]
    /\ {place[i] : i \in DOMAIN out} = {i \in DOMAIN q : q[i] \in S}
    /\ \A i \in DOMAIN out : out[i] = q[place[i]]

\* The images the body of an update keeps.
KeptBy(body) == IF body = TextOnly THEN {} ELSE Elements(body)

Free(c) == call[c] = Idle /\ op[c] = NoOp

\* Bounds: on the calls; one failure or one restart.
Begun == begun < MaxBegun /\ begun' = begun + 1
Unharmed == faults + crashes = 0

-----------------------------------------------------------------------------
(* addMessage *)

\* The message is created; a message of text has neither images nor a file.
AddMessage(c, m, images, file) ==
  /\ Free(c) /\ m \notin born
  /\ Begun
  /\ msgs' = [n \in DOMAIN msgs \cup {m} |->
               IF n = m THEN [images |-> images, file |-> file] ELSE msgs[n]]
  /\ why' = why \cup Doubts(m, Elements(images) \cup ({file} \ {NoFile}))
                \cup {<<"shared", f>> : f \in Elements(images) \cap {file}}
  /\ op' = [op EXCEPT ![c] = [NoOp EXCEPT !.at = "last", !.msg = m]]
  /\ born' = born \cup {m} /\ before' = before \cup (settled \X {m})
  /\ given' = given \cup Elements(images) \cup ({file} \ {NoFile})
  /\ UNCHANGED <<vars, last, settled>>

\* Variant: only a chat without a last message gets one.
UpdateChat_ifNone(c) ==
  /\ op[c].at = "last"
  /\ last' = IF last = NoMessage THEN op[c].msg ELSE last
  /\ op' = [op EXCEPT ![c] = NoOp]
  /\ settled' = settled \cup {op[c].msg}
  /\ UNCHANGED <<vars, msgs, born, given, before, begun, why>>

\* The chat gets it as its last message.
UpdateChat(c) ==
  /\ op[c].at = "last"
  /\ last' = op[c].msg
  /\ op' = [op EXCEPT ![c] = NoOp]
  /\ settled' = settled \cup {op[c].msg}
  /\ UNCHANGED <<vars, msgs, born, given, before, begun, why>>

-----------------------------------------------------------------------------
(* updateMessageById *)

\* Variants: the file counts as an image that is left out; every image does.
FindMessage_andFile(c, m, body) ==
  /\ Free(c) /\ m \in DOMAIN msgs
  /\ Begun
  /\ \E out \in ListsUpTo(MaxImages + 1) :
       /\ Filtered(out, Append(msgs[m].images, msgs[m].file), docs \ KeptBy(body))
       /\ op' = [op EXCEPT ![c] = [at |-> "write", msg |-> m, body |-> body, removed |-> out]]
  /\ UNCHANGED <<vars, msgs, last, born, given, settled, before, why>>
FindMessage_allImages(c, m, body) ==
  /\ Free(c) /\ m \in DOMAIN msgs
  /\ Begun
  /\ \E out \in Lists :
       /\ Filtered(out, msgs[m].images, docs)
       /\ op' = [op EXCEPT ![c] = [at |-> "write", msg |-> m, body |-> body, removed |-> out]]
  /\ UNCHANGED <<vars, msgs, last, born, given, settled, before, why>>

\* findById, with the images that have a document, and what the body leaves out.
FindMessage(c, m, body) ==
  /\ Free(c) /\ m \in DOMAIN msgs
  /\ Begun
  /\ \E out \in Lists :
       /\ Filtered(out, msgs[m].images, docs \ KeptBy(body))
       /\ op' = [op EXCEPT ![c] = [at |-> "write", msg |-> m, body |-> body, removed |-> out]]
       /\ why' = IF body = TextOnly THEN why \cup {<<"text", f>> : f \in Elements(out)} ELSE why
  /\ UNCHANGED <<vars, msgs, last, born, given, settled, before>>

\* findByIdAndUpdate; without images in the body it leaves the images alone.
WriteMessage(c) ==
  /\ op[c].at = "write"
  /\ given' = IF op[c].body = TextOnly \/ op[c].msg \notin DOMAIN msgs THEN given
              ELSE given \cup Elements(op[c].body)
  /\ LET m == op[c].msg
     IN  IF m \notin DOMAIN msgs
         THEN op' = [op EXCEPT ![c] = NoOp] /\ UNCHANGED <<msgs, why>>
         ELSE /\ op' = [op EXCEPT ![c].at = "emit"]
              /\ IF op[c].body = TextOnly THEN UNCHANGED <<msgs, why>>
                 ELSE /\ msgs' = [msgs EXCEPT ![m].images = op[c].body]
                      /\ why' = why \cup Doubts(m, Elements(op[c].body) \ Elements(msgs[m].images))
                             \cup {<<"overwritten", f>> :
                                    f \in Elements(msgs[m].images) \
                                           (Elements(op[c].body) \cup Elements(op[c].removed))}
  /\ UNCHANGED <<vars, last, born, settled, before, begun>>

\* The images left out go to upload.delete.process.
EmitRemoved(c) ==
  /\ op[c].at = "emit"
  /\ IF op[c].removed # <<>> THEN Emit("purge", op[c].removed, NoUser)
     ELSE UNCHANGED <<requests, outbox>>
  /\ op' = [op EXCEPT ![c] = NoOp]
  /\ UNCHANGED <<contents, used, call, topic, handled, task, told, confirmed, purged, events,
                 msgs, last, born, given, settled, before, begun, why>>

\* A populate, or the answer to the write, fails in between.
CallFails(c) ==
  /\ op[c].at \in {"last", "emit"} /\ Unharmed /\ Fault
  /\ op' = [op EXCEPT ![c] = NoOp]
  /\ UNCHANGED <<contents, used, call, kafka, confirmed, purged, cut, bare, lost, repeated,
                 online, crashes, msgs, last, born, given, settled, before, begun, why>>

-----------------------------------------------------------------------------
(* deleteMessageById *)

\* Variant: the file of the message is forgotten.
DeleteMessage_imagesOnly(c, m) ==
  /\ Free(c) /\ m \in DOMAIN msgs
  /\ Begun
  /\ msgs' = [n \in DOMAIN msgs \ {m} |-> msgs[n]]
  /\ \E list \in Lists :
       /\ Filtered(list, msgs[m].images, docs)
       /\ IF list = <<>> THEN UNCHANGED call ELSE Begin(c, "find", Head(list), Tail(list), FALSE)
  /\ UNCHANGED <<contents, used, kafka, confirmed, purged, events,
                 last, op, born, given, settled, before, why>>

\* findByIdAndDelete; then its images, those with a document, and its file are
\* deleted one after the other, up to the first exception.
DeleteMessage(c, m) ==
  /\ Free(c) /\ m \in DOMAIN msgs
  /\ Begun
  /\ msgs' = [n \in DOMAIN msgs \ {m} |-> msgs[n]]
  /\ \E list \in ListsUpTo(MaxImages + 1) :
       /\ Filtered(list, Append(msgs[m].images, msgs[m].file), docs)
       /\ IF list = <<>> THEN UNCHANGED call ELSE Begin(c, "find", Head(list), Tail(list), FALSE)
  /\ UNCHANGED <<contents, used, kafka, confirmed, purged, events,
                 last, op, born, given, settled, before, why>>

\* A client deletes a file of a message itself; bound: one.
DeleteFile(c, f) ==
  /\ op[c] = NoOp /\ f \in given /\ \A w \in why : w[1] # "direct"
  /\ DeleteOverHttp(c, f)
  /\ why' = why \cup {<<"direct", f>>}
  /\ UNCHANGED <<msgs, last, op, born, given, settled, before, begun>>

-----------------------------------------------------------------------------
Restart ==
  /\ Unharmed /\ Crash
  /\ op' = [c \in HttpCalls |-> NoOp]
  /\ UNCHANGED <<msgs, last, born, given, settled, before, begun, why>>

\* The files a call drops when it ends before its list does, and an update that
\* ends before it emits.
Abandoning ==
  abandoned' = abandoned
    \cup (UNION {Elements(call[c].todo) : c \in {d \in HttpCalls : call'[d] = Idle}})
    \cup (UNION {Elements(op[c].removed) :
                   c \in {d \in HttpCalls : /\ op[d].at = "emit" /\ op'[d] = NoOp
                                           /\ requests' = requests}})

FileStep ==
  \/ \E c \in Calls : DeletionStep(c) \/ (Unharmed /\ StepFails(c))
  \/ \E r \in topic : HandleUploadDelete(r)
  \/ \E r \in outbox : Publish(r) \/ (Unharmed /\ (PublishAgain(r) \/ PublishFails(r)))
  \/ Commit
  \/ (Unharmed /\ Rebalance)

MessageStep(c) ==
  \/ \E m \in Messages : \/ \E images \in Lists, f \in Files \cup {NoFile} :
                              AddMessage(c, m, images, f)
                         \/ \E body \in Lists \cup {TextOnly} : FindMessage(c, m, body)
                         \/ DeleteMessage(c, m)
  \/ UpdateChat(c) \/ WriteMessage(c) \/ EmitRemoved(c) \/ CallFails(c)
  \/ \E f \in Files : DeleteFile(c, f)

ContentsNext ==
  \/ FileStep /\ UNCHANGED chatVars /\ Abandoning
  \/ \E c \in HttpCalls : MessageStep(c) /\ Abandoning
  \/ Restart /\ Abandoning

ContentsSpec == ContentsInit /\ [][ContentsNext]_contentsVars

-----------------------------------------------------------------------------
(* Properties *)

\* A file a message refers to is there, unless a client deleted it, gave it to
\* two messages, gave it to a message while it was being removed from one (as
\* overlapping updates of a message do) or after that, or changed the text only
\* (see the findings).
KeptFilesStay ==
  \A m \in DOMAIN msgs : \A f \in Refs(m) \ docs :
    \E w \in {"direct", "shared", "again", "text"} : <<w, f>> \in why

\* A file that messages referred to and none refers to any more is deleted in the
\* end, unless overlapping updates of its message overwrote each other, its purge
\* was lost, or the call that was to delete it failed, was cut short by a
\* restart, or gave up at another file.
UnusedFilesGo ==
  \A f \in (given \cap docs) \ (UNION {Refs(m) : m \in DOMAIN msgs}) :
    \/ Pending(f)
    \/ <<"overwritten", f>> \in why
    \/ f \in cut \cup abandoned \cup (UNION {Elements(r.files) : r \in lost})

\* The last message of the chat is one that addMessage has finished with, if there
\* is any, and no other one it has finished with was begun after that, however the
\* calls overlap, fail or are cut short.  A deletion does not change it, so it may
\* have been deleted since.
LastIsNewest ==
  IF settled = {} THEN last = NoMessage
  ELSE last \in settled /\ \A n \in settled : <<last, n>> \notin before

\* An update that leaves the images alone has none of them purged.  The code
\* does not keep this: see the findings.
TextPurgesNothing ==
  [][\A c \in HttpCalls :
       op[c].at = "emit" /\ op[c].body = TextOnly /\ op'[c] = NoOp
         => outbox' \subseteq outbox]_contentsVars
=============================================================================
