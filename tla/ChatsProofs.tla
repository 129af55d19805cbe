----------------------------- MODULE ChatsProofs -----------------------------
(***************************************************************************)
(* Proofs about the creation and the deletion of a chat, for any number    *)
(* of messages, calls, records and restarts.                               *)
(***************************************************************************)
EXTENDS Chats, FiniteSetTheorems, TLAPS

-----------------------------------------------------------------------------
(* The inductive invariant *)

Types ==
  /\ chat \in BOOLEAN /\ coll \in Seq(Messages)
  /\ ready \in Nat /\ emitted \in Nat /\ handled \in Nat
  /\ phase \in {"idle", "page", "drop", "forget"} /\ page \in Nat \ {0}
  /\ others \in Nat /\ creating \in [Callers -> {"idle", "create", "collection"}]

\* What was read, purged or dropped was added, what was dropped does not come back,
\* and the handler has a record.
WalkInOrder ==
  /\ Elements(coll) \cup outbox \cup purged \cup lost \cup dropped \subseteq added
  /\ dropped \cap Elements(coll) = {}
  /\ phase # "idle" => ready > 0

\* Between the drop and the end of the document there are only messages written
\* meanwhile, which nobody has had purged.
DropInOrder ==
  phase = "forget" => /\ Elements(coll) \subseteq late
                      /\ \A m \in Elements(coll) : m \notin outbox \cup purged \cup lost

\* As long as no two calls are past their look for the chat at once, the one that
\* is will make the only chat there is.
CreationInOrder ==
  ~ overlapped =>
    /\ \A c \in Callers : creating[c] = "create" => Documents = 0
    /\ \A c, d \in Callers : creating[c] = "create" /\ creating[d] = "create" => c = d

CInv == /\ Types /\ WalkInOrder /\ DropInOrder /\ CreationInOrder
        /\ PurgesArePending /\ OrphansCameLate /\ TwinsNeedOverlap

\* The initial state satisfies it.
LEMMA InitCInv == ChatsInit => CInv
<1> SUFFICES ASSUME ChatsInit PROVE CInv
  OBVIOUS
<1> USE DEF ChatsInit, Init, Elements
<1>1. Types
  BY DEF Types
<1>2. WalkInOrder /\ DropInOrder /\ PurgesArePending /\ OrphansCameLate
  BY DEF WalkInOrder, DropInOrder, PurgesArePending, OrphansCameLate
<1>3. CreationInOrder /\ TwinsNeedOverlap
  BY DEF CreationInOrder, TwinsNeedOverlap, Documents
<1> QED
  BY <1>1, <1>2, <1>3 DEF CInv

-----------------------------------------------------------------------------
(* The message collection *)

\* A message that is added comes first.
LEMMA AddedFirst ==
  ASSUME NEW q \in Seq(Messages), NEW m \in Messages
  PROVE  /\ <<m>> \o q \in Seq(Messages)
         /\ Elements(<<m>> \o q) = {m} \cup Elements(q)
<1> DEFINE r == <<m>> \o q
<1>1. r \in Seq(Messages) /\ Len(r) = 1 + Len(q) /\ r[1] = m
      /\ \A i \in 1..Len(q) : r[i + 1] = q[i]
  OBVIOUS
<1>2. \A i \in 2..Len(r) : i - 1 \in 1..Len(q) /\ r[i] = q[i - 1]
  BY <1>1
<1> HIDE DEF r
<1>3. Elements(r) \subseteq {m} \cup Elements(q)
  BY <1>1, <1>2 DEF Elements
<1>4. {m} \cup Elements(q) \subseteq Elements(r)
  <2>1. /\ DOMAIN q = 1..Len(q) /\ DOMAIN r = 1..Len(r) /\ 1 \in 1..Len(r)
        /\ \A i \in 1..Len(q) : i + 1 \in 1..Len(r)
    BY <1>1
  <2> QED
    BY <1>1, <2>1 DEF Elements
<1> QED
  BY <1>1, <1>3, <1>4 DEF r

\* A message that is taken out leaves the others.
LEMMA TakenOut ==
  ASSUME NEW q \in Seq(Messages), NEW i \in DOMAIN q
  PROVE  /\ SubSeq(q, 1, i - 1) \o SubSeq(q, i + 1, Len(q)) \in Seq(Messages)
         /\ Elements(SubSeq(q, 1, i - 1) \o SubSeq(q, i + 1, Len(q))) \subseteq Elements(q)
<1> DEFINE a == SubSeq(q, 1, i - 1)
           b == SubSeq(q, i + 1, Len(q))
<1>1. /\ a \in Seq(Messages) /\ \A j \in 1..Len(a) : j \in DOMAIN q /\ a[j] = q[j]
      /\ b \in Seq(Messages) /\ \A j \in 1..Len(b) : j + i \in DOMAIN q /\ b[j] = q[j + i]
  OBVIOUS
<1> HIDE DEF a, b
<1>2. a \o b \in Seq(Messages) /\ \A j \in DOMAIN (a \o b) :
        (a \o b)[j] \in Elements(a) \cup Elements(b)
  BY <1>1 DEF Elements
<1>3. Elements(a) \subseteq Elements(q) /\ Elements(b) \subseteq Elements(q)
  <2>1. DOMAIN a = 1..Len(a) /\ DOMAIN b = 1..Len(b)
    BY <1>1
  <2> QED
    BY <1>1, <2>1 DEF Elements
<1> QED
  BY <1>2, <1>3 DEF Elements, a, b

-----------------------------------------------------------------------------
(* The steps *)

\* Histories only grow, and what is added to the chat's collection after the drop
\* is late.
LEMMA NotingGrows ==
  ASSUME Noting
  PROVE  late \subseteq late' /\ (~ chat \/ phase = "forget" => added' \ added \subseteq late')
  BY DEF Noting

\* Two calls past their look at once are noted.
LEMMA OverlapIsNoted ==
  ASSUME Noting, ~ overlapped'
  PROVE  /\ ~ overlapped
         /\ \A c, d \in Callers : creating'[c] = "create" /\ creating'[d] = "create" => c = d
  BY DEF Noting

\* A creation leaves the deletion alone.
LEMMA CreatingKeeps ==
  ASSUME Creating
  PROVE  UNCHANGED allButFaults /\ (faults' = faults \/ Fault)
<1>1. ASSUME UNCHANGED vars PROVE UNCHANGED allButFaults /\ faults' = faults
  BY <1>1 DEF vars, counters, allButFaults
<1> QED
  BY <1>1 DEF Creating, Request, RequestTwice, FindOne, Create, CreateCollection, Throws,
     CommitCreate, RebalanceCreate

\* So it keeps the invariant.
LEMMA CreatingStep == CInv /\ Creating /\ Noting => CInv'
<1> SUFFICES ASSUME CInv, Creating, Noting PROVE CInv'
  OBVIOUS
<1> USE DEF CInv, Types, Answer, Begins
<1>1. UNCHANGED allButFaults
  BY CreatingKeeps
<1>2. WalkInOrder' /\ DropInOrder' /\ PurgesArePending' /\ OrphansCameLate'
  BY <1>1, NotingGrows DEF allButFaults, records, handler, purges, WalkInOrder, DropInOrder,
     PurgesArePending, OrphansCameLate
<1>3. Types'
  BY <1>1 DEF allButFaults, records, handler, Creating, Request, RequestTwice, FindOne, Create,
     CreateCollection, Throws, CommitCreate, RebalanceCreate, RedeliversCreate
<1>4. ASSUME ~ overlapped'
      PROVE  /\ \A c \in Callers : creating'[c] = "create" => Documents' = 0
             /\ Documents' <= 1
  <2>1. /\ ~ overlapped /\ CreationInOrder /\ TwinsNeedOverlap /\ chat' = chat
        /\ \A c, d \in Callers : creating'[c] = "create" /\ creating'[d] = "create" => c = d
        /\ \A c, d \in Callers : creating[c] = "create" /\ creating[d] = "create" => c = d
    BY <1>1, <1>4, OverlapIsNoted DEF allButFaults, CreationInOrder
  <2>2. ASSUME NEW c \in Callers, FindOne(c) PROVE <1>4!2
    BY <2>1, <2>2 DEF FindOne, CreationInOrder, TwinsNeedOverlap, Documents
  <2>3. ASSUME NEW c \in Callers, Create(c) PROVE <1>4!2
    BY <2>1, <2>3 DEF Create, CreationInOrder, TwinsNeedOverlap, Documents
  <2>4. ASSUME NEW c \in Callers, CreateCollection(c) \/ Throws(c) PROVE <1>4!2
    BY <2>1, <2>4 DEF CreateCollection, Throws, CreationInOrder, TwinsNeedOverlap, Documents
  <2>5. CASE Request \/ RequestTwice \/ CommitCreate \/ RebalanceCreate
    BY <2>1, <2>5 DEF Request, RequestTwice, CommitCreate, RebalanceCreate, CreationInOrder,
       TwinsNeedOverlap, Documents
  <2> QED
    BY <2>2, <2>3, <2>4, <2>5 DEF Creating
<1>5. CreationInOrder' /\ TwinsNeedOverlap'
  BY <1>4, OverlapIsNoted DEF CreationInOrder, TwinsNeedOverlap
<1> QED
  BY <1>2, <1>3, <1>5

\* Whether a chat can be created does not depend on the deletion, which makes no
\* chat and at most takes one away.
LEMMA ChatOnlyGoes ==
  ASSUME CInv, Noting, chat' \in BOOLEAN, chat' => chat, others' = others,
         creating' = creating \/ creating' = [c \in Callers |-> "idle"]
  PROVE  CreationInOrder' /\ TwinsNeedOverlap'
<1>1. Documents' <= Documents /\ Documents' \in Nat /\ Documents \in Nat
  BY DEF CInv, Types, Documents
<1>2. ASSUME ~ overlapped' PROVE CreationInOrder' /\ TwinsNeedOverlap'
  <2>1. ~ overlapped
    BY <1>2, OverlapIsNoted
  <2>2. \A c \in Callers : creating'[c] = "create" => creating[c] = "create"
    OBVIOUS
  <2> QED
    BY <1>1, <2>1, <2>2 DEF CInv, CreationInOrder, TwinsNeedOverlap
<1> QED
  BY <1>2 DEF CreationInOrder, TwinsNeedOverlap

\* The deletion and the changes of the messages.
LEMMA DeletingStep == CInv /\ Deleting /\ Noting => CInv'
<1> SUFFICES ASSUME CInv, Deleting, Noting PROVE CInv'
  OBVIOUS
<1> USE DEF CInv, Types, WalkInOrder
<1> DEFINE Walk == Types' /\ WalkInOrder' /\ DropInOrder' /\ PurgesArePending' /\ OrphansCameLate'
<1>1. UNCHANGED creation
  BY DEF Deleting
<1>2. late \subseteq late' /\ (~ chat \/ phase = "forget" => added' \ added \subseteq late')
  BY NotingGrows
<1>3. ASSUME NEW m \in Messages, AddMessage(m) PROVE Walk
  <2>1. /\ coll' \in Seq(Messages) /\ Elements(coll') = {m} \cup Elements(coll)
        /\ m \notin added /\ added' = added \cup {m}
        /\ UNCHANGED <<chat, records, handler, purges, dropped>>
    BY <1>3, AddedFirst DEF AddMessage
  <2>2. ~ chat \/ phase = "forget" => m \in late'
    BY <1>2, <2>1
  <2> QED
    BY <1>1, <1>2, <2>1, <2>2 DEF creation, records, handler, purges, DropInOrder,
       PurgesArePending, OrphansCameLate
<1>4. ASSUME NEW m \in Messages, DeleteMessage(m) PROVE Walk
  <2>1. /\ coll' \in Seq(Messages) /\ Elements(coll') \subseteq Elements(coll)
        /\ UNCHANGED <<chat, records, handler, purges, dropped, added>>
    BY <1>4, TakenOut DEF DeleteMessage
  <2> QED
    BY <1>1, <1>2, <2>1 DEF creation, records, handler, purges, DropInOrder, PurgesArePending,
       OrphansCameLate
<1>5. ASSUME ReadPage PROVE Walk
  <2>1. /\ phase = "page" /\ coll[page] \in Elements(coll)
        /\ outbox' = outbox \cup {coll[page]} /\ page' = page + 1 /\ phase' \in {"page", "drop"}
        /\ UNCHANGED <<chat, coll, records, purged, lost, dropped, added>>
    BY <1>5 DEF ReadPage, Elements
  <2> QED
    BY <1>1, <1>2, <2>1 DEF creation, records, DropInOrder, PurgesArePending, OrphansCameLate
<1>6. ASSUME DropCollection PROVE Walk
  <2>1. Elements(coll') = {} /\ coll' \in Seq(Messages)
    BY <1>6 DEF DropCollection, Elements
  <2> QED
    BY <1>1, <1>2, <1>6, <2>1 DEF DropCollection, creation, records, purges, DropInOrder,
       PurgesArePending, OrphansCameLate
<1>7. ASSUME DeleteDocument PROVE Walk
  <2>1. /\ phase = "forget" /\ phase' = "idle" /\ chat' = FALSE /\ ready' = ready - 1
        /\ handled' = handled + 1 /\ UNCHANGED <<coll, emitted, page, purges, dropped, added>>
    BY <1>7 DEF DeleteDocument
  <2>2. ready > 0 /\ DropInOrder
    BY <2>1
  <2>3. Types'
    <3>1. ready - 1 \in Nat /\ handled + 1 \in Nat
      BY <2>2
    <3>2. UNCHANGED <<others, creating>>
      BY <1>1 DEF creation
    <3> QED
      BY <2>1, <3>1, <3>2
  <2>4. WalkInOrder' /\ DropInOrder' /\ PurgesArePending' /\ OrphansCameLate'
    BY <1>2, <2>1, <2>2 DEF purges, DropInOrder, PurgesArePending, OrphansCameLate
  <2> QED
    BY <2>3, <2>4
<1>8. ASSUME Start \/ NoSuchPage PROVE Walk
  BY <1>1, <1>2, <1>8 DEF Start, NoSuchPage, creation, records, purges, DropInOrder,
     PurgesArePending, OrphansCameLate
<1>9. ASSUME DeleteChatById \/ Publish \/ PublishFaultily \/ Commit \/ Rebalance PROVE Walk
  <2>1. /\ ready \in Nat => ready' \in Nat /\ (ready > 0 => ready' > 0)
        /\ emitted' \in Nat /\ handled' \in Nat
        /\ UNCHANGED <<chat, coll, handler, purges, dropped, added>>
    BY <1>9 DEF DeleteChatById, Publish, PublishFaultily, Commit, Rebalance, Redelivers
  <2> QED
    BY <1>1, <1>2, <2>1 DEF creation, handler, purges, DropInOrder, PurgesArePending,
       OrphansCameLate
<1>10. ASSUME NEW m \in Messages, PublishPurge(m) \/ PurgeFails(m) PROVE Walk
  BY <1>1, <1>2, <1>10 DEF PublishPurge, PurgeFails, creation, records, handler, DropInOrder,
     PurgesArePending, OrphansCameLate
<1>11. ASSUME HandlerThrows PROVE Walk
  <2>1. /\ phase # "idle" /\ phase' = "idle" /\ page' = 1
        /\ chat' = chat \/ (chat' = FALSE /\ phase = "forget")
        /\ UNCHANGED <<records, purges, added>>
    BY <1>11 DEF HandlerThrows
  <2>2. ready > 0
    BY <2>1
  <2>3. \/ coll' = coll /\ dropped' = dropped
        \/ coll' = <<>> /\ dropped' = dropped \cup Elements(coll)
    BY <1>11 DEF HandlerThrows
  <2>4. /\ coll' \in Seq(Messages) /\ Elements(coll') \subseteq Elements(coll)
        /\ dropped' \subseteq added /\ dropped' \cap Elements(coll') = {}
    <3>1. CASE coll' = coll /\ dropped' = dropped
      BY <3>1 DEF Elements
    <3>2. CASE coll' = <<>> /\ dropped' = dropped \cup Elements(coll)
      <4>1. Elements(coll') = {}
        BY <3>2 DEF Elements
      <4> QED
        BY <3>2, <4>1
    <3> QED
      BY <2>3, <3>1, <3>2
  <2>5. Types'
    <3>1. chat' \in BOOLEAN
      <4>1. CASE chat' = chat
        BY <4>1
      <4>2. CASE chat' = FALSE
        BY <4>2
      <4> QED
        BY <2>1, <4>1, <4>2
    <3>2. /\ UNCHANGED <<ready, emitted, handled, others, creating>>
          /\ coll' \in Seq(Messages) /\ phase' = "idle" /\ page' = 1
      BY <1>1, <2>1, <2>4 DEF creation, records
    <3> QED
      BY <3>1, <3>2
  <2>6. WalkInOrder'
    BY <2>1, <2>4 DEF purges
  <2>7. DropInOrder' /\ PurgesArePending'
    BY <2>1, <2>2 DEF records, DropInOrder, PurgesArePending
  <2>8. OrphansCameLate'
    BY <1>2, <2>1, <2>4 DEF DropInOrder, OrphansCameLate
  <2> QED
    BY <2>5, <2>6, <2>7, <2>8
<1>12. Walk
  BY <1>3, <1>4, <1>5, <1>6, <1>7, <1>8, <1>9, <1>10, <1>11 DEF Deleting, HandlerStep, KafkaStep
<1>13. chat' => chat
  BY DEF Deleting, HandlerStep, HandlerThrows, KafkaStep, DeleteChatById, AddMessage, DeleteMessage,
     PublishPurge, PurgeFails, Start, ReadPage, NoSuchPage, DropCollection, DeleteDocument, Publish,
     PublishFaultily, Commit, Rebalance
<1>14. CreationInOrder' /\ TwinsNeedOverlap'
  BY <1>1, <1>12, <1>13, ChatOnlyGoes DEF creation
<1> QED
  BY <1>12, <1>14

\* A restart of the process.
LEMMA RestartStep == CInv /\ Restart /\ Noting => CInv'
<1> SUFFICES ASSUME CInv, Restart, Noting PROVE CInv'
  OBVIOUS
<1> USE DEF CInv, Types, WalkInOrder, Restart, Crash, Redelivers, RedeliversCreate
<1>1. late \subseteq late'
  BY NotingGrows
<1>2. Types' /\ WalkInOrder' /\ DropInOrder' /\ PurgesArePending' /\ OrphansCameLate'
  BY <1>1 DEF DropInOrder, PurgesArePending, OrphansCameLate
<1>3. CreationInOrder' /\ TwinsNeedOverlap'
  BY <1>2, ChatOnlyGoes
<1> QED
  BY <1>2, <1>3

\* Every step keeps the invariant.
LEMMA StepCInv == CInv /\ [ChatsNext]_chatsVars => CInv'
<1> SUFFICES ASSUME CInv, [ChatsNext]_chatsVars PROVE CInv'
  OBVIOUS
<1>1. CASE UNCHANGED chatsVars
  BY <1>1 DEF chatsVars, vars, records, handler, purges, creation, history, CInv, Types,
     WalkInOrder, DropInOrder, CreationInOrder, PurgesArePending, OrphansCameLate,
     TwinsNeedOverlap, Documents, Elements
<1> QED
  BY <1>1, CreatingStep, DeletingStep, RestartStep DEF ChatsNext

-----------------------------------------------------------------------------
(* Records and requests: the invariant of the types *)

MayCreate(S) == {c \in S : creating[c] = "create"}

Histories ==
  /\ added \subseteq Messages /\ dropped \subseteq Messages
  /\ races \in Nat /\ late \subseteq added /\ overlapped \in BOOLEAN
  /\ deletions \in 0..MaxDeletions /\ httpDeletes \in 0..MaxHttpDeletes
  /\ half \in BOOLEAN /\ faults \in 0..MaxFaults
  /\ crashes \in 0..MaxCrashes /\ requests \in 0..MaxRequests

\* A record of a deletion is there twice only if Kafka failed, whatever is handled
\* again.
DeletionsCounted == emitted + ready + handled <= deletions + faults

\* No request makes two chats, though its record may be handled more than once, but
\* if Kafka failed: as long as there is no other chat, the records and the calls that
\* may make one are of different requests or of such failures.
CreationsCounted ==
  /\ creates \in Nat /\ created \in Nat /\ creates + created <= requests + faults
  /\ creating[Consumer] # "idle" => creates > 0
  /\ IsFiniteSet(MayCreate(Callers))
  /\ others = 0 => creates + created + Cardinality(MayCreate(HttpCalls)) <= requests + faults
  /\ others + Cardinality(MayCreate(Callers)) <= requests + faults

Counted == Histories /\ DeletionsCounted /\ CreationsCounted

\* The bounds of the counters follow.
LEMMA CountedTypes == CInv /\ Counted => ChatsTypeOK
<1> SUFFICES ASSUME CInv, Counted PROVE ChatsTypeOK
  OBVIOUS
<1> USE DEF CInv, Types, Counted, Histories
<1>1. {emitted, ready, handled} \subseteq 0..MaxDeletions + MaxFaults
  BY ChatDeletionAssumption DEF DeletionsCounted
<1>2. creates \in 0..MaxRequests + MaxFaults /\ created \in 0..MaxRequests + MaxFaults
  BY ChatDeletionAssumption, ChatsAssumption DEF CreationsCounted
<1>3. others \in 0..MaxRequests + MaxFaults
  <2>1. Cardinality(MayCreate(Callers)) \in Nat
    BY FS_CardinalityType DEF CreationsCounted
  <2> QED
    BY <2>1, ChatDeletionAssumption, ChatsAssumption DEF CreationsCounted
<1>4. outbox \subseteq Messages /\ purged \subseteq Messages /\ lost \subseteq Messages
  BY DEF WalkInOrder
<1> QED
  BY <1>1, <1>2, <1>3, <1>4 DEF ChatsTypeOK, TypeOK

LEMMA InitCounted == ChatsInit => Counted
<1> SUFFICES ASSUME ChatsInit PROVE Counted
  OBVIOUS
<1> USE DEF ChatsInit, Init
<1>1. MayCreate(Callers) = {} /\ MayCreate(HttpCalls) = {} /\ creating[Consumer] = "idle"
  BY DEF MayCreate, Callers
<1>2. Cardinality({}) = 0 /\ IsFiniteSet({})
  BY FS_EmptySet
<1>3. CreationsCounted
  BY <1>1, <1>2 DEF CreationsCounted
<1>4. /\ 0 \in 0..MaxDeletions /\ 0 \in 0..MaxHttpDeletes /\ 0 \in 0..MaxCrashes
      /\ 0 \in 0..MaxRequests /\ 0 \in 0..MaxFaults
  BY ChatDeletionAssumption, ChatsAssumption
<1>5. Histories
  BY <1>4 DEF Histories
<1>6. DeletionsCounted
  BY DEF DeletionsCounted
<1> QED
  BY <1>3, <1>5, <1>6 DEF Counted

\* One more element, or part of a set, counts for at most one more.
LEMMA OneMore ==
  ASSUME NEW S, NEW T, NEW x, IsFiniteSet(S), T \subseteq S \cup {x}
  PROVE  /\ IsFiniteSet(T) /\ Cardinality(T) \in Nat /\ Cardinality(S) \in Nat
         /\ Cardinality(T) <= Cardinality(S) + 1
<1>1. Cardinality(S) \in Nat
  BY FS_CardinalityType
<1>2. /\ IsFiniteSet(S \cup {x})
      /\ Cardinality(S \cup {x}) = Cardinality(S) \/ Cardinality(S \cup {x}) = Cardinality(S) + 1
  BY FS_AddElement
<1>3. IsFiniteSet(T) /\ Cardinality(T) <= Cardinality(S \cup {x})
  BY <1>2, FS_Subset
<1>4. Cardinality(T) \in Nat
  BY <1>3, FS_CardinalityType
<1> QED
  BY <1>1, <1>2, <1>3, <1>4

\* Part of a set counts for no more.
LEMMA NoMore ==
  ASSUME NEW S, NEW T, IsFiniteSet(S), T \subseteq S
  PROVE  /\ IsFiniteSet(T) /\ Cardinality(T) \in Nat /\ Cardinality(S) \in Nat
         /\ Cardinality(T) <= Cardinality(S)
<1>1. IsFiniteSet(T) /\ Cardinality(T) <= Cardinality(S)
  BY FS_Subset
<1> QED
  BY <1>1, FS_CardinalityType

\* A set that loses an element counts for one less.
LEMMA OneLess ==
  ASSUME NEW S, NEW x \in S, IsFiniteSet(S)
  PROVE  /\ IsFiniteSet(S \ {x}) /\ Cardinality(S) \in Nat /\ Cardinality(S \ {x}) \in Nat
         /\ Cardinality(S \ {x}) + 1 = Cardinality(S)
<1>1. IsFiniteSet(S \ {x}) /\ Cardinality(S \ {x}) = Cardinality(S) - 1
  BY FS_RemoveElement
<1>2. Cardinality(S) \in Nat /\ Cardinality(S \ {x}) \in Nat
  BY <1>1, FS_CardinalityType
<1> QED
  BY <1>1, <1>2

\* A bound that failures raise.
LEMMA MoreAllowed ==
  ASSUME NEW a \in Nat, NEW b \in Nat, NEW c \in Nat, NEW d \in Nat, a <= b + c, c <= d
  PROVE  a <= b + d
  OBVIOUS

LEMMA OneMoreAllowed ==
  ASSUME NEW a \in Nat, NEW k \in Nat, NEW b \in Nat, NEW c \in Nat, NEW d \in Nat,
         a <= b + c, k <= a + 1, d = c + 1
  PROVE  k <= b + d
  OBVIOUS

\* A bound that a request raises, and a failure.
LEMMA RaisedAllowed ==
  ASSUME NEW a \in Nat, NEW b \in Nat, NEW r \in Nat, NEW f \in Nat, NEW g \in Nat,
         NEW n \in Nat, a + n <= r + f, b + f <= a + 1 + g
  PROVE  b + n <= r + 1 + g
  OBVIOUS

\* A bound on what is left once a part is gone.
LEMMA LeftAllowed ==
  ASSUME NEW a \in Nat, NEW b \in Nat, NEW c \in Nat, NEW r \in Nat, NEW f \in Nat, NEW g \in Nat,
         a + b <= r + f, c <= a + b, f <= g
  PROVE  c + 0 <= r + g
  OBVIOUS

\* A sum of counters is a number.
LEMMA SumOfThree ==
  ASSUME NEW a \in Nat, NEW b \in Nat, NEW c \in Nat
  PROVE  a + b + c \in Nat
  OBVIOUS

\* What a call of createChat that goes on means for the numbers.
LEMMA CreatingCounted == CInv /\ Counted /\ Creating /\ Noting => Counted'
<1> SUFFICES ASSUME CInv, Counted, Creating, Noting PROVE Counted'
  OBVIOUS
<1> USE ChatsAssumption DEF CInv, Types, Counted
<1> DEFINE H == MayCreate(HttpCalls)
           A == MayCreate(Callers)
           Hn == {c \in HttpCalls : creating'[c] = "create"}
           An == {c \in Callers : creating'[c] = "create"}
<1>1. UNCHANGED allButFaults /\ (faults' = faults \/ Fault)
  BY CreatingKeeps
<1>2. /\ H \subseteq A /\ IsFiniteSet(A) /\ IsFiniteSet(H)
      /\ Cardinality(A) \in Nat /\ Cardinality(H) \in Nat /\ Cardinality(H) <= Cardinality(A)
  <2>1. H \subseteq A /\ IsFiniteSet(A)
    BY DEF MayCreate, Callers, CreationsCounted
  <2> HIDE DEF H, A
  <2> QED
    BY <2>1, NoMore
<1>3. /\ creates \in Nat /\ created \in Nat /\ others \in Nat
      /\ creates + created <= requests + faults
      /\ creating[Consumer] # "idle" => creates > 0
      /\ others = 0 => creates + created + Cardinality(H) <= requests + faults
      /\ others + Cardinality(A) <= requests + faults
      /\ requests \in 0..MaxRequests /\ faults \in 0..MaxFaults
  BY DEF CreationsCounted, Histories
<1> DEFINE Numbers ==
             /\ requests' \in 0..MaxRequests /\ faults' \in 0..MaxFaults
             /\ creates' \in Nat /\ created' \in Nat /\ creates' + created' <= requests' + faults'
             /\ creating'[Consumer] # "idle" => creates' > 0
             /\ IsFiniteSet(An)
             /\ others' = 0 => creates' + created' + Cardinality(Hn) <= requests' + faults'
             /\ others' + Cardinality(An) <= requests' + faults'
<1>4. ASSUME Request \/ RequestTwice PROVE Numbers
  <2>1. Hn = H /\ An = A
    BY <1>4 DEF Request, RequestTwice, MayCreate
  <2>2. /\ requests' = requests + 1 /\ requests' \in 0..MaxRequests
        /\ UNCHANGED <<others, created, creating>>
    BY <1>3, <1>4, ChatDeletionAssumption DEF Request, RequestTwice, Histories
  <2>3. /\ faults' \in 0..MaxFaults /\ creates' \in Nat /\ creates' > 0
        /\ creates' + faults <= creates + 1 + faults'
    BY <1>3, <1>4, ChatDeletionAssumption DEF Request, RequestTwice, Fault, vars, counters
  <2> HIDE DEF H, A, Hn, An, CInv, Types, Counted
  <2>4. faults \in Nat /\ faults' \in Nat /\ requests \in Nat /\ faults <= faults'
    BY <1>1, <1>3, <2>3, ChatDeletionAssumption, ChatsAssumption DEF Fault
  <2>5. /\ creates' + created <= requests' + faults'
        /\ creating[Consumer] # "idle" => creates' > 0
    <3>1. creates' + created <= requests' + faults'
      <4>1. requests' = requests + 1 /\ requests' \in Nat
        BY <2>2, <2>4
      <4>2. creates' + faults <= creates + 1 + faults' /\ creates' \in Nat
        BY <2>3
      <4>3. creates \in Nat /\ created \in Nat /\ creates + created <= requests + faults
        BY <1>3
      <4>4. creates' + created <= requests + 1 + faults'
        BY <2>4, <4>2, <4>3, RaisedAllowed, Zenon
      <4> QED
        BY <4>1, <4>4, Zenon
    <3> QED
      BY <2>3, <3>1
  <2>6. ASSUME others = 0 PROVE creates' + created + Cardinality(H) <= requests' + faults'
    <3>1. creates + created + Cardinality(H) <= requests + faults
      BY <1>3, <2>6
    <3>2. PICK n \in Nat : n = created + Cardinality(H)
      BY <1>2, <1>3
    <3>3. creates \in Nat /\ created \in Nat /\ creates' \in Nat /\ Cardinality(H) \in Nat
      BY <1>2, <1>3, <2>3
    <3>4. creates + n <= requests + faults
      BY <3>1, <3>2, <3>3
    <3>5. requests' = requests + 1 /\ requests' \in Nat
      BY <2>2, <2>4
    <3>6. creates' + faults <= creates + 1 + faults'
      BY <2>3
    <3>7. creates' + n <= requests + 1 + faults'
      BY <2>4, <3>3, <3>4, <3>6, RaisedAllowed, Zenon
    <3>8. creates' + n <= requests' + faults'
      BY <3>5, <3>7, Zenon
    <3> QED
      BY <3>2, <3>3, <3>8
  <2>7. others + Cardinality(A) <= requests' + faults'
    <3>1. others \in Nat /\ Cardinality(A) \in Nat /\ others + Cardinality(A) <= requests + faults
      BY <1>2, <1>3
    <3>2. requests' = requests + 1
      BY <2>2
    <3> QED
      BY <2>4, <3>1, <3>2
  <2> QED
    BY <1>2, <1>3, <2>1, <2>2, <2>3, <2>5, <2>6, <2>7
<1>5. ASSUME CommitCreate \/ RebalanceCreate PROVE Numbers
  <2>1. /\ Hn = H /\ An = A /\ UNCHANGED <<others, creating, requests>>
        /\ creates' \in Nat /\ created' = 0 /\ creates' <= creates + created /\ creates <= creates'
    BY <1>3, <1>5 DEF CommitCreate, RebalanceCreate, RedeliversCreate, MayCreate
  <2>2. faults' \in 0..MaxFaults /\ faults <= faults'
    BY <1>1, <1>3, ChatDeletionAssumption DEF Fault
  <2> HIDE DEF H, A, Hn, An, CInv, Types, Counted
  <2>3. faults \in Nat /\ faults' \in Nat /\ requests \in Nat
    BY <1>3, <2>2, ChatDeletionAssumption, ChatsAssumption
  <2>4. /\ creates' + created' <= requests' + faults'
        /\ others' + Cardinality(A) <= requests' + faults'
    <3>1. /\ creates \in Nat /\ created \in Nat /\ others \in Nat /\ Cardinality(A) \in Nat
          /\ creates + created <= requests + faults /\ others + Cardinality(A) <= requests + faults
      BY <1>2, <1>3
    <3>2. /\ creates' \in Nat /\ created' = 0 /\ others' = others /\ requests' = requests
          /\ creates' <= creates + created /\ faults <= faults'
      BY <2>1, <2>2
    <3>3. creates' + 0 <= requests + faults'
      BY <2>3, <3>1, <3>2, LeftAllowed, Zenon
    <3>4. others + Cardinality(A) <= requests + faults'
      BY <2>3, <3>1, <3>2
    <3> QED
      BY <3>2, <3>3, <3>4, Zenon
  <2>5. ASSUME others = 0 PROVE creates' + created' + Cardinality(H) <= requests' + faults'
    <3>1. /\ creates \in Nat /\ created \in Nat /\ Cardinality(H) \in Nat
          /\ creates + created + Cardinality(H) <= requests + faults
      BY <1>2, <1>3, <2>5
    <3>2. /\ creates' \in Nat /\ created' = 0 /\ requests' = requests
          /\ creates' <= creates + created /\ faults <= faults'
      BY <2>1, <2>2
    <3> QED
      BY <2>3, <3>1, <3>2
  <2>6. creating[Consumer] # "idle" => creates' > 0
    BY <1>3, <2>1
  <2> QED
    BY <1>2, <1>3, <2>1, <2>2, <2>4, <2>5, <2>6
<1>6. ASSUME NEW c \in Callers, FindOne(c) PROVE Numbers
  <2>1. /\ creating[c] = "idle" /\ c \notin A
        /\ c = Consumer => creates > 0 /\ requests' = requests
        /\ c # Consumer => requests' = requests + 1 /\ requests' \in 0..MaxRequests
        /\ faults' = faults
    BY <1>3, <1>6, ChatDeletionAssumption DEF FindOne, Begins, Histories, MayCreate, vars, counters
  <2>2. CASE Documents > 0
    <3>1. Hn = H /\ An = A
      BY <1>6, <2>1, <2>2 DEF FindOne, Answer, MayCreate, Callers
    <3>2. /\ others' = others
          /\ creating'[Consumer] # "idle" => creating[Consumer] # "idle"
          /\ IF c = Consumer THEN creates' = creates - 1 /\ created' = created + 1
                                  /\ creating'[Consumer] = "idle"
             ELSE creates' = creates /\ created' = created
      BY <1>6, <2>2 DEF FindOne, Answer, Callers
    <3> HIDE DEF H, A, Hn, An, CInv, Types, Counted
    <3> QED
      BY <1>2, <1>3, <2>1, <3>1, <3>2
  <2>3. CASE ~ Documents > 0
    <3>1. /\ others = 0 /\ others' = 0 /\ creates' = creates /\ created' = created
          /\ creating' = [creating EXCEPT ![c] = "create"]
      BY <1>6, <2>3 DEF FindOne, Documents
    <3>2. /\ An \subseteq A \cup {c} /\ Hn \subseteq H \cup {c}
          /\ c = Consumer => Hn \subseteq H /\ A \subseteq H
          /\ c # Consumer => creating'[Consumer] = creating[Consumer]
      BY <2>1, <3>1 DEF MayCreate, Callers
    <3> HIDE DEF H, A, Hn, An
    <3>3. /\ IsFiniteSet(An) /\ Cardinality(An) \in Nat /\ Cardinality(An) <= Cardinality(A) + 1
          /\ Cardinality(Hn) \in Nat /\ Cardinality(Hn) <= Cardinality(H) + 1
      BY <1>2, <3>2, OneMore
    <3>4. c = Consumer => Cardinality(Hn) <= Cardinality(H) /\ Cardinality(A) <= Cardinality(H)
      BY <1>2, <3>2, NoMore
    <3> HIDE DEF CInv, Types, Counted
    <3>5. creates + created + Cardinality(Hn) <= requests' + faults
      BY <1>2, <1>3, <2>1, <3>1, <3>3, <3>4
    <3>6. Cardinality(An) <= requests' + faults
      BY <1>2, <1>3, <2>1, <3>1, <3>3, <3>4
    <3>7. creating'[Consumer] # "idle" => creates > 0
      BY <1>3, <2>1, <3>2
    <3> QED
      BY <1>3, <2>1, <3>1, <3>3, <3>5, <3>6, <3>7
  <2> QED
    BY <2>2, <2>3
<1>7. ASSUME NEW c \in Callers, Create(c) PROVE Numbers
  <2>1. /\ c \in A /\ An = A \ {c} /\ others' = others + 1
        /\ UNCHANGED <<creates, created, requests, faults>>
        /\ creating'[Consumer] # "idle" => creating[Consumer] # "idle"
    BY <1>7 DEF Create, MayCreate, Callers, vars, counters
  <2> HIDE DEF H, A, Hn, An
  <2>2. /\ IsFiniteSet(An) /\ Cardinality(An) \in Nat /\ Cardinality(An) + 1 = Cardinality(A)
    BY <1>2, <2>1, OneLess
  <2> QED
    BY <1>2, <1>3, <2>1, <2>2
<1>8. ASSUME NEW c \in Callers, CreateCollection(c) \/ Throws(c) PROVE Numbers
  <2>1. /\ An \subseteq A /\ Hn \subseteq H /\ others' = others /\ requests' = requests
        /\ creating[c] # "idle" /\ creating' = [creating EXCEPT ![c] = "idle"] /\ faults' = faults
        /\ IF c = Consumer THEN creates' = creates - 1 /\ created' = created + 1
           ELSE creates' = creates /\ created' = created
    BY <1>8 DEF CreateCollection, Throws, Answer, MayCreate, Callers, vars, counters
  <2>2. /\ c = Consumer => creates > 0 /\ creating'[Consumer] = "idle"
        /\ c # Consumer => creating'[Consumer] = creating[Consumer]
    BY <1>3, <2>1 DEF Callers
  <2> HIDE DEF H, A, Hn, An, CInv, Types, Counted
  <2>3. /\ IsFiniteSet(An) /\ Cardinality(An) \in Nat /\ Cardinality(An) <= Cardinality(A)
        /\ Cardinality(Hn) \in Nat /\ Cardinality(Hn) <= Cardinality(H)
    BY <1>2, <2>1, NoMore
  <2>4. /\ creates' \in Nat /\ created' \in Nat /\ creates' + created' = creates + created
        /\ creating'[Consumer] # "idle" => creates' > 0
    BY <1>3, <2>1, <2>2
  <2>5. others' = 0 => creates' + created' + Cardinality(Hn) <= requests' + faults
    BY <1>2, <1>3, <2>1, <2>3, <2>4
  <2>6. others' + Cardinality(An) <= requests' + faults
    BY <1>2, <1>3, <2>1, <2>3
  <2> QED
    BY <1>3, <2>1, <2>3, <2>4, <2>5, <2>6
<1>9. Numbers
  BY <1>4, <1>5, <1>6, <1>7, <1>8 DEF Creating
<1>10. CreationsCounted'
  <2>1. MayCreate(HttpCalls)' = Hn /\ MayCreate(Callers)' = An
    BY DEF MayCreate, Callers
  <2> HIDE DEF Hn, An
  <2> QED
    BY <1>9, <2>1 DEF CreationsCounted
<1>11. Histories' /\ DeletionsCounted'
  <2>1. overlapped' \in BOOLEAN /\ late' \subseteq added'
    BY <1>1 DEF Noting, allButFaults, Histories
  <2>2. faults \in Nat /\ faults' \in Nat /\ faults <= faults'
    BY <1>1, <1>3, ChatDeletionAssumption DEF Fault
  <2>3. /\ emitted + ready + handled \in Nat /\ deletions \in Nat
        /\ emitted + ready + handled <= deletions + faults
    BY ChatDeletionAssumption DEF Histories, DeletionsCounted
  <2>4. emitted + ready + handled <= deletions + faults'
    BY <2>2, <2>3, MoreAllowed
  <2>5. DeletionsCounted'
    BY <1>1, <2>4 DEF allButFaults, records, DeletionsCounted
  <2> QED
    BY <1>1, <1>9, <2>1, <2>5 DEF allButFaults, records, Histories
<1> QED
  BY <1>10, <1>11

\* The deletion counts its own records, and ends none that is not there.
LEMMA DeletingCounted == CInv /\ Counted /\ Deleting /\ Noting => Counted'
<1> SUFFICES ASSUME CInv, Counted, Deleting, Noting PROVE Counted'
  OBVIOUS
<1> USE ChatDeletionAssumption DEF CInv, Types, Counted, Histories, DeletionsCounted
<1> DEFINE Past ==
             /\ added \subseteq added' /\ added' \subseteq Messages /\ dropped' \subseteq Messages
             /\ races' \in Nat /\ deletions' \in 0..MaxDeletions
             /\ httpDeletes' \in 0..MaxHttpDeletes /\ crashes' = crashes
             /\ half' \in BOOLEAN /\ faults' \in 0..MaxFaults /\ faults <= faults'
             /\ emitted' + ready' + handled' <= deletions' + faults'
<1>1. /\ deletions \in Nat /\ faults \in Nat /\ races \in Nat
      /\ emitted + ready + handled <= deletions + faults
  OBVIOUS
<1>2. ASSUME NEW m \in Messages, AddMessage(m) \/ DeleteMessage(m) PROVE Past
  <2>1. races' \in Nat
    BY <1>2 DEF AddMessage, DeleteMessage, CountRace
  <2>2. /\ added \subseteq added' /\ added' \subseteq Messages
        /\ UNCHANGED <<records, dropped, half, deletions, faults, crashes>>
        /\ httpDeletes' \in 0..MaxHttpDeletes
    BY <1>2 DEF AddMessage, DeleteMessage, counters
  <2> QED
    BY <2>1, <2>2 DEF records
<1>3. ASSUME NEW m \in Messages, PublishPurge(m) PROVE Past
  BY <1>1, <1>3 DEF PublishPurge, records, counters
<1>4. ASSUME Start \/ ReadPage \/ NoSuchPage PROVE Past
  <2>1. UNCHANGED <<records, dropped, added, races, counters>>
    BY <1>4 DEF Start, ReadPage, NoSuchPage
  <2> QED
    BY <1>1, <2>1 DEF records, counters
<1>5. Elements(coll) \subseteq Messages
  BY DEF WalkInOrder
<1>6. ASSUME DropCollection PROVE Past
  BY <1>1, <1>5, <1>6 DEF DropCollection, records, counters
<1>7. ASSUME DeleteDocument \/ DeleteChatById \/ Publish \/ Commit PROVE Past
  <2>1. UNCHANGED <<added, dropped, races, half, httpDeletes, faults, crashes>>
    BY <1>7 DEF DeleteDocument, DeleteChatById, Publish, Commit, counters
  <2>2. CASE DeleteChatById
    BY <1>1, <2>1, <2>2 DEF DeleteChatById
  <2>3. CASE DeleteDocument \/ Publish \/ Commit
    BY <1>1, <2>1, <2>3 DEF DeleteDocument, Publish, Commit, counters
  <2> QED
    BY <1>7, <2>2, <2>3
<1>8. ASSUME Fault, UNCHANGED <<added, races, deletions, httpDeletes, crashes>>
      PROVE  /\ added \subseteq added' /\ added' \subseteq Messages
             /\ races' \in Nat /\ deletions' \in 0..MaxDeletions
             /\ httpDeletes' \in 0..MaxHttpDeletes /\ crashes' = crashes
             /\ faults' \in 0..MaxFaults /\ faults' = faults + 1
  BY <1>1, <1>8 DEF Fault
<1>9. ASSUME HandlerThrows PROVE Past
  <2>1. Fault /\ UNCHANGED <<added, races, deletions, httpDeletes, crashes, records>>
    BY <1>9 DEF HandlerThrows
  <2>2. half' \in BOOLEAN /\ dropped' \subseteq Messages
    BY <1>5, <1>9 DEF HandlerThrows
  <2>3. /\ added \subseteq added' /\ added' \subseteq Messages
        /\ races' \in Nat /\ deletions' \in 0..MaxDeletions
        /\ httpDeletes' \in 0..MaxHttpDeletes /\ crashes' = crashes
        /\ faults' \in 0..MaxFaults /\ faults' = faults + 1
    BY <1>8, <2>1
  <2> HIDE DEF CInv, Types, Counted, Histories
  <2>4. faults \in Nat /\ faults' \in Nat /\ faults <= faults'
    BY <1>1, <2>3
  <2>5. emitted' + ready' + handled' <= deletions' + faults'
    <3>1. emitted + ready + handled \in Nat
      BY DEF CInv, Types
    <3>2. emitted + ready + handled <= deletions + faults'
      BY <1>1, <2>4, <3>1, MoreAllowed
    <3> QED
      BY <2>1, <3>2 DEF records
  <2> QED
    BY <2>2, <2>3, <2>4, <2>5
<1>10. ASSUME PublishFaultily \/ (\E m \in Messages : PurgeFails(m)) \/ Rebalance PROVE Past
  <2>1. Fault /\ UNCHANGED <<added, races, half, dropped, deletions, httpDeletes, crashes>>
    BY <1>10 DEF PublishFaultily, PurgeFails, Rebalance
  <2>2. emitted' + ready' + handled' <= emitted + ready + handled + 1
    BY <1>10 DEF PublishFaultily, PurgeFails, Rebalance, Redelivers, records
  <2>3. emitted' \in Nat /\ ready' \in Nat /\ handled' \in Nat
    BY <1>10 DEF PublishFaultily, PurgeFails, Rebalance, Redelivers, records
  <2> HIDE DEF CInv, Types, Counted, Histories, DeletionsCounted
  <2>4. half \in BOOLEAN /\ dropped \subseteq Messages /\ emitted \in Nat /\ ready \in Nat
        /\ handled \in Nat
    BY DEF CInv, Types, Counted, Histories
  <2>5. emitted' + ready' + handled' <= deletions + faults'
    <3>1. emitted + ready + handled \in Nat /\ emitted' + ready' + handled' \in Nat
      <4>1. emitted + ready + handled \in Nat
        BY <2>4
      <4>2. emitted' + ready' + handled' \in Nat
        BY <2>3, SumOfThree, Zenon
      <4> QED
        BY <4>1, <4>2
    <3>2. faults' \in Nat /\ faults' = faults + 1
      BY <1>1, <2>1 DEF Fault
    <3> QED
      BY <1>1, <2>2, <3>1, <3>2, OneMoreAllowed
  <2>6. /\ added' \subseteq Messages /\ races' \in Nat /\ deletions' \in 0..MaxDeletions
        /\ deletions' = deletions
        /\ httpDeletes' \in 0..MaxHttpDeletes /\ crashes' = crashes
        /\ faults' \in 0..MaxFaults /\ faults' = faults + 1 /\ faults <= faults'
    <3>1. faults <= faults + 1
      BY <1>1
    <3> QED
      BY <1>8, <2>1, <3>1
  <2> QED
    BY <2>1, <2>4, <2>5, <2>6
<1>11. Past
  BY <1>2, <1>3, <1>4, <1>6, <1>7, <1>9, <1>10 DEF Deleting, HandlerStep, KafkaStep
<1>12. overlapped' \in BOOLEAN /\ late' \subseteq added'
  BY <1>11 DEF Noting
<1>13. CreationsCounted' /\ requests' = requests
  <2>1. UNCHANGED <<others, creates, created, creating, requests>>
    BY DEF Deleting, creation
  <2>2. Cardinality(MayCreate(Callers)) \in Nat
    BY FS_CardinalityType DEF CreationsCounted
  <2>3. ASSUME others = 0
        PROVE  creates + created + Cardinality(MayCreate(HttpCalls)) <= requests + faults'
    <3>1. MayCreate(HttpCalls) \subseteq MayCreate(Callers)
      BY DEF MayCreate, Callers
    <3>2. Cardinality(MayCreate(HttpCalls)) \in Nat
      BY <3>1, NoMore DEF CreationsCounted
    <3>3. creates + created + Cardinality(MayCreate(HttpCalls)) <= requests + faults
      BY <2>3 DEF CreationsCounted
    <3>4. creates \in Nat /\ created \in Nat /\ requests \in Nat
      BY ChatsAssumption DEF CreationsCounted
    <3> HIDE DEF CInv, Types, Counted, Histories, DeletionsCounted
    <3> QED
      BY <1>1, <1>11, <3>2, <3>3, <3>4, ChatDeletionAssumption
  <2>4. /\ MayCreate(Callers)' = MayCreate(Callers) /\ MayCreate(HttpCalls)' = MayCreate(HttpCalls)
    BY <2>1 DEF MayCreate
  <2>5. /\ creates \in Nat /\ created \in Nat /\ requests \in Nat /\ others \in Nat
        /\ creates + created <= requests + faults
        /\ others + Cardinality(MayCreate(Callers)) <= requests + faults
        /\ creating[Consumer] # "idle" => creates > 0
        /\ IsFiniteSet(MayCreate(Callers))
    BY ChatsAssumption DEF CreationsCounted
  <2>6. faults' \in Nat /\ faults <= faults'
    BY <1>11
  <2> HIDE DEF CInv, Types, Counted, Histories, DeletionsCounted, Past
  <2>7. creates + created \in Nat /\ others + Cardinality(MayCreate(Callers)) \in Nat
        /\ faults \in Nat
    BY <1>1, <2>2, <2>5
  <2>8. /\ creates + created <= requests + faults'
        /\ others + Cardinality(MayCreate(Callers)) <= requests + faults'
    BY <2>5, <2>6, <2>7, MoreAllowed
  <2> QED
    BY <2>1, <2>3, <2>4, <2>5, <2>8 DEF CreationsCounted
<1> QED
  BY <1>11, <1>12, <1>13

\* A restart has the records handled again that are not committed.
LEMMA RestartCounted == CInv /\ Counted /\ Restart /\ Noting => Counted'
<1> SUFFICES ASSUME CInv, Counted, Restart, Noting PROVE Counted'
  OBVIOUS
<1> USE ChatDeletionAssumption, ChatsAssumption
    DEF CInv, Types, Counted, Histories, DeletionsCounted, Restart, Crash, Redelivers,
        RedeliversCreate
<1>1. overlapped' \in BOOLEAN /\ late' \subseteq added'
  BY DEF Noting
<1>2. /\ {c \in Callers : creating'[c] = "create"} = {}
      /\ {c \in HttpCalls : creating'[c] = "create"} = {}
      /\ creating'[Consumer] = "idle" /\ Cardinality({}) = 0 /\ IsFiniteSet({})
  BY FS_EmptySet DEF Callers
<1>3. others <= requests + faults /\ faults \in Nat /\ faults' = faults
  <2>1. Cardinality(MayCreate(Callers)) \in Nat
    BY FS_CardinalityType DEF CreationsCounted
  <2> QED
    BY <2>1 DEF CreationsCounted
<1>4. CreationsCounted'
  <2>1. MayCreate(Callers)' = {} /\ MayCreate(HttpCalls)' = {}
    BY <1>2 DEF MayCreate, Callers
  <2>2. /\ creates' \in Nat /\ created' = 0 /\ creates' = creates + created
        /\ creates' <= requests' + faults' /\ others' <= requests' + faults'
    BY <1>3 DEF CreationsCounted
  <2>3. /\ creates' + created' + 0 <= requests' + faults' /\ others' + 0 <= requests' + faults'
        /\ creates' + created' <= requests' + faults'
    BY <1>3, <2>2
  <2> QED
    BY <1>2, <2>1, <2>2, <2>3 DEF CreationsCounted
<1>5. Histories' /\ DeletionsCounted'
  BY <1>1
<1> QED
  BY <1>4, <1>5

LEMMA StepCounted == CInv /\ Counted /\ [ChatsNext]_chatsVars => Counted'
<1> SUFFICES ASSUME CInv, Counted, [ChatsNext]_chatsVars PROVE Counted'
  OBVIOUS
<1>1. CASE UNCHANGED chatsVars
  BY <1>1 DEF chatsVars, vars, records, counters, creation, history, Counted, Histories,
     DeletionsCounted, CreationsCounted, MayCreate
<1> QED
  BY <1>1, CreatingCounted, DeletingCounted, RestartCounted DEF ChatsNext

-----------------------------------------------------------------------------
(* The walk: no more messages are missed than HTTP requests race with it *)

\* The messages the walk has passed, which are all once it has read the last page.
Passed ==
  IF phase = "page" THEN {coll[j] : j \in {i \in DOMAIN coll : i < page}}
  ELSE IF phase = "drop" THEN Elements(coll) ELSE {}

\* Those, and the ones dropped, whose files nobody purges.
Missed == (Passed \cup dropped) \ (outbox \cup purged \cup lost)

MissedAreRaces == Cardinality(Missed) <= races

\* What is left of a list before and after a place.
LEMMA Halves ==
  ASSUME NEW q \in Seq(Messages), NEW i \in 1..Len(q)
  PROVE  /\ SubSeq(q, 1, i - 1) \in Seq(Messages) /\ SubSeq(q, i + 1, Len(q)) \in Seq(Messages)
         /\ Len(SubSeq(q, 1, i - 1)) = i - 1 /\ Len(SubSeq(q, i + 1, Len(q))) = Len(q) - i
         /\ \A x \in 1..(i - 1) : SubSeq(q, 1, i - 1)[x] = q[x]
         /\ \A x \in 1..(Len(q) - i) : SubSeq(q, i + 1, Len(q))[x] = q[x + i]
<1>1. /\ SubSeq(q, 1, i - 1) \in Seq(Messages) /\ Len(SubSeq(q, 1, i - 1)) = i - 1
      /\ \A x \in 1..(i - 1) : SubSeq(q, 1, i - 1)[x] = q[x]
  OBVIOUS
<1>2. SubSeq(q, i + 1, Len(q)) \in Seq(Messages)
  OBVIOUS
<1>3. Len(SubSeq(q, i + 1, Len(q))) = Len(q) - i
  OBVIOUS
<1>4. \A x \in 1..(Len(q) - i) : SubSeq(q, i + 1, Len(q))[x] = q[x + i]
  OBVIOUS
<1> QED
  BY <1>1, <1>2, <1>3, <1>4

LEMMA JoinedLength ==
  ASSUME NEW a \in Seq(Messages), NEW b \in Seq(Messages)
  PROVE  Len(a \o b) = Len(a) + Len(b) /\ Len(a) \in Nat /\ Len(b) \in Nat
  OBVIOUS

\* The members of two lists joined, the first as long as all before a place.
LEMMA Joined ==
  ASSUME NEW a \in Seq(Messages), NEW b \in Seq(Messages), NEW i \in Nat \ {0}, Len(a) = i - 1,
         NEW j \in 1..Len(a \o b)
  PROVE  IF j < i THEN j \in 1..Len(a) /\ (a \o b)[j] = a[j]
         ELSE (j + 1) - i \in 1..Len(b) /\ (a \o b)[j] = b[(j + 1) - i]
<1>1. Len(a \o b) = Len(a) + Len(b) /\ Len(a) \in Nat /\ Len(b) \in Nat
  BY JoinedLength
<1>2. CASE j < i
  BY <1>1, <1>2
<1>3. CASE ~ j < i
  <2>1. (j + 1) - i \in 1..Len(b) /\ (j + 1) - i = j - Len(a) /\ ~ j <= Len(a)
    BY <1>1, <1>3
  <2>2. (a \o b)[j] = b[j - Len(a)]
    BY <1>1, <2>1
  <2> QED
    BY <1>3, <2>1, <2>2
<1> QED
  BY <1>2, <1>3

\* Two halves of a list without the member between them.
LEMMA HalvesShift ==
  ASSUME NEW q \in Seq(Messages), NEW i \in 1..Len(q),
         NEW u \in Seq(Messages), NEW v \in Seq(Messages), NEW j \in 1..Len(u \o v),
         Len(u) = i - 1, \A x \in 1..(i - 1) : u[x] = q[x],
         Len(v) = Len(q) - i, \A x \in 1..(Len(q) - i) : v[x] = q[x + i]
  PROVE  j \in 1..Len(q) /\ j + 1 \in 1..Len(q) /\ (u \o v)[j] \in {q[j], q[j + 1]}
<1>1. Len(u \o v) = Len(u) + Len(v) /\ Len(q) \in Nat
  BY JoinedLength
<1>2. j \in 1..Len(q) /\ j + 1 \in 1..Len(q)
  BY <1>1
<1>3. CASE j < i
  BY <1>1, <1>2, <1>3, Joined
<1>4. CASE ~ j < i
  <2>1. (j + 1) - i \in 1..Len(v) /\ (u \o v)[j] = v[(j + 1) - i]
    BY <1>4, Joined
  <2>2. v[(j + 1) - i] = q[((j + 1) - i) + i] /\ ((j + 1) - i) + i = j + 1
    BY <2>1
  <2> QED
    BY <1>2, <2>1, <2>2
<1> QED
  BY <1>2, <1>3, <1>4

\* A deletion shifts the messages after it by one.
LEMMA ShiftedByOne ==
  ASSUME NEW q \in Seq(Messages), NEW i \in DOMAIN q
  PROVE  LET r == SubSeq(q, 1, i - 1) \o SubSeq(q, i + 1, Len(q))
         IN  \A j \in DOMAIN r : /\ j \in DOMAIN q /\ j + 1 \in DOMAIN q
                                 /\ r[j] \in {q[j], q[j + 1]}
<1> DEFINE a == SubSeq(q, 1, i - 1)
           b == SubSeq(q, i + 1, Len(q))
<1>1. i \in 1..Len(q) /\ DOMAIN q = 1..Len(q)
  OBVIOUS
<1>2. /\ a \in Seq(Messages) /\ b \in Seq(Messages)
      /\ Len(a) = i - 1 /\ Len(b) = Len(q) - i
      /\ \A x \in 1..(i - 1) : a[x] = q[x]
      /\ \A x \in 1..(Len(q) - i) : b[x] = q[x + i]
  BY <1>1, Halves
<1> HIDE DEF a, b
<1>3. DOMAIN (a \o b) = 1..Len(a \o b)
  BY <1>2
<1>4. \A j \in 1..Len(a \o b) : j \in 1..Len(q) /\ j + 1 \in 1..Len(q)
                                /\ (a \o b)[j] \in {q[j], q[j + 1]}
  BY <1>1, <1>2, HalvesShift
<1> QED
  BY <1>1, <1>3, <1>4 DEF a, b

\* A message that is written shifts the walk by one: it passes one more.
LEMMA AddedShifts ==
  ASSUME CInv, NEW m \in Messages, AddMessage(m)
  PROVE  /\ ~ Walked => Passed' \subseteq Passed /\ races' = races
         /\ Walked => Passed' \subseteq Passed \cup {m} /\ races' = races + 1
<1> USE DEF CInv, Types, AddMessage, CountRace, Walked, handler
<1>1. /\ coll' \in Seq(Messages) /\ coll' = <<m>> \o coll
      /\ Elements(coll') = {m} \cup Elements(coll)
  BY AddedFirst
<1>2. /\ DOMAIN coll' = 1..(Len(coll) + 1) /\ DOMAIN coll = 1..Len(coll) /\ Len(coll) \in Nat
      /\ coll'[1] = m /\ \A j \in 2..(Len(coll) + 1) : coll'[j] = coll[j - 1]
  BY <1>1
<1>3. CASE phase = "page"
  <2>1. ASSUME NEW j \in DOMAIN coll', j < page
        PROVE  page > 1 /\ (coll'[j] = m \/ coll'[j] \in Passed)
    <3>1. j = 1 \/ (j \in 2..(Len(coll) + 1) /\ j - 1 \in DOMAIN coll /\ j - 1 < page)
      BY <1>2, <2>1
    <3> QED
      BY <1>2, <1>3, <2>1, <3>1 DEF Passed
  <2>2. \A x \in Passed' : \E j \in DOMAIN coll' : j < page /\ x = coll'[j]
    BY <1>3 DEF Passed
  <2> QED
    BY <1>3, <2>1, <2>2
<1>4. CASE phase # "page"
  BY <1>1, <1>4 DEF Passed
<1> QED
  BY <1>3, <1>4

\* A message that is deleted before the walk has it pass one more.
LEMMA DeletedShifts ==
  ASSUME CInv, NEW m \in Messages, DeleteMessage(m)
  PROVE  /\ ~ Walked => Passed' \subseteq Passed /\ races' = races
         /\ Walked => (\E x : Passed' \subseteq Passed \cup {x}) /\ races' = races + 1
<1> USE DEF CInv, Types, DeleteMessage, CountRace, Walked, handler
<1>1. PICK i \in DOMAIN coll :
        coll' = SubSeq(coll, 1, i - 1) \o SubSeq(coll, i + 1, Len(coll))
  OBVIOUS
<1>2. coll' \in Seq(Messages) /\ Elements(coll') \subseteq Elements(coll)
  BY <1>1, TakenOut
<1>3. \A j \in DOMAIN coll' : /\ j \in DOMAIN coll /\ j + 1 \in DOMAIN coll
                              /\ coll'[j] \in {coll[j], coll[j + 1]}
  BY <1>1, ShiftedByOne
<1>4. CASE phase = "page"
  <2>1. ASSUME NEW j \in DOMAIN coll', j < page
        PROVE  page > 1 /\ coll'[j] \in Passed \cup {coll[page]}
    <3>1. DOMAIN coll = 1..Len(coll) /\ Len(coll) \in Nat
      OBVIOUS
    <3>2. /\ j \in DOMAIN coll /\ j + 1 \in DOMAIN coll
          /\ coll'[j] \in {coll[j], coll[j + 1]}
      BY <1>3
    <3>3. page > 1 /\ (j + 1 < page \/ j + 1 = page)
      BY <2>1, <3>1, <3>2
    <3>4. \A k \in DOMAIN coll : k < page => coll[k] \in Passed
      BY <1>4 DEF Passed
    <3>5. coll[j] \in Passed
      BY <2>1, <3>2, <3>4
    <3>6. coll[j + 1] \in Passed \cup {coll[page]}
      BY <3>2, <3>3, <3>4
    <3> QED
      BY <3>2, <3>3, <3>5, <3>6
  <2>2. \A x \in Passed' : \E j \in DOMAIN coll' : j < page /\ x = coll'[j]
    BY <1>4 DEF Passed
  <2>3. Passed' \subseteq Passed \cup {coll[page]}
    <3>1. ASSUME NEW x \in Passed' PROVE x \in Passed \cup {coll[page]}
      BY <2>1, <2>2
    <3> QED
      BY <3>1
  <2>4. ~ Walked => Passed' = {}
    BY <1>4, <2>1, <2>2
  <2> QED
    BY <1>4, <2>3, <2>4
<1>5. CASE phase # "page"
  BY <1>2, <1>5 DEF Passed
<1> QED
  BY <1>4, <1>5

\* Whose files are purged, or were to be, stays known.
LEMMA PurgesGrow ==
  ASSUME outbox \cup purged \cup lost \subseteq outbox' \cup purged' \cup lost',
         Passed' \cup dropped' \subseteq Passed \cup dropped \cup outbox' \cup purged' \cup lost'
  PROVE  Missed' \subseteq Missed
  BY DEF Missed

\* A step of the handler misses nothing: a page it reads it has purged, what is
\* dropped it has passed, and a new walk is to have again what an earlier one lost.
LEMMA HandlerMissesNothing ==
  ASSUME CInv, HandlerStep \/ HandlerThrows
  PROVE  Missed' \subseteq Missed /\ races' = races
<1> USE DEF CInv, Types
<1> DEFINE Known == outbox' \cup purged' \cup lost'
<1>1. ASSUME ReadPage PROVE Missed' \subseteq Missed
  <2>1. /\ phase = "page" /\ page \in DOMAIN coll /\ page' = page + 1 /\ coll' = coll
        /\ phase' = IF page < Len(coll) THEN "page" ELSE "drop"
        /\ outbox' = outbox \cup {coll[page]}
        /\ UNCHANGED <<purged, lost, dropped>>
    <3>1. page \in 1..Len(coll)
      BY <1>1 DEF ReadPage
    <3> QED
      BY <1>1, <3>1 DEF ReadPage
  <2>2. ASSUME NEW j \in DOMAIN coll, j <= page PROVE coll[j] \in Passed \cup {coll[page]}
    <3>1. j < page \/ j = page
      BY <2>2
    <3> QED
      BY <2>1, <2>2, <3>1 DEF Passed
  <2>3. Passed' \subseteq Passed \cup {coll[page]}
    <3>1. ASSUME NEW x \in Passed' PROVE \E j \in DOMAIN coll : j <= page /\ x = coll[j]
      <4>1. CASE phase' = "page"
        BY <2>1, <3>1, <4>1 DEF Passed
      <4>2. CASE phase' = "drop"
        <5>1. page = Len(coll) /\ \A j \in DOMAIN coll : j <= page
          BY <2>1, <4>2
        <5> QED
          BY <2>1, <3>1, <4>2, <5>1 DEF Passed, Elements
      <4> QED
        BY <2>1, <4>1, <4>2
    <3> QED
      BY <2>2, <3>1
  <2> QED
    BY <2>1, <2>3, PurgesGrow
<1>2. ASSUME DropCollection PROVE Missed' \subseteq Missed
  BY <1>2 DEF DropCollection, purges, Missed, Passed
<1>3. ASSUME Start PROVE Missed' \subseteq Missed
  <2>1. Passed' = {}
    <3>1. \A j \in DOMAIN coll : ~ j < 1
      OBVIOUS
    <3> QED
      BY <1>3, <3>1 DEF Start, Passed
  <2>2. dropped \cap Elements(coll) = {}
    BY DEF WalkInOrder
  <2>3. lost' = lost \ Elements(coll) /\ UNCHANGED <<outbox, purged, dropped>>
    BY <1>3 DEF Start
  <2> QED
    BY <2>1, <2>2, <2>3 DEF Missed
<1>4. ASSUME NoSuchPage \/ DeleteDocument PROVE Missed' \subseteq Missed
  BY <1>4 DEF NoSuchPage, DeleteDocument, purges, Missed, Passed
<1>5. ASSUME HandlerThrows PROVE Missed' \subseteq Missed
  <2>1. Passed' = {} /\ UNCHANGED purges
    BY <1>5 DEF HandlerThrows, Passed
  <2>2. dropped' \subseteq dropped \cup Passed
    BY <1>5 DEF HandlerThrows, Passed
  <2> QED
    BY <2>1, <2>2 DEF purges, Missed
<1> QED
  BY <1>1, <1>2, <1>3, <1>4, <1>5 DEF HandlerStep, HandlerThrows, Start, ReadPage, NoSuchPage,
     DropCollection, DeleteDocument

MissesAtMostOne ==
  \/ Missed' \subseteq Missed /\ races' = races
  \/ (\E x : Missed' \subseteq Missed \cup {x}) /\ races' = races + 1

\* Only an HTTP request that is counted as a race has the walk miss one more.
LEMMA StepMissesOne ==
  ASSUME CInv, [ChatsNext]_chatsVars
  PROVE  MissesAtMostOne
<1> DEFINE Nothing == Missed' \subseteq Missed /\ races' = races
<1>0. Nothing => MissesAtMostOne
  BY DEF MissesAtMostOne
<1>1. CASE Creating \/ UNCHANGED chatsVars
  <2>1. UNCHANGED allButFaults
    BY <1>1, CreatingKeeps DEF chatsVars, vars, counters, allButFaults
  <2> QED
    BY <1>0, <2>1 DEF allButFaults, handler, purges, Missed, Passed, Elements
<1>2. CASE Restart
  BY <1>0, <1>2, PurgesGrow DEF Restart, Crash, Passed
<1>3. CASE Deleting
  <2>1. ASSUME NEW m \in Messages, AddMessage(m) PROVE MissesAtMostOne
    <3>1. UNCHANGED <<purges, dropped>>
      BY <2>1 DEF AddMessage
    <3> QED
      BY <2>1, <3>1, AddedShifts DEF purges, Missed, MissesAtMostOne
  <2>2. ASSUME NEW m \in Messages, DeleteMessage(m) PROVE MissesAtMostOne
    <3>1. UNCHANGED <<purges, dropped>>
      BY <2>2 DEF DeleteMessage
    <3>2. CASE ~ Walked
      BY <2>2, <3>1, <3>2, DeletedShifts DEF purges, Missed, MissesAtMostOne
    <3>3. CASE Walked
      <4>1. PICK x : Passed' \subseteq Passed \cup {x}
        BY <2>2, <3>3, DeletedShifts
      <4>2. races' = races + 1
        BY <2>2, <3>3, DeletedShifts
      <4>3. Missed' \subseteq Missed \cup {x}
        BY <3>1, <4>1 DEF purges, Missed
      <4> QED
        BY <4>2, <4>3 DEF MissesAtMostOne
    <3> QED
      BY <3>2, <3>3
  <2>3. ASSUME NEW m \in Messages, PublishPurge(m) \/ PurgeFails(m) PROVE Nothing
    BY <2>3 DEF PublishPurge, PurgeFails, handler, Missed, Passed
  <2>4. ASSUME DeleteChatById \/ Publish \/ PublishFaultily \/ Commit \/ Rebalance PROVE Nothing
    BY <2>4 DEF DeleteChatById, Publish, PublishFaultily, Commit, Rebalance, handler, purges,
       Missed, Passed
  <2>5. \/ \E m \in Messages : AddMessage(m) \/ DeleteMessage(m) \/ PublishPurge(m) \/ PurgeFails(m)
        \/ DeleteChatById \/ Publish \/ PublishFaultily \/ Commit \/ Rebalance
        \/ HandlerStep \/ HandlerThrows
    BY <1>3 DEF Deleting, KafkaStep
  <2>6. CASE HandlerStep \/ HandlerThrows
    BY <1>0, <2>6, HandlerMissesNothing
  <2> HIDE DEF Nothing
  <2> QED
    BY <1>0, <2>1, <2>2, <2>3, <2>4, <2>5, <2>6
<1> QED
  BY <1>1, <1>2, <1>3 DEF ChatsNext

LEMMA InitMissed == ChatsInit => MissedAreRaces
<1> SUFFICES ASSUME ChatsInit PROVE MissedAreRaces
  OBVIOUS
<1>1. Missed = {} /\ races = 0
  BY DEF ChatsInit, Init, Missed, Passed
<1> QED
  BY <1>1, FS_EmptySet DEF MissedAreRaces

LEMMA StepMissed == CInv /\ Counted /\ MissedAreRaces /\ [ChatsNext]_chatsVars => MissedAreRaces'
<1> SUFFICES ASSUME CInv, Counted, MissedAreRaces, [ChatsNext]_chatsVars PROVE MissedAreRaces'
  OBVIOUS
<1>1. IsFiniteSet(Missed) /\ races \in Nat
  <2>1. Missed \subseteq Messages /\ races \in Nat
    BY DEF CInv, Types, WalkInOrder, Counted, Histories, Missed, Passed, Elements
  <2> QED
    BY <2>1, ChatDeletionAssumption, FS_Subset
<1>2. CASE Missed' \subseteq Missed /\ races' = races
  BY <1>1, <1>2, NoMore DEF MissedAreRaces
<1>3. CASE (\E x : Missed' \subseteq Missed \cup {x}) /\ races' = races + 1
  <2>1. PICK x : Missed' \subseteq Missed \cup {x}
    BY <1>3
  <2>2. /\ Cardinality(Missed') <= Cardinality(Missed) + 1
        /\ Cardinality(Missed') \in Nat /\ Cardinality(Missed) \in Nat
    BY <1>1, <2>1, OneMore
  <2>3. MissedAreRaces' <=> Cardinality(Missed') <= races'
    BY DEF MissedAreRaces
  <2> QED
    BY <1>1, <1>3, <2>2, <2>3 DEF MissedAreRaces
<1> QED
  BY <1>2, <1>3, StepMissesOne DEF MissesAtMostOne

\* What is dropped with nobody to purge its files was missed.
LEMMA MissedLeak == CInv /\ Counted /\ MissedAreRaces => LeaksHaveCauses
<1> SUFFICES ASSUME CInv, Counted, MissedAreRaces PROVE LeaksHaveCauses
  OBVIOUS
<1>1. Missed \subseteq Messages /\ Leaked \ lost \subseteq Missed /\ races \in Nat
  BY DEF CInv, Types, WalkInOrder, Counted, Histories, Missed, Passed, Elements, Leaked
<1>2. IsFiniteSet(Missed)
  BY <1>1, ChatDeletionAssumption, FS_Subset
<1> QED
  BY <1>1, <1>2, NoMore DEF MissedAreRaces, LeaksHaveCauses

-----------------------------------------------------------------------------
(* The theorems *)

\* The inductive invariant holds in every reachable state.
THEOREM ChatsInvariant == ChatsSpec => []CInv
<1> QED
  BY InitCInv, StepCInv, PTL DEF ChatsSpec

\* Only calls of createChat that overlap make a second chat of the same users.
THEOREM TwinsComeOfOverlap == ChatsSpec => []TwinsNeedOverlap
<1>1. CInv => TwinsNeedOverlap
  BY DEF CInv
<1> QED
  BY <1>1, ChatsInvariant, PTL

\* Only messages written after the drop of the collection outlive the chat.
THEOREM OrphansComeLate == ChatsSpec => []OrphansCameLate
<1>1. CInv => OrphansCameLate
  BY DEF CInv
<1> QED
  BY <1>1, ChatsInvariant, PTL

\* A message is purged and still there only while a record is left to go on.
THEOREM PurgesStayPending == ChatsSpec => []PurgesArePending
<1>1. CInv => PurgesArePending
  BY DEF CInv
<1> QED
  BY <1>1, ChatsInvariant, PTL

\* There are not more records, messages or chats than there were requests for them.
THEOREM ChatsTypeCorrect == ChatsSpec => []ChatsTypeOK
<1> QED
  BY InitCounted, StepCounted, CountedTypes, ChatsInvariant, PTL DEF ChatsSpec

\* The drop of the collection leaves behind the files of at most as many messages as
\* there were HTTP requests while the handler walked it, besides those whose purge
\* the walk before the drop emitted in vain.
THEOREM LeaksAreCaused == ChatsSpec => []LeaksHaveCauses
<1> QED
  BY InitCounted, StepCounted, InitMissed, StepMissed, MissedLeak, ChatsInvariant, PTL
     DEF ChatsSpec
=============================================================================
