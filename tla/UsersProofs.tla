----------------------------- MODULE UsersProofs -----------------------------
(***************************************************************************)
(* Proofs about the cache of users and sports, for any number of users,    *)
(* names, sports, calls at a time and restarts: an entry of the cache is   *)
(* out of date only after an overlap, and a name is that of one user       *)
(* unless calls that set names overlap or one goes by a stale copy.        *)
(***************************************************************************)
EXTENDS Users, TLAPS

-----------------------------------------------------------------------------
(* The inductive invariant *)

Values == User \cup (SUBSET Sports) \cup {Absent}
AtSteps == {"idle", "find", "set", "email", "username", "del", "write"}
AnyCall == [at : AtSteps,
            kind : {"none", "get", "register", "update", "delete", "sport"},
            key : Keys, body : Body, copy : Values]

Types ==
  /\ DOMAIN users \subseteq Users /\ \A u \in DOMAIN users : users[u] \in User
  /\ sports \subseteq Sports
  /\ cache \in [Keys -> Values] /\ \A u \in Users : cache[u] \in User \cup {Absent}
  /\ call \in [HttpCalls -> AnyCall]
  /\ begun \in 0..MaxBegun
  /\ overlapped \subseteq Keys /\ crossed \in BOOLEAN

\* Which kind of call is at which step, and what it is about.
InOrder(k) ==
  /\ k.at = "idle" <=> k = Idle
  /\ k.at # "idle" => k.kind # "none"
  /\ k.at \in {"find", "set"} => k.kind \in {"get", "update"}
  /\ k.at \in {"email", "username"} => k.kind \in {"register", "update"}
  /\ k.at = "del" => k.kind \in {"update", "delete", "sport"}
  /\ k.at = "write" => Writes(k)
  /\ k.kind \in {"register", "update", "delete"} => k.key \in Users
  /\ k.kind = "sport" => k.key = AllSports
  /\ k.key \in Users => k.copy \in User \cup {Absent}
  /\ k.kind = "register" => k.body \in User

CallsInOrder == \A c \in HttpCalls : InOrder(call[c])

\* Calls for the same key are noted if one of them writes.
OverlapsNoted ==
  \A c, d \in HttpCalls :
    /\ c # d /\ call[c] # Idle /\ call[d] # Idle
    /\ call[c].key = call[d].key /\ Writes(call[c])
    => call[c].key \in overlapped

\* What a call is about to put into the cache is what MongoDB has.
CopiesInOrder ==
  \A c \in HttpCalls : call[c].at = "set" /\ call[c].key \notin overlapped
                         => call[c].copy = Stored(call[c].key)

\* There is no entry when MongoDB is written.
WritesInOrder ==
  \A c \in HttpCalls :
    /\ call[c].at = "write" /\ call[c].key \notin overlapped
    /\ call[c].kind # "register"
    => cache[call[c].key] = Absent

\* Who registers is not there yet.
RegistrationsInOrder ==
  \A c \in HttpCalls : call[c].kind = "register" /\ call[c].key \notin overlapped
                         => call[c].key \notin DOMAIN users

UInv == /\ Types /\ CallsInOrder /\ OverlapsNoted
        /\ CopiesInOrder /\ WritesInOrder /\ RegistrationsInOrder
        /\ StaleNeedsOverlap

\* A call that is over is well typed and in order.
LEMMA IdleInOrder == Idle \in AnyCall /\ InOrder(Idle) /\ Idle.at = "idle" /\ Idle.kind = "none"
  BY UsersAssumption DEF Idle, AnyCall, AtSteps, Keys, NoBody, Body, Values, InOrder, Writes

\* The initial state satisfies the invariant.
LEMMA InitUInv == Init => UInv
<1> SUFFICES ASSUME Init PROVE UInv
  OBVIOUS
<1> USE DEF Init
<1>1. \A c \in HttpCalls : call[c] = Idle
  OBVIOUS
<1>2. Registrations \subseteq User
  BY DEF Registrations
<1>3. Types
  <2>1. DOMAIN users \subseteq Users /\ \A u \in DOMAIN users : users[u] \in User
    BY <1>2
  <2>2. cache \in [Keys -> Values] /\ \A u \in Users : cache[u] \in User \cup {Absent}
    BY DEF Values, Keys
  <2>3. call \in [HttpCalls -> AnyCall] /\ begun \in 0..MaxBegun
    BY IdleInOrder, UsersAssumption
  <2> QED
    BY <2>1, <2>2, <2>3 DEF Types
<1>4. CallsInOrder /\ OverlapsNoted /\ CopiesInOrder /\ WritesInOrder /\ RegistrationsInOrder
  BY <1>1, IdleInOrder DEF CallsInOrder, OverlapsNoted, CopiesInOrder, WritesInOrder,
     RegistrationsInOrder
<1>5. StaleNeedsOverlap
  BY DEF StaleNeedsOverlap
<1> QED
  BY <1>3, <1>4, <1>5 DEF UInv

-----------------------------------------------------------------------------
(* What a step of a call does *)

Others(c) == /\ call' \in [HttpCalls -> AnyCall] /\ InOrder(call'[c])
             /\ \A d \in HttpCalls : d # c => call'[d] = call[d]

SameCall(c) == /\ call'[c].key = call[c].key /\ call'[c].kind = call[c].kind
               /\ call[c].kind # "none"

\* Nothing is read or written, as at the look for names.
Looks(c) ==
  /\ call'[c].at # "set"
  /\ call'[c].at = "write" => call'[c].kind = "register"
  /\ call'[c].kind = "register" => SameCall(c) \/ call'[c].key \notin DOMAIN users
  /\ UNCHANGED <<users, sports, cache>>

Reads(c) ==
  /\ call'[c].at = "set" /\ SameCall(c) /\ call'[c].copy = Stored(call[c].key)
  /\ call[c].kind # "register"
  /\ UNCHANGED <<users, sports, cache>>

Fills(c) ==
  /\ call[c].at = "set" /\ call'[c].at \notin {"set", "write"} /\ call'[c].kind # "register"
  /\ cache' = [cache EXCEPT ![call[c].key] = call[c].copy]
  /\ UNCHANGED <<users, sports>>

Clears(c) ==
  /\ call[c].at = "del" /\ call'[c].at = "write" /\ SameCall(c)
  /\ cache' = [cache EXCEPT ![call[c].key] = Absent]
  /\ UNCHANGED <<users, sports>>

WritesKey(c) ==
  /\ call[c].at = "write" /\ call'[c] = Idle
  /\ \A k \in Keys : k # call[c].key => Stored(k)' = Stored(k)
  /\ DOMAIN users' \subseteq DOMAIN users \cup {call[c].key}
  /\ UNCHANGED cache

Effect(c) == Others(c) /\ (Looks(c) \/ Reads(c) \/ Fills(c) \/ Clears(c) \/ WritesKey(c))

\* Overlaps are noted in every step.
LEMMA NotingStep ==
  ASSUME Noting, call' \in [HttpCalls -> AnyCall]
  PROVE  overlapped \subseteq overlapped' /\ OverlapsNoted'
<1>1. \A c \in HttpCalls : call'[c].key \in Keys
  BY DEF AnyCall
<1> QED
  BY <1>1 DEF Noting, OverlapsNoted, Writes

\* So what is in the cache remains true, and what is on its way to it.
LEMMA EffectStep ==
  ASSUME UInv, NEW c \in HttpCalls, Effect(c), Noting
  PROVE  /\ CallsInOrder' /\ OverlapsNoted' /\ CopiesInOrder' /\ WritesInOrder'
         /\ RegistrationsInOrder' /\ StaleNeedsOverlap'
<1>1. /\ \A d \in HttpCalls : d # c => call'[d] = call[d]
      /\ InOrder(call'[c]) /\ call' \in [HttpCalls -> AnyCall]
  BY DEF Effect, Others
<1>2. overlapped \subseteq overlapped' /\ OverlapsNoted'
  BY <1>1, NotingStep
<1>3. CallsInOrder'
  BY <1>1 DEF UInv, CallsInOrder, InOrder, Writes
<1>4. /\ cache \in [Keys -> Values] /\ \A d \in HttpCalls : call[d].key \in Keys
      /\ \A d \in HttpCalls : InOrder(call[d])
  BY DEF UInv, Types, AnyCall, CallsInOrder
<1> DEFINE Rest == CopiesInOrder' /\ WritesInOrder' /\ RegistrationsInOrder' /\ StaleNeedsOverlap'
<1> USE DEF UInv, CopiesInOrder, WritesInOrder, RegistrationsInOrder, StaleNeedsOverlap
<1>5. ASSUME Looks(c) PROVE Rest
  BY <1>1, <1>2, <1>5 DEF Looks, SameCall, Stored
<1>6. ASSUME Reads(c) PROVE Rest
  BY <1>1, <1>2, <1>6 DEF Reads, SameCall, Stored
<1>7. ASSUME Fills(c) PROVE Rest
  <2>1. \A k \in Keys : Stored(k)' = Stored(k)
    BY <1>7 DEF Fills, Stored
  <2>2. call[c] # Idle
    BY <1>7, IdleInOrder DEF Fills
  <2>3. \A d \in HttpCalls : d # c /\ call[d].at = "write" /\ call[d].key = call[c].key
                               => call[d].key \in overlapped
    BY <1>4, <2>2, IdleInOrder DEF OverlapsNoted, InOrder
  <2> QED
    BY <1>1, <1>2, <1>4, <1>7, <2>1, <2>3 DEF Fills
<1>8. ASSUME Clears(c) PROVE Rest
  <2>1. \A k \in Keys : Stored(k)' = Stored(k)
    BY <1>8 DEF Clears, Stored
  <2> QED
    BY <1>1, <1>2, <1>4, <1>8, <2>1 DEF Clears, SameCall
<1>9. ASSUME WritesKey(c) PROVE Rest
  <2>1. call[c] # Idle /\ Writes(call[c])
    BY <1>4, <1>9, IdleInOrder DEF WritesKey, InOrder
  <2>2. \A d \in HttpCalls : d # c /\ call[d] # Idle /\ call[d].key = call[c].key
                               => call[d].key \in overlapped
    BY <2>1 DEF OverlapsNoted
  <2>3. call[c].key \notin overlapped => cache[call[c].key] = Absent
    <3>1. CASE call[c].kind # "register"
      BY <1>9, <3>1 DEF WritesKey
    <3>2. CASE call[c].kind = "register"
      <4>1. call[c].key \in Users /\ call[c].key # AllSports
        BY <1>4, <3>2, UsersAssumption DEF InOrder
      <4> QED
        BY <1>4, <3>2, <4>1 DEF Stored
    <3> QED
      BY <3>1, <3>2
  <2> QED
    BY <1>1, <1>2, <1>4, <1>9, <2>2, <2>3, IdleInOrder DEF WritesKey
<1> QED
  BY <1>2, <1>3, <1>5, <1>6, <1>7, <1>8, <1>9 DEF Effect

-----------------------------------------------------------------------------
(* Every step of a call is of that kind, and keeps the types *)

\* The types but for those of the calls.
DataOK ==
  /\ DOMAIN users \subseteq Users /\ \A u \in DOMAIN users : users[u] \in User
  /\ sports \subseteq Sports
  /\ cache \in [Keys -> Values] /\ \A u \in Users : cache[u] \in User \cup {Absent}
  /\ begun \in 0..MaxBegun

\* A call that goes on.
LEMMA GoOnCall ==
  ASSUME UInv, NEW c \in HttpCalls, NEW step \in AtSteps \ {"idle"}, GoOn(c, step),
         call[c].at # "idle"
  PROVE  /\ call' \in [HttpCalls -> AnyCall] /\ \A d \in HttpCalls : d # c => call'[d] = call[d]
         /\ call'[c].at = step /\ SameCall(c) /\ call'[c] # Idle
         /\ call'[c].copy = call[c].copy /\ call'[c].body = call[c].body
  BY IdleInOrder DEF GoOn, UInv, Types, AnyCall, AtSteps, SameCall, CallsInOrder, InOrder

\* A call that returns.
LEMMA ReturnCall ==
  ASSUME UInv, NEW c \in HttpCalls, Return(c)
  PROVE  Others(c) /\ call'[c] = Idle
  BY IdleInOrder DEF Return, UInv, Types, Others

\* A call that begins.
LEMMA BeginCall ==
  ASSUME UInv, NEW c \in HttpCalls, NEW kind, NEW step, NEW k \in Keys, NEW body \in Body,
         NEW copy \in Values, Begin(c, kind, step, k, body, copy),
         \/ kind = "get" /\ step = "find"
         \/ kind = "register" /\ step = "email" /\ k \notin DOMAIN users
         \/ kind = "update" /\ step \in {"find", "email", "username", "del"}
         \/ kind = "delete" /\ step = "del"
         \/ kind = "sport" /\ step = "del",
         kind \in {"register", "update", "delete"} => k \in Users,
         kind = "sport" => k = AllSports,
         k \in Users => copy \in User \cup {Absent},
         kind = "register" => body \in User
  PROVE  Effect(c) /\ DataOK'
<1> DEFINE r == [at |-> step, kind |-> kind, key |-> k, body |-> body, copy |-> copy]
<1>1. r \in AnyCall /\ InOrder(r)
  <2>1. r \in AnyCall
    BY DEF AnyCall, AtSteps
  <2>2. r # Idle
    BY IdleInOrder
  <2> QED
    BY <2>1, <2>2 DEF InOrder, Writes
<1>2. call' = [call EXCEPT ![c] = r] /\ UNCHANGED <<users, sports, cache>>
      /\ begun < MaxBegun /\ begun' = begun + 1
  BY DEF Begin
<1>3. r.at = step /\ r.kind = kind /\ r.key = k
  OBVIOUS
<1> HIDE DEF r
<1>4. call'[c] = r /\ Others(c)
  BY <1>1, <1>2 DEF Others, UInv, Types
<1>5. Looks(c)
  BY <1>2, <1>3, <1>4 DEF Looks
<1>6. DataOK'
  BY <1>2, UsersAssumption DEF DataOK, UInv, Types
<1> QED
  BY <1>4, <1>5, <1>6 DEF Effect

\* The requests begin as they should.
LEMMA RequestStep ==
  ASSUME UInv, NEW c \in HttpCalls, Request(c)
  PROVE  Effect(c) /\ DataOK'
<1> USE DEF Keys, Values
<1>1. NoBody \in Body /\ Changes \subseteq Body /\ Registrations \subseteq Body \cap User
  BY DEF NoBody, Body, Changes, Registrations, User
<1>2. ASSUME NEW u \in Users, GetUser(c, u) PROVE Effect(c) /\ DataOK'
  BY <1>1, <1>2, BeginCall DEF GetUser
<1>3. CASE GetSports(c)
  BY <1>1, <1>3, BeginCall DEF GetSports
<1>4. ASSUME NEW u \in Users, DeleteUser(c, u) PROVE Effect(c) /\ DataOK'
  BY <1>1, <1>4, BeginCall DEF DeleteUser
<1>5. CASE ChangeSport(c)
  BY <1>1, <1>5, BeginCall DEF ChangeSport
<1>6. ASSUME NEW u \in Users, NEW body \in Registrations, RegisterUser(c, u, body)
      PROVE  Effect(c) /\ DataOK'
  BY <1>1, <1>6, BeginCall DEF RegisterUser
<1>7. ASSUME NEW u \in Users, NEW body \in Changes, UpdateUser(c, u, body)
      PROVE  Effect(c) /\ DataOK'
  <2>1. CASE cache[u] = Absent
    BY <1>1, <1>7, <2>1, BeginCall DEF UpdateUser
  <2>2. CASE cache[u] # Absent
    <3> DEFINE step == AfterCopy([kind |-> "update", body |-> body, copy |-> cache[u]])
    <3>1. step \in {"email", "username", "del"}
      BY DEF AfterCopy, AfterEmail
    <3>2. Begin(c, "update", step, u, body, cache[u]) /\ cache[u] \in Values
          /\ cache[u] \in User \cup {Absent}
      BY <1>7, <2>2 DEF UpdateUser, UInv, Types
    <3> HIDE DEF step
    <3> QED
      BY <1>1, <3>1, <3>2, BeginCall
  <2> QED
    BY <2>1, <2>2
<1> QED
  BY <1>2, <1>3, <1>4, <1>5, <1>6, <1>7 DEF Request

\* A call that goes on with the looks, or on to the cache.
LEMMA LookStep ==
  ASSUME UInv, NEW c \in HttpCalls, EmailExist(c) \/ UserNameExist(c) \/ Throws(c)
  PROVE  Effect(c) /\ DataOK'
<1>1. DataOK' /\ UNCHANGED <<users, sports, cache>>
  BY DEF EmailExist, UserNameExist, Throws, DataOK, UInv, Types
<1>2. CASE Return(c)
  BY <1>1, <1>2, ReturnCall, IdleInOrder DEF Effect, Looks
<1>3. ASSUME NEW step \in {"username", "del", "write"}, GoOn(c, step),
             call[c].at \in {"email", "username"},
             IF call[c].kind = "update" THEN step # "write" ELSE step # "del"
      PROVE  Effect(c) /\ DataOK'
  <2>1. InOrder(call[c])
    BY DEF UInv, CallsInOrder
  <2>2. /\ call' \in [HttpCalls -> AnyCall] /\ \A d \in HttpCalls : d # c => call'[d] = call[d]
        /\ call'[c].at = step /\ SameCall(c) /\ call'[c] # Idle
        /\ call'[c].copy = call[c].copy /\ call'[c].body = call[c].body
    BY <1>3, GoOnCall DEF AtSteps
  <2>3. call[c].kind \in {"register", "update"}
    BY <1>3, <2>1 DEF InOrder
  <2>4. Others(c)
    BY <1>3, <2>1, <2>2, <2>3 DEF Others, InOrder, SameCall, Writes
  <2> QED
    BY <1>1, <1>3, <2>2, <2>3, <2>4 DEF Effect, Looks, SameCall
<1>4. ASSUME EmailExist(c), ~ Return(c) PROVE Effect(c) /\ DataOK'
  <2>1. call[c].kind \in {"register", "update"} /\ call[c].at = "email"
    BY <1>4 DEF EmailExist, UInv, CallsInOrder, InOrder
  <2>2. AfterEmail(call[c]) \in {"username", "del", "write"} /\ GoOn(c, AfterEmail(call[c]))
        /\ IF call[c].kind = "update" THEN AfterEmail(call[c]) # "write"
           ELSE AfterEmail(call[c]) # "del"
    BY <1>4 DEF EmailExist, AfterEmail
  <2> QED
    BY <1>3, <2>1, <2>2
<1>5. ASSUME UserNameExist(c), ~ Return(c) PROVE Effect(c) /\ DataOK'
  <2> DEFINE step == IF call[c].kind = "update" THEN "del" ELSE "write"
  <2>1. step \in {"username", "del", "write"} /\ GoOn(c, step) /\ call[c].at = "username"
        /\ IF call[c].kind = "update" THEN step # "write" ELSE step # "del"
    BY <1>5 DEF UserNameExist
  <2> HIDE DEF step
  <2> QED
    BY <1>3, <2>1
<1> QED
  BY <1>2, <1>4, <1>5 DEF Throws

\* A call that reads, fills or clears the cache.
LEMMA CacheStep ==
  ASSUME UInv, NEW c \in HttpCalls, Find(c) \/ SetToCache(c) \/ DeleteFromCache(c)
  PROVE  Effect(c) /\ DataOK'
<1>1. InOrder(call[c]) /\ call[c] \in AnyCall /\ call \in [HttpCalls -> AnyCall]
  BY DEF UInv, CallsInOrder, Types
<1>2. CASE Find(c)
  <2>1. DataOK' /\ UNCHANGED <<users, sports, cache>> /\ call[c].at = "find"
    BY <1>2 DEF Find, DataOK, UInv, Types
  <2>2. CASE Return(c)
    BY <2>1, <2>2, ReturnCall, IdleInOrder DEF Effect, Looks
  <2>3. CASE call' = [call EXCEPT ![c].at = "set", ![c].copy = Stored(call[c].key)]
    <3>1. Stored(call[c].key) \in Values
      BY <1>1 DEF Stored, Values, UInv, Types, AnyCall
    <3>2. /\ call' \in [HttpCalls -> AnyCall] /\ \A d \in HttpCalls : d # c => call'[d] = call[d]
          /\ call'[c].at = "set" /\ call'[c].key = call[c].key /\ call'[c].kind = call[c].kind
          /\ call'[c].copy = Stored(call[c].key)
      BY <1>1, <2>3, <3>1 DEF AnyCall, AtSteps
    <3>3. /\ call[c].kind \in {"get", "update"}
          /\ call[c].key \in Users => Stored(call[c].key) \in User \cup {Absent}
      BY <1>1, <2>1, UsersAssumption DEF InOrder, Stored, UInv, Types
    <3>4. Others(c)
      BY <1>1, <3>2, <3>3, IdleInOrder DEF Others, InOrder, Writes
    <3> QED
      BY <2>1, <3>2, <3>3, <3>4 DEF Effect, Reads, SameCall
  <2> QED
    BY <1>2, <2>2, <2>3 DEF Find
<1>3. CASE SetToCache(c)
  <2>1. /\ call[c].at = "set" /\ Got(c) /\ UNCHANGED <<users, sports, begun>>
        /\ cache' = [cache EXCEPT ![call[c].key] = call[c].copy]
    BY <1>3 DEF SetToCache
  <2>2. DataOK'
    <3>1. cache' \in [Keys -> Values] /\ \A u \in Users : cache'[u] \in User \cup {Absent}
      BY <1>1, <2>1 DEF UInv, Types, AnyCall, InOrder
    <3> QED
      BY <2>1, <3>1 DEF DataOK, UInv, Types
  <2>3. CASE Return(c)
    BY <2>1, <2>2, <2>3, ReturnCall, IdleInOrder DEF Effect, Fills
  <2>4. CASE call[c].kind = "update" /\ GoOn(c, AfterCopy(call[c]))
    <3>1. AfterCopy(call[c]) \in {"email", "username", "del"}
      BY <2>4 DEF AfterCopy, AfterEmail
    <3>2. /\ call' \in [HttpCalls -> AnyCall] /\ \A d \in HttpCalls : d # c => call'[d] = call[d]
          /\ call'[c].at = AfterCopy(call[c]) /\ SameCall(c) /\ call'[c] # Idle
          /\ call'[c].copy = call[c].copy /\ call'[c].body = call[c].body
      BY <2>1, <2>4, <3>1, GoOnCall DEF AtSteps
    <3>3. Others(c)
      BY <1>1, <2>4, <3>1, <3>2 DEF Others, InOrder, SameCall
    <3> QED
      BY <2>1, <2>2, <2>4, <3>1, <3>2, <3>3 DEF Effect, Fills, SameCall
  <2> QED
    BY <2>1, <2>3, <2>4 DEF Got
<1>4. CASE DeleteFromCache(c)
  <2>1. /\ call[c].at = "del" /\ GoOn(c, "write") /\ UNCHANGED <<users, sports, begun>>
        /\ cache' = [cache EXCEPT ![call[c].key] = Absent]
    BY <1>4 DEF DeleteFromCache
  <2>2. /\ call' \in [HttpCalls -> AnyCall] /\ \A d \in HttpCalls : d # c => call'[d] = call[d]
        /\ call'[c].at = "write" /\ SameCall(c) /\ call'[c] # Idle
        /\ call'[c].copy = call[c].copy /\ call'[c].body = call[c].body
    BY <2>1, GoOnCall DEF AtSteps
  <2>3. Others(c)
    BY <1>1, <2>1, <2>2 DEF Others, InOrder, SameCall, Writes
  <2>4. DataOK'
    BY <1>1, <2>1 DEF DataOK, UInv, Types, AnyCall, Values
  <2> QED
    BY <2>1, <2>2, <2>3, <2>4 DEF Effect, Clears
<1> QED
  BY <1>2, <1>3, <1>4

\* A call that writes to MongoDB changes what is there for its key only.
LEMMA WriteStep ==
  ASSUME UInv, NEW c \in HttpCalls,
         \/ Create(c) \/ FindByIdAndUpdate(c) \/ FindOneAndDelete(c)
         \/ \E before, after \in AtMostOne : WriteSport(c, before, after)
  PROVE  Effect(c) /\ DataOK'
<1>1. /\ call[c].at = "write" /\ Return(c) /\ UNCHANGED <<cache, begun>>
  BY DEF Create, FindByIdAndUpdate, FindOneAndDelete, WriteSport
<1>2. Others(c) /\ call'[c] = Idle
  BY <1>1, ReturnCall
<1>3. /\ call[c].body \in Body
      /\ call[c].kind \in {"register", "update", "delete"} => call[c].key \in Users
      /\ call[c].kind = "sport" => call[c].key = AllSports
  BY DEF UInv, CallsInOrder, InOrder, Types, AnyCall
<1> DEFINE Written == /\ DOMAIN users' \subseteq Users
                      /\ \A u \in DOMAIN users' : users'[u] \in User
                      /\ sports' \subseteq Sports
                      /\ DOMAIN users' \subseteq DOMAIN users \cup {call[c].key}
                      /\ \A k \in Keys : k # call[c].key => Stored(k)' = Stored(k)
<1>4. ASSUME Create(c) PROVE Written
  <2> DEFINE u == call[c].key
  <2>1. u \in Users /\ u # AllSports /\ UNCHANGED sports
    BY <1>3, <1>4, UsersAssumption DEF Create
  <2>2. CASE users' = users
    BY <2>1, <2>2 DEF UInv, Types, Stored
  <2>3. CASE ~ Duplicate(u, call[c].body)
    <3>1. users' = [v \in DOMAIN users \cup {u} |-> IF v = u THEN call[c].body ELSE users[v]]
      BY <1>4, <2>3 DEF Create
    <3>2. call[c].body \in User
      BY <1>4 DEF Create, UInv, CallsInOrder, InOrder
    <3> QED
      BY <2>1, <3>1, <3>2 DEF UInv, Types, Stored
  <2> QED
    BY <1>4, <2>2, <2>3 DEF Create
<1>5. ASSUME FindByIdAndUpdate(c) PROVE Written
  <2> DEFINE u == call[c].key
             body == call[c].body
             new == [f \in DOMAIN body |-> IF body[f] = Absent THEN users[u][f] ELSE body[f]]
  <2>1. u \in Users /\ u # AllSports /\ UNCHANGED sports
    BY <1>3, <1>5, UsersAssumption DEF FindByIdAndUpdate
  <2>2. u \in DOMAIN users => new \in User
    <3>1. DOMAIN body = {"username", "email"}
          /\ \A f \in {"username", "email"} : body[f] \in Names \cup {Absent}
      BY <1>3 DEF Body
    <3>2. u \in DOMAIN users => \A f \in {"username", "email"} : users[u][f] \in Names
      BY DEF UInv, Types, User
    <3> QED
      BY <3>1, <3>2 DEF User
  <2>3. users' = users \/ (u \in DOMAIN users /\ users' = [users EXCEPT ![u] = new])
    BY <1>5 DEF FindByIdAndUpdate
  <2> HIDE DEF new
  <2> QED
    BY <2>1, <2>2, <2>3 DEF UInv, Types, Stored
<1>6. ASSUME FindOneAndDelete(c) PROVE Written
  <2>1. call[c].key \in Users /\ call[c].key # AllSports /\ UNCHANGED sports
        /\ users' = [v \in DOMAIN users \ {call[c].key} |-> users[v]]
    BY <1>3, <1>6, UsersAssumption DEF FindOneAndDelete
  <2> QED
    BY <2>1 DEF UInv, Types, Stored
<1>7. ASSUME NEW before \in AtMostOne, NEW after \in AtMostOne, WriteSport(c, before, after)
      PROVE  Written
  <2>1. call[c].key = AllSports /\ UNCHANGED users /\ sports' = (sports \ before) \cup after
    BY <1>3, <1>7 DEF WriteSport
  <2>2. after \subseteq Sports
    BY DEF AtMostOne
  <2> QED
    BY <2>1, <2>2 DEF UInv, Types, Stored
<1>8. Written
  BY <1>4, <1>5, <1>6, <1>7
<1>9. DataOK'
  BY <1>1, <1>8 DEF DataOK, UInv, Types
<1> QED
  BY <1>1, <1>2, <1>8, <1>9 DEF Effect, WritesKey

-----------------------------------------------------------------------------
(* The theorems *)

\* A restart ends every call and keeps the cache or clears it.
LEMMA RestartStep == UInv /\ Restart /\ Noting => UInv'
<1> SUFFICES ASSUME UInv, Restart, Noting PROVE UInv'
  OBVIOUS
<1>1. /\ \A c \in HttpCalls : call'[c] = Idle
      /\ call' \in [HttpCalls -> AnyCall] /\ UNCHANGED <<users, sports>>
      /\ begun' \in 0..MaxBegun
  BY IdleInOrder, UsersAssumption DEF Restart, UInv, Types
<1>2. /\ cache' \in [Keys -> Values] /\ \A u \in Users : cache'[u] \in User \cup {Absent}
      /\ \A k \in Keys : cache'[k] \in {cache[k], Absent}
  BY DEF Restart, UInv, Types, Keys, Values
<1>3. overlapped \subseteq overlapped' /\ OverlapsNoted'
  BY <1>1, NotingStep
<1>4. overlapped' \subseteq Keys /\ crossed' \in BOOLEAN
  BY DEF Noting, UInv, Types
<1>5. Types'
  BY <1>1, <1>2, <1>4 DEF UInv, Types
<1>6. CallsInOrder' /\ CopiesInOrder' /\ WritesInOrder' /\ RegistrationsInOrder'
  BY <1>1, IdleInOrder DEF CallsInOrder, CopiesInOrder, WritesInOrder, RegistrationsInOrder
<1>7. StaleNeedsOverlap'
  BY <1>1, <1>2, <1>3 DEF UInv, StaleNeedsOverlap, Stored
<1> QED
  BY <1>3, <1>5, <1>6, <1>7 DEF UInv

\* Every step keeps the invariant.
LEMMA StepUInv == UInv /\ [Next]_vars => UInv'
<1> SUFFICES ASSUME UInv, [Next]_vars PROVE UInv'
  OBVIOUS
<1>1. ASSUME NEW c \in HttpCalls, Step(c) \/ Request(c), Noting PROVE UInv'
  <2>1. Effect(c) /\ DataOK'
    BY <1>1, RequestStep, LookStep, CacheStep, WriteStep DEF Step
  <2>2. overlapped' \subseteq Keys /\ crossed' \in BOOLEAN
    BY <1>1 DEF Noting, UInv, Types
  <2>3. Types'
    BY <2>1, <2>2 DEF Effect, Others, DataOK, Types
  <2> QED
    BY <1>1, <2>1, <2>3, EffectStep DEF UInv
<1>2. CASE UNCHANGED vars
  BY <1>2 DEF vars, UInv, Types, CallsInOrder, OverlapsNoted, CopiesInOrder, WritesInOrder,
     RegistrationsInOrder, StaleNeedsOverlap, Stored
<1> QED
  BY <1>1, <1>2, RestartStep DEF Next

\* The inductive invariant holds in every reachable state.
THEOREM UsersInvariant == Spec => []UInv
<1> QED
  BY InitUInv, StepUInv, PTL DEF Spec

\* The calls of UserService and SportService keep the types.
THEOREM UsersTypeCorrect == Spec => []TypeOK
<1>1. UInv => TypeOK
  <2> SUFFICES ASSUME UInv PROVE TypeOK
    OBVIOUS
  <2>1. DOMAIN cache = Keys /\ \A c \in HttpCalls : call[c] \in AnyCall
    BY DEF UInv, Types
  <2> QED
    BY <2>1 DEF UInv, Types, AnyCall, AtSteps, TypeOK
<1> QED
  BY <1>1, UsersInvariant, PTL

\* An entry of the cache is out of date only if a write overlapped with another
\* call for the same key.
THEOREM StaleComesOfOverlap == Spec => []StaleNeedsOverlap
<1>1. UInv => StaleNeedsOverlap
  BY DEF UInv
<1> QED
  BY <1>1, UsersInvariant, PTL
-----------------------------------------------------------------------------
(* Names: the inductive invariant *)

Fields == {"email", "username"}

\* An update has its copy of the user once getUserByID has answered.
CopyHeld(k) ==
  k.kind = "update" => IF k.at = "find" THEN k.copy = Absent ELSE k.copy # Absent

\* What a call has asked about is not taken.
Settled(k, field) == Asks(k, field) => ~ Taken(k.body[field])

\* What an update does not ask about is the user's own.
Trusted(k) ==
  k.kind = "update" /\ k.at # "find" =>
    \A field \in Fields :
      k.body[field] # Absent /\ ~ Asks(k, field) /\ k.key \in DOMAIN users
        => users[k.key][field] = k.body[field]

Answered(k) ==
  Naming(k) =>
    /\ Trusted(k)
    /\ k.at \in {"username", "del", "write"} => Settled(k, "email")
    /\ k.at \in {"del", "write"} => Settled(k, "username")

CopiesHeld == \A c \in HttpCalls : CopyHeld(call[c])

\* As long as no calls overlap, the answers a call has got remain true until it
\* writes.
AnswersInOrder ==
  ~ crossed =>
    /\ \A c, d \in HttpCalls : Naming(call[c]) /\ Naming(call[d]) => c = d
    /\ \A c \in HttpCalls : Answered(call[c])

NInv == CopiesHeld /\ AnswersInOrder /\ NamesAreUnique

\* A call that is over holds and has asked nothing.
LEMMA IdleNames == Idle.kind = "none" /\ Idle.copy = Absent /\ CopyHeld(Idle) /\ ~ Naming(Idle)
  BY DEF Idle, CopyHeld, Naming

\* The initial state satisfies it.
LEMMA InitNInv == Init => NInv
<1> SUFFICES ASSUME Init PROVE NInv
  OBVIOUS
<1>1. \A c \in HttpCalls : call[c] = Idle
  BY DEF Init
<1>2. NamesAreUnique
  BY DEF Init, NamesAreUnique
<1> QED
  BY <1>1, <1>2, IdleNames DEF NInv, CopiesHeld, AnswersInOrder, Answered

-----------------------------------------------------------------------------
(* The steps of a call *)

\* Two calls that set names at a time are noted.
LEMMA NamingNoted ==
  ASSUME Noting, ~ crossed'
  PROVE  /\ ~ crossed
         /\ \A c, d \in HttpCalls : Naming(call'[c]) /\ Naming(call'[d]) => c = d
         /\ \A c \in HttpCalls : ~ Misled(c)
  BY DEF Noting

\* A step that leaves the users alone has to be shown for its own call only.
LEMMA OwnCall ==
  ASSUME NInv, Noting, NEW c \in HttpCalls, users' = users,
         \A d \in HttpCalls : d # c => call'[d] = call[d],
         CopyHeld(call[c])', ~ crossed' => Answered(call[c])'
  PROVE  NInv'
<1>1. CopiesHeld'
  BY DEF NInv, CopiesHeld, CopyHeld
<1>2. NamesAreUnique'
  <2>1. \A u \in DOMAIN users : NamesOf(u)' = NamesOf(u)
    BY DEF NamesOf
  <2> QED
    BY <2>1, NamingNoted DEF NInv, NamesAreUnique
<1>3. AnswersInOrder'
  <2> SUFFICES ASSUME ~ crossed', NEW d \in HttpCalls, d # c
               PROVE  Answered(call[d])'
    BY NamingNoted DEF AnswersInOrder, Naming
  <2>1. Answered(call[d]) /\ call'[d] = call[d]
    BY NamingNoted DEF NInv, AnswersInOrder
  <2> QED
    BY <2>1 DEF Answered, Naming, Trusted, Settled, Asks, Taken, NamesOf
<1> QED
  BY <1>1, <1>2, <1>3 DEF NInv

\* A call that returns is out of the way.
LEMMA Returns ==
  ASSUME UInv, NInv, Noting, NEW c \in HttpCalls, users' = users, Return(c)
  PROVE  NInv'
<1>1. call'[c] = Idle /\ \A d \in HttpCalls : d # c => call'[d] = call[d]
  BY ReturnCall DEF Others
<1>2. CopyHeld(call[c])' /\ Answered(call[c])'
  BY <1>1, IdleNames DEF CopyHeld, Answered, Naming
<1> QED
  BY <1>1, <1>2, OwnCall

\* A call that got its copy of the user now, and was not misled by it.
LEMMA CopyTrusted ==
  ASSUME NEW c \in HttpCalls, ~ Misled(c), call[c].copy = Absent, call'[c].copy # Absent,
         users' = users
  PROVE  Trusted(call[c])'
  BY DEF Misled, Trusted, Asks, Fields

\* A call that goes on with what it has.
LEMMA GoesOn ==
  ASSUME UInv, NInv, Noting, NEW c \in HttpCalls, NEW step \in AtSteps \ {"idle", "find"},
         GoOn(c, step), call[c].at \notin {"idle", "find"}, users' = users,
         Naming(call[c]) /\ step \in {"username", "del", "write"} => Settled(call[c], "email"),
         Naming(call[c]) /\ step \in {"del", "write"} => Settled(call[c], "username")
  PROVE  NInv'
<1>1. /\ \A d \in HttpCalls : d # c => call'[d] = call[d]
      /\ call'[c].at = step /\ call'[c].key = call[c].key /\ call'[c].kind = call[c].kind
      /\ call'[c].copy = call[c].copy /\ call'[c].body = call[c].body
  BY GoOnCall DEF SameCall
<1>2. CopyHeld(call[c])'
  BY <1>1 DEF NInv, CopiesHeld, CopyHeld
<1>3. ASSUME ~ crossed' PROVE Answered(call[c])'
  <2>1. Answered(call[c])
    BY <1>3, NamingNoted DEF NInv, AnswersInOrder
  <2> QED
    BY <1>1, <2>1 DEF Answered, Naming, Trusted, Settled, Asks, Taken, NamesOf
<1> QED
  BY <1>1, <1>2, <1>3, OwnCall

\* The steps that look or see to the cache.
LEMMA LookNames ==
  ASSUME UInv, NInv, Noting, NEW c \in HttpCalls,
         \/ Find(c) \/ SetToCache(c) \/ DeleteFromCache(c)
         \/ EmailExist(c) \/ UserNameExist(c) \/ Throws(c)
  PROVE  NInv'
<1>1. users' = users
  BY DEF Find, SetToCache, DeleteFromCache, EmailExist, UserNameExist, Throws
<1>2. /\ InOrder(call[c]) /\ CopyHeld(call[c]) /\ call \in [HttpCalls -> AnyCall]
      /\ call[c] \in AnyCall
  BY DEF UInv, CallsInOrder, Types, NInv, CopiesHeld
<1>3. CASE Return(c)
  BY <1>1, <1>3, Returns
<1>4. ASSUME Find(c), ~ Return(c) PROVE NInv'
  <2>1. /\ call[c].at = "find" /\ Stored(call[c].key) # Absent
        /\ call' = [call EXCEPT ![c].at = "set", ![c].copy = Stored(call[c].key)]
    BY <1>4 DEF Find
  <2>2. /\ \A d \in HttpCalls : d # c => call'[d] = call[d]
        /\ call'[c].at = "set" /\ call'[c].kind = call[c].kind
        /\ call'[c].copy = Stored(call[c].key)
    BY <1>2, <2>1 DEF AnyCall
  <2>3. CopyHeld(call[c])'
    BY <2>1, <2>2 DEF CopyHeld
  <2>4. ASSUME ~ crossed' PROVE Answered(call[c])'
    <3>1. call[c].kind = "update" => Trusted(call[c])'
      BY <1>1, <1>2, <2>1, <2>2, <2>4, NamingNoted, CopyTrusted DEF CopyHeld
    <3>2. call[c].kind # "update" => Trusted(call[c])'
      BY <2>2 DEF Trusted
    <3> QED
      BY <2>2, <3>1, <3>2 DEF Answered
  <2> QED
    BY <1>1, <2>2, <2>3, <2>4, OwnCall
<1>5. ASSUME SetToCache(c), ~ Return(c) PROVE NInv'
  <2>1. call[c].at = "set" /\ call[c].kind = "update" /\ GoOn(c, AfterCopy(call[c]))
    BY <1>5 DEF SetToCache, Got
  <2>2. /\ AfterCopy(call[c]) \in {"email", "username", "del"}
        /\ AfterCopy(call[c]) # "email" => Settled(call[c], "email")
        /\ AfterCopy(call[c]) = "del" => Settled(call[c], "username")
    BY <2>1 DEF AfterCopy, AfterEmail, Settled
  <2> QED
    BY <1>1, <2>1, <2>2, GoesOn DEF AtSteps
<1>6. CASE DeleteFromCache(c)
  <2>1. call[c].at = "del" /\ GoOn(c, "write")
    BY <1>6 DEF DeleteFromCache
  <2>2. CASE crossed' \/ ~ Naming(call[c])
    <3>1. /\ \A d \in HttpCalls : d # c => call'[d] = call[d]
          /\ call'[c].at = "write" /\ call'[c].kind = call[c].kind
          /\ call'[c].copy = call[c].copy
      BY <2>1, GoOnCall DEF AtSteps, SameCall
    <3> QED
      BY <1>1, <1>2, <2>1, <2>2, <3>1, OwnCall DEF CopyHeld, Answered, Naming
  <2>3. CASE ~ crossed' /\ Naming(call[c])
    <3>1. Settled(call[c], "email") /\ Settled(call[c], "username")
      BY <2>1, <2>3, NamingNoted DEF NInv, AnswersInOrder, Answered
    <3> QED
      BY <1>1, <2>1, <3>1, GoesOn DEF AtSteps
  <2> QED
    BY <2>2, <2>3
<1>7. ASSUME EmailExist(c), ~ Return(c) PROVE NInv'
  <2>1. /\ call[c].at = "email" /\ GoOn(c, AfterEmail(call[c]))
        /\ ~ Taken(call[c].body.email)
    BY <1>7 DEF EmailExist
  <2>2. /\ AfterEmail(call[c]) \in {"username", "del", "write"}
        /\ Settled(call[c], "email")
        /\ AfterEmail(call[c]) # "username" => Settled(call[c], "username")
    BY <2>1 DEF AfterEmail, Settled
  <2> QED
    BY <1>1, <2>1, <2>2, GoesOn DEF AtSteps
<1>8. ASSUME UserNameExist(c), ~ Return(c) PROVE NInv'
  <2> DEFINE step == IF call[c].kind = "update" THEN "del" ELSE "write"
  <2>1. call[c].at = "username" /\ GoOn(c, step) /\ step \in {"del", "write"}
        /\ Settled(call[c], "username")
    BY <1>8 DEF UserNameExist, Settled
  <2> HIDE DEF step
  <2>2. CASE crossed'
    <3>1. /\ \A d \in HttpCalls : d # c => call'[d] = call[d]
          /\ call'[c].at = step /\ call'[c].kind = call[c].kind
          /\ call'[c].copy = call[c].copy
      BY <2>1, GoOnCall DEF AtSteps, SameCall
    <3> QED
      BY <1>1, <1>2, <2>1, <2>2, <3>1, OwnCall DEF CopyHeld
  <2>3. CASE ~ crossed'
    <3>1. Naming(call[c]) => Settled(call[c], "email")
      BY <2>1, <2>3, NamingNoted DEF NInv, AnswersInOrder, Answered
    <3> QED
      BY <1>1, <2>1, <3>1, GoesOn DEF AtSteps
  <2> QED
    BY <2>2, <2>3
<1> QED
  BY <1>3, <1>4, <1>5, <1>6, <1>7, <1>8 DEF Throws

\* A call that begins.
LEMMA BeginNames ==
  ASSUME UInv, NInv, Noting, NEW c \in HttpCalls, NEW kind, NEW step, NEW k, NEW body, NEW copy,
         Begin(c, kind, step, k, body, copy),
         kind = "update" => IF step = "find" THEN copy = Absent ELSE copy # Absent,
         kind \in {"register", "update"} =>
           LET r == [at |-> step, kind |-> kind, key |-> k, body |-> body, copy |-> copy]
           IN  /\ step \in {"username", "del", "write"} => Settled(r, "email")
               /\ step \in {"del", "write"} => Settled(r, "username")
  PROVE  NInv'
<1> DEFINE r == [at |-> step, kind |-> kind, key |-> k, body |-> body, copy |-> copy]
<1>1. /\ call[c] = Idle /\ users' = users /\ call' = [call EXCEPT ![c] = r]
      /\ call \in [HttpCalls -> AnyCall]
  BY DEF Begin, UInv, Types
<1>2. /\ \A d \in HttpCalls : d # c => call'[d] = call[d]
      /\ call'[c] = r
  BY <1>1
<1>3. /\ r.at = step /\ r.kind = kind /\ r.copy = copy
      /\ kind \in {"register", "update"} =>
           /\ step \in {"username", "del", "write"} => Settled(r, "email")
           /\ step \in {"del", "write"} => Settled(r, "username")
  OBVIOUS
<1> HIDE DEF r
<1>4. CopyHeld(call[c])'
  BY <1>2, <1>3 DEF CopyHeld
<1>5. ASSUME ~ crossed' PROVE Answered(call[c])'
  <2>1. Trusted(call[c])'
    <3>1. CASE kind = "update" /\ step # "find"
      BY <1>1, <1>2, <1>3, <1>5, <3>1, NamingNoted, CopyTrusted, IdleNames
    <3>2. CASE ~ (kind = "update" /\ step # "find")
      BY <1>2, <1>3, <3>2 DEF Trusted
    <3> QED
      BY <3>1, <3>2
  <2>2. \A field \in Fields : Settled(r, field) => Settled(call[c], field)'
    BY <1>1, <1>2 DEF Settled, Asks, Taken, NamesOf
  <2> QED
    BY <1>2, <1>3, <2>1, <2>2 DEF Answered, Naming, Fields
<1> QED
  BY <1>1, <1>2, <1>4, <1>5, OwnCall

\* An update that has its copy from the cache has asked nothing yet.
LEMMA AskedNothing ==
  ASSUME NEW k, k.kind = "update", k.at = AfterCopy(k)
  PROVE  /\ k.at \in {"email", "username", "del"}
         /\ k.at # "email" => Settled(k, "email")
         /\ k.at = "del" => Settled(k, "username")
  BY DEF AfterCopy, AfterEmail, Settled

\* The requests.
LEMMA RequestNames ==
  ASSUME UInv, NInv, Noting, NEW c \in HttpCalls, Request(c)
  PROVE  NInv'
<1>1. ASSUME NEW u \in Users, GetUser(c, u) \/ DeleteUser(c, u) PROVE NInv'
  BY <1>1, BeginNames DEF GetUser, DeleteUser
<1>2. CASE GetSports(c) \/ ChangeSport(c)
  BY <1>2, BeginNames DEF GetSports, ChangeSport
<1>3. ASSUME NEW u \in Users, NEW body \in Registrations, RegisterUser(c, u, body) PROVE NInv'
  BY <1>3, BeginNames DEF RegisterUser
<1>4. ASSUME NEW u \in Users, NEW body \in Changes, UpdateUser(c, u, body) PROVE NInv'
  <2>1. CASE cache[u] = Absent
    <3>1. Begin(c, "update", "find", u, body, Absent)
      BY <1>4, <2>1 DEF UpdateUser
    <3> QED
      BY <3>1, BeginNames
  <2>2. CASE cache[u] # Absent
    <3> DEFINE step == AfterCopy([kind |-> "update", body |-> body, copy |-> cache[u]])
               r == [at |-> step, kind |-> "update", key |-> u, body |-> body, copy |-> cache[u]]
    <3>1. Begin(c, "update", step, u, body, cache[u])
      BY <1>4, <2>2 DEF UpdateUser
    <3>2. r.kind = "update" /\ r.at = AfterCopy(r) /\ r.at = step
      BY DEF AfterCopy, AfterEmail, Asks
    <3>3. /\ step \in {"email", "username", "del"}
          /\ step # "email" => Settled(r, "email")
          /\ step = "del" => Settled(r, "username")
      BY <3>2, AskedNothing
    <3> HIDE DEF step
    <3> QED
      BY <2>2, <3>1, <3>3, BeginNames
  <2> QED
    BY <2>1, <2>2
<1> QED
  BY <1>1, <1>2, <1>3, <1>4 DEF Request

-----------------------------------------------------------------------------
(* The writes *)

\* A write is over for the other calls: it is the only one to set names, or it
\* takes no name.
LEMMA WriteReturns ==
  ASSUME UInv, NInv, Noting, NEW c \in HttpCalls, Return(c),
         Naming(call[c]) \/ (/\ DOMAIN users' \subseteq DOMAIN users
                             /\ \A u \in DOMAIN users' : users'[u] = users[u]),
         ~ crossed' => NamesAreUnique'
  PROVE  NInv'
<1>1. call'[c] = Idle /\ \A d \in HttpCalls : d # c => call'[d] = call[d]
  BY ReturnCall DEF Others
<1>2. CopiesHeld'
  BY <1>1, IdleNames DEF NInv, CopiesHeld, CopyHeld
<1>3. NamesAreUnique'
  BY DEF NamesAreUnique
<1>4. ASSUME ~ crossed', NEW d \in HttpCalls PROVE Answered(call[d])'
  <2>1. CASE d = c
    BY <1>1, <2>1, IdleNames DEF Answered, Naming
  <2>2. ASSUME d # c, Naming(call[c]) PROVE Answered(call[d])'
    <3>1. ~ Naming(call[d])
      BY <1>4, <2>2, NamingNoted DEF NInv, AnswersInOrder
    <3> QED
      BY <1>1, <2>2, <3>1 DEF Answered, Naming
  <2>3. ASSUME d # c, DOMAIN users' \subseteq DOMAIN users,
               \A u \in DOMAIN users' : users'[u] = users[u]
        PROVE  Answered(call[d])'
    <3>1. Answered(call[d]) /\ call'[d] = call[d]
      BY <1>1, <1>4, <2>3, NamingNoted DEF NInv, AnswersInOrder
    <3>2. \A n : Taken(n)' => Taken(n)
      BY <2>3 DEF Taken, NamesOf
    <3>3. \A field : Settled(call[d], field) => Settled(call[d], field)'
      BY <3>1, <3>2 DEF Settled, Asks
    <3>4. Trusted(call[d]) => Trusted(call[d])'
      BY <2>3, <3>1 DEF Trusted, Asks
    <3> QED
      BY <3>1, <3>3, <3>4 DEF Answered, Naming
  <2> QED
    BY <2>1, <2>2, <2>3
<1>5. AnswersInOrder'
  BY <1>4, NamingNoted DEF AnswersInOrder, Naming
<1> QED
  BY <1>2, <1>3, <1>5 DEF NInv

\* Who registers takes names that were nobody's, an update too or keeps its own,
\* and a deletion takes none.
LEMMA WriteNames ==
  ASSUME UInv, NInv, Noting, NEW c \in HttpCalls,
         \/ Create(c) \/ FindByIdAndUpdate(c) \/ FindOneAndDelete(c)
         \/ \E before, after \in AtMostOne : WriteSport(c, before, after)
  PROVE  NInv'
<1>1. call[c].at = "write" /\ Return(c)
  BY DEF Create, FindByIdAndUpdate, FindOneAndDelete, WriteSport
<1>2. /\ call[c].body \in Body
      /\ call[c].kind = "register" => call[c].body \in User
      /\ \A u \in DOMAIN users : users[u] \in User
  BY DEF UInv, CallsInOrder, InOrder, Types, AnyCall
<1>3. ~ crossed' => NamesAreUnique /\ ~ crossed /\ Answered(call[c])
  BY NamingNoted DEF NInv, AnswersInOrder
<1>4. ASSUME Create(c), ~ crossed' PROVE NamesAreUnique'
  <2> DEFINE u == call[c].key
             body == call[c].body
  <2>1. call[c].kind = "register"
    BY <1>4 DEF Create
  <2>2. ~ Taken(body.email) /\ ~ Taken(body.username)
    <3>1. body.email # Absent /\ body.username # Absent
      BY <1>2, <2>1, UsersAssumption DEF User
    <3> QED
      BY <1>1, <1>3, <1>4, <2>1, <3>1 DEF Answered, Naming, Settled, Asks
  <2>3. CASE users' = users
    BY <1>3, <1>4, <2>3 DEF NamesAreUnique, NamesOf
  <2>4. CASE users' = [v \in DOMAIN users \cup {u} |-> IF v = u THEN body ELSE users[v]]
    <3>1. \A v \in DOMAIN users' : NamesOf(v)' = IF v = u THEN {body.username, body.email}
                                                 ELSE NamesOf(v)
      BY <2>4 DEF NamesOf
    <3>2. \A v \in DOMAIN users' : v # u => v \in DOMAIN users
      BY <2>4
    <3> QED
      BY <1>3, <1>4, <2>2, <3>1, <3>2 DEF NamesAreUnique, Taken
  <2> QED
    BY <1>4, <2>3, <2>4 DEF Create
<1>5. ASSUME FindByIdAndUpdate(c), ~ crossed' PROVE NamesAreUnique'
  <2> DEFINE u == call[c].key
             body == call[c].body
             new == [f \in DOMAIN body |-> IF body[f] = Absent THEN users[u][f] ELSE body[f]]
  <2>1. call[c].kind = "update"
    BY <1>5 DEF FindByIdAndUpdate
  <2>2. CASE users' = users
    BY <1>3, <1>5, <2>2 DEF NamesAreUnique, NamesOf
  <2>3. CASE u \in DOMAIN users /\ users' = [users EXCEPT ![u] = new]
    <3>1. DOMAIN body = Fields
      BY <1>2 DEF Body, Fields
    <3>2. \A f \in Fields : ~ Taken(new[f]) \/ new[f] = users[u][f]
      <4>1. Trusted(call[c]) /\ Settled(call[c], "email") /\ Settled(call[c], "username")
        BY <1>1, <1>3, <1>5, <2>1 DEF Answered, Naming
      <4>2. \A f \in Fields : Settled(call[c], f)
        BY <4>1 DEF Fields
      <4>3. \A f \in Fields : body[f] # Absent => ~ Taken(body[f]) \/ body[f] = users[u][f]
        BY <1>1, <2>1, <2>3, <4>1, <4>2 DEF Trusted, Settled
      <4> QED
        BY <3>1, <4>3
    <3> HIDE DEF new
    <3>3. \A v \in DOMAIN users' : NamesOf(v)' = IF v = u THEN {new.username, new.email}
                                                 ELSE NamesOf(v)
      BY <2>3 DEF NamesOf
    <3>4. \A v \in DOMAIN users \ {u} : NamesOf(v) \cap {new.username, new.email} = {}
      <4>1. \A v \in DOMAIN users \ {u} : NamesOf(v) \cap NamesOf(u) = {}
        BY <1>3, <1>5, <2>3 DEF NamesAreUnique
      <4>2. \A v \in DOMAIN users \ {u} : new.username \notin NamesOf(v)
        BY <2>3, <3>2, <4>1 DEF Fields, Taken, NamesOf
      <4>3. \A v \in DOMAIN users \ {u} : new.email \notin NamesOf(v)
        BY <2>3, <3>2, <4>1 DEF Fields, Taken, NamesOf
      <4> QED
        BY <4>2, <4>3
    <3> QED
      BY <1>3, <1>5, <2>3, <3>3, <3>4 DEF NamesAreUnique
  <2> QED
    BY <1>5, <2>2, <2>3 DEF FindByIdAndUpdate
<1>6. CASE Create(c) \/ FindByIdAndUpdate(c)
  <2>1. Naming(call[c])
    BY <1>6 DEF Create, FindByIdAndUpdate, Naming
  <2> QED
    BY <1>1, <1>4, <1>5, <1>6, <2>1, WriteReturns
<1>7. ASSUME DOMAIN users' \subseteq DOMAIN users, \A u \in DOMAIN users' : users'[u] = users[u]
      PROVE  NInv'
  <2>1. \A u \in DOMAIN users' : NamesOf(u)' = NamesOf(u)
    BY <1>7 DEF NamesOf
  <2> QED
    BY <1>1, <1>3, <1>7, <2>1, WriteReturns DEF NamesAreUnique
<1>8. FindOneAndDelete(c) => /\ DOMAIN users' \subseteq DOMAIN users
                             /\ \A u \in DOMAIN users' : users'[u] = users[u]
  BY DEF FindOneAndDelete
<1>9. (\E before, after \in AtMostOne : WriteSport(c, before, after)) => users' = users
  BY DEF WriteSport
<1> QED
  BY <1>6, <1>7, <1>8, <1>9

-----------------------------------------------------------------------------
(* Names: the theorem *)

\* Every step keeps the invariant.
LEMMA StepNInv == UInv /\ NInv /\ [Next]_vars => NInv'
<1> SUFFICES ASSUME UInv, NInv, [Next]_vars PROVE NInv'
  OBVIOUS
<1>1. ASSUME NEW c \in HttpCalls, Step(c), Noting PROVE NInv'
  BY <1>1, LookNames, WriteNames DEF Step
<1>2. ASSUME NEW c \in HttpCalls, Request(c), Noting PROVE NInv'
  BY <1>2, RequestNames
<1>3. CASE Restart /\ Noting
  <2>1. /\ \A c \in HttpCalls : call'[c] = Idle
        /\ users' = users
        /\ ~ crossed' => ~ crossed
    BY <1>3, NamingNoted DEF Restart
  <2>2. CopiesHeld' /\ AnswersInOrder'
    BY <2>1, IdleNames DEF CopiesHeld, AnswersInOrder, Answered, Naming
  <2>3. NamesAreUnique'
    BY <2>1 DEF NInv, NamesAreUnique, NamesOf
  <2> QED
    BY <2>2, <2>3 DEF NInv
<1>4. CASE UNCHANGED vars
  BY <1>4 DEF vars, NInv, CopiesHeld, CopyHeld, AnswersInOrder, Answered, Naming, Trusted, Settled,
     Asks, Taken, NamesAreUnique, NamesOf
<1> QED
  BY <1>1, <1>2, <1>3, <1>4 DEF Next

\* A user name or email is that of one user, unless calls that set names
\* overlapped or an update left out a check because of a stale copy.
THEOREM NamesBelongToOne == Spec => []NamesAreUnique
<1>1. NInv => NamesAreUnique
  BY DEF NInv
<1> QED
  BY <1>1, InitNInv, StepNInv, UsersInvariant, PTL DEF Spec
=============================================================================
