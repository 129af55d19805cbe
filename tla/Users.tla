------------------------------- MODULE Users -------------------------------
(***************************************************************************)
(* Users and sports, read through a cache whose entries do not expire.     *)
(* UserService.getUserByID and SportService.getSports look in the cache,   *)
(* then in MongoDB, and fill the cache; the writes delete the entry and    *)
(* then write.  Registrations and updates look for their names before they *)
(* write, and unique indexes guard user names and emails, each on their    *)
(* own.  HTTP calls interleave at every await.                             *)
(***************************************************************************)
EXTENDS Naturals, FiniteSets

CONSTANTS Users,      \* bound: identities of users
          Names,      \* bound: user names, each also fit for an email
          Sports,     \* bound: names of sports
          HttpCalls,  \* bound: calls at a time
          AllSports,  \* the key of the list of sports
          Absent,     \* a field a body does not have, a cache without entry
          MaxBegun    \* bound: calls and restarts of the process, in all

ASSUME UsersAssumption == AllSports \notin Users /\ Absent \notin Names /\ MaxBegun \in Nat

VARIABLES
  users,      \* the users there are: their user name and email
  sports,     \* the sports there are
  cache,      \* the entry of each key
  call,       \* per call: the step it awaits, and what it has in hand
  begun,      \* number of calls and restarts so far
  overlapped, \* history: keys read and written, or written twice, at a time
  crossed     \* history: did two calls that set names overlap, or one trust a
              \* copy whose names were out of date

vars == <<users, sports, cache, call, begun, overlapped, crossed>>

Keys == Users \cup {AllSports}
User == [username : Names, email : Names]
Body == [username : Names \cup {Absent}, email : Names \cup {Absent}]
\* Bounds: an update changes the user name or the email; who registers uses a
\* user name other than the email.
Changes == {b \in Body : Cardinality({f \in DOMAIN b : b[f] # Absent}) = 1}
Registrations == {b \in User : b.email # b.username}
NoBody == [username |-> Absent, email |-> Absent]
Idle == [at |-> "idle", kind |-> "none", key |-> AllSports, body |-> NoBody, copy |-> Absent]

TypeOK ==
  /\ DOMAIN users \subseteq Users /\ \A u \in DOMAIN users : users[u] \in User
  /\ sports \subseteq Sports
  /\ DOMAIN cache = Keys
  /\ \A u \in Users : cache[u] \in User \cup {Absent}
  /\ \A c \in HttpCalls :
       /\ call[c].at \in {"idle", "find", "set", "email", "username", "del", "write"}
       /\ call[c].kind \in {"none", "get", "register", "update", "delete", "sport"}
       /\ call[c].key \in Keys /\ call[c].body \in Body
  /\ begun \in 0..MaxBegun
  /\ overlapped \subseteq Keys /\ crossed \in BOOLEAN

NamesOf(u) == {users[u].username, users[u].email}

\* Users registered one after the other.
Init ==
  /\ \E known \in SUBSET Users : users \in [known -> Registrations]
  /\ \A u, v \in DOMAIN users : u # v => NamesOf(u) \cap NamesOf(v) = {}
  /\ sports \in SUBSET Sports
  /\ cache = [k \in Keys |-> Absent]
  /\ call = [c \in HttpCalls |-> Idle]
  /\ begun = 0
  /\ overlapped = {} /\ crossed = FALSE

-----------------------------------------------------------------------------
(* Calls *)

Begin(c, kind, step, k, body, copy) ==
  /\ call[c] = Idle
  /\ begun < MaxBegun /\ begun' = begun + 1
  /\ call' = [call EXCEPT ![c] =
                 [at |-> step, kind |-> kind, key |-> k, body |-> body, copy |-> copy]]
  /\ UNCHANGED <<users, sports, cache>>

GoOn(c, step) == call' = [call EXCEPT ![c].at = step]
Return(c) == call' = [call EXCEPT ![c] = Idle]

\* A registration asks whether its email and user name exist; an update asks only
\* about what differs from the user getUserByID gave it.
Asks(k, field) ==
  k.body[field] # Absent /\ (k.kind = "update" => k.body[field] # k.copy[field])

AfterEmail(k) == IF Asks(k, "username") THEN "username"
                 ELSE IF k.kind = "update" THEN "del" ELSE "write"
AfterCopy(k) == IF Asks(k, "email") THEN "email" ELSE AfterEmail(k)

\* getUserByID has its user: updateUser goes on with it.
Got(c) == IF call[c].kind = "update" THEN GoOn(c, AfterCopy(call[c])) ELSE Return(c)

\* A variant that looks for emails alone.
Taken_byEmail(n) == \E u \in DOMAIN users : users[u].email = n

\* findUser: a user by that email or by that user name.
Taken(n) == \E u \in DOMAIN users : n \in NamesOf(u)

\* The unique indexes of MongoDB.
Duplicate(u, new) ==
  \E v \in DOMAIN users \ {u} : users[v].username = new.username \/ users[v].email = new.email

\* What MongoDB has for a key: the user, or the list of sports.
Stored(k) == IF k = AllSports THEN sports
             ELSE IF k \in DOMAIN users THEN users[k] ELSE Absent

-----------------------------------------------------------------------------
(* getUserByID and getSports *)

\* Both look in the cache at once; with an entry, getting is all there is to it.
GetUser(c, u) == cache[u] = Absent /\ Begin(c, "get", "find", u, NoBody, Absent)
GetSports(c) == cache[AllSports] = Absent /\ Begin(c, "get", "find", AllSports, NoBody, Absent)

Find(c) ==
  /\ call[c].at = "find"
  /\ IF Stored(call[c].key) = Absent THEN Return(c)
     ELSE call' = [call EXCEPT ![c].at = "set", ![c].copy = Stored(call[c].key)]
  /\ UNCHANGED <<users, sports, cache, begun>>

SetToCache(c) ==
  /\ call[c].at = "set"
  /\ cache' = [cache EXCEPT ![call[c].key] = call[c].copy]
  /\ Got(c)
  /\ UNCHANGED <<users, sports, begun>>

-----------------------------------------------------------------------------
(* registerUser, updateUser and deleteUser; the writes of SportService *)

RegisterUser(c, u, body) ==
  /\ u \notin DOMAIN users
  /\ \A d \in HttpCalls : call[d].key # u
  /\ Begin(c, "register", "email", u, body, Absent)

\* getUserByID comes first.
UpdateUser(c, u, body) ==
  IF cache[u] = Absent THEN Begin(c, "update", "find", u, body, Absent)
  ELSE Begin(c, "update", AfterCopy([kind |-> "update", body |-> body, copy |-> cache[u]]),
             u, body, cache[u])

\* After the login.
DeleteUser(c, u) == Begin(c, "delete", "del", u, NoBody, Absent)

ChangeSport(c) == Begin(c, "sport", "del", AllSports, NoBody, Absent)

EmailExist(c) ==
  /\ call[c].at = "email"
  /\ IF Taken(call[c].body.email) THEN Return(c) ELSE GoOn(c, AfterEmail(call[c]))
  /\ UNCHANGED <<users, sports, cache, begun>>

UserNameExist(c) ==
  /\ call[c].at = "username"
  /\ IF Taken(call[c].body.username) THEN Return(c)
     ELSE GoOn(c, IF call[c].kind = "update" THEN "del" ELSE "write")
  /\ UNCHANGED <<users, sports, cache, begun>>

\* A variant that leaves the entry of the cache where it is.
DeleteFromCache_keeps(c) ==
  /\ call[c].at = "del"
  /\ GoOn(c, "write")
  /\ UNCHANGED <<users, sports, cache, begun>>

DeleteFromCache(c) ==
  /\ call[c].at = "del"
  /\ cache' = [cache EXCEPT ![call[c].key] = Absent]
  /\ GoOn(c, "write")
  /\ UNCHANGED <<users, sports, begun>>

Create(c) ==
  /\ call[c].at = "write" /\ call[c].kind = "register"
  /\ LET u == call[c].key IN
       IF Duplicate(u, call[c].body) THEN UNCHANGED users
       ELSE users' = [v \in DOMAIN users \cup {u} |-> IF v = u THEN call[c].body ELSE users[v]]
  /\ Return(c)
  /\ UNCHANGED <<sports, cache, begun>>

\* A variant that replaces the user by the body.
FindByIdAndUpdate_replaces(c) ==
  /\ call[c].at = "write" /\ call[c].kind = "update"
  /\ users' = IF call[c].key \in DOMAIN users THEN [users EXCEPT ![call[c].key] = call[c].body]
              ELSE users
  /\ Return(c)
  /\ UNCHANGED <<sports, cache, begun>>

FindByIdAndUpdate(c) ==
  /\ call[c].at = "write" /\ call[c].kind = "update"
  /\ LET u == call[c].key
         body == call[c].body
     IN  IF u \notin DOMAIN users THEN UNCHANGED users
         ELSE LET new == [f \in DOMAIN body |-> IF body[f] = Absent THEN users[u][f] ELSE body[f]]
              IN  users' = IF Duplicate(u, new) THEN users ELSE [users EXCEPT ![u] = new]
  /\ Return(c)
  /\ UNCHANGED <<sports, cache, begun>>

FindOneAndDelete(c) ==
  /\ call[c].at = "write" /\ call[c].kind = "delete"
  /\ users' = [v \in DOMAIN users \ {call[c].key} |-> users[v]]
  /\ Return(c)
  /\ UNCHANGED <<sports, cache, begun>>

\* create, findByIdAndUpdate and findByIdAndDelete of SportService; the names of
\* sports are unique, and a duplicate or a missing sport changes nothing.
WriteSport(c, before, after) ==
  /\ call[c].at = "write" /\ call[c].kind = "sport"
  /\ before \subseteq sports /\ after \cap (sports \ before) = {}
  /\ sports' = (sports \ before) \cup after
  /\ Return(c)
  /\ UNCHANGED <<users, cache, begun>>

-----------------------------------------------------------------------------
(* The process *)

\* A step throws, or its answer does not come.
Throws(c) ==
  /\ call[c] # Idle
  /\ Return(c)
  /\ UNCHANGED <<users, sports, cache, begun>>

\* The cache may be kept elsewhere or be lost with the process.
Restart ==
  /\ begun < MaxBegun /\ begun' = begun + 1
  /\ call' = [c \in HttpCalls |-> Idle]
  /\ cache' \in {cache, [k \in Keys |-> Absent]}
  /\ UNCHANGED <<users, sports>>

-----------------------------------------------------------------------------
Writes(k) == k.kind \in {"register", "update", "delete", "sport"}
Naming(k) == k.kind \in {"register", "update"}

\* Does an update get a copy that has it skip a check the database would not?
Misled(c) ==
  LET k == call'[c] IN
    /\ k.kind = "update" /\ k.copy # Absent /\ call[c].copy = Absent
    /\ \E field \in {"email", "username"} :
         /\ k.body[field] # Absent /\ ~ Asks(k, field)
         /\ k.key \in DOMAIN users => users[k.key][field] # k.body[field]

Noting ==
  /\ overlapped' = overlapped \cup
       {k \in Keys : \E c, d \in HttpCalls : /\ c # d /\ call'[c] # Idle /\ call'[d] # Idle
                                             /\ call'[c].key = k /\ call'[d].key = k
                                             /\ Writes(call'[c])}
  /\ crossed' = (\/ crossed
                 \/ \E c, d \in HttpCalls : c # d /\ Naming(call'[c]) /\ Naming(call'[d])
                 \/ \E c \in HttpCalls : Misled(c))

\* The sport that is replaced or deleted, the sport that comes.
AtMostOne == {{}} \cup {{s} : s \in Sports}

Step(c) ==
  \/ Find(c) \/ SetToCache(c)
  \/ EmailExist(c) \/ UserNameExist(c) \/ DeleteFromCache(c)
  \/ Create(c) \/ FindByIdAndUpdate(c) \/ FindOneAndDelete(c)
  \/ \E before, after \in AtMostOne : WriteSport(c, before, after)
  \/ Throws(c)

Request(c) ==
  \/ \E u \in Users : \/ GetUser(c, u) \/ DeleteUser(c, u)
                      \/ \E body \in Registrations : RegisterUser(c, u, body)
                      \/ \E body \in Changes : UpdateUser(c, u, body)
  \/ GetSports(c) \/ ChangeSport(c)

Next ==
  \/ \E c \in HttpCalls : Step(c) /\ Noting
  \/ \E c \in HttpCalls : Request(c) /\ Noting
  \/ Restart /\ Noting

Spec == Init /\ [][Next]_vars

-----------------------------------------------------------------------------
(* Properties *)

\* What the cache has, of a user but for what is populated, is what MongoDB has,
\* as long as no two calls for the same key overlapped of which one writes, and
\* whatever failed or restarted.
StaleNeedsOverlap ==
  \A k \in Keys \ overlapped : cache[k] # Absent => cache[k] = Stored(k)

\* A name, be it a user name or an email, is that of one user, so that a login
\* finds the user it means, unless calls that set names overlapped or an update
\* left out a check because of a stale copy.
NamesAreUnique ==
  crossed \/ \A u, v \in DOMAIN users : u # v => NamesOf(u) \cap NamesOf(v) = {}
=============================================================================
