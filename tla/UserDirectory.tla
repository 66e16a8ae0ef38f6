---------------------------- MODULE UserDirectory ----------------------------
(***************************************************************************)
(* Users of the Java API: the login of AuthController, the create, read,   *)
(* update and suspend of UserController with their use cases, and          *)
(* UserRepositoryAdapter with its cache, in the default profile: one JVM,  *)
(* spring.cache.type "simple", a map of references without expiry.         *)
(*                                                                         *)
(* A request runs on its own thread.  A use case is one transaction, at    *)
(* READ COMMITTED; its write reaches the table when it commits, after      *)
(* save() has returned and evicted the cache entry.  What findById returns *)
(* on a hit is the cached object itself, which requests change in place.   *)
(* UPDATE writes every column, and no version column guards it.            *)
(***************************************************************************)
EXTENDS Naturals, FiniteSets

CONSTANTS
    User,       \* user ids (random UUIDs: an id is never drawn twice)
    Email,      \* e-mail addresses; a login name stands for its @dev.local one
    Nick,       \* nicknames
    Task,       \* requests being served at the same time
    Object,     \* addresses of User objects that are still referenced
    None,       \* no user, no object, nothing cached
    Ops         \* the operations the workload uses

ASSUME NoneAssumption == None \notin User \cup Object
ASSUME NickAssumption == Nick # {}

VARIABLES
    users,      \* rows of table users
    cache,      \* cache[u]: the object cached for user u
    heap,       \* heap[o]: the fields of object o that requests change
    task,       \* task[t]: the request t is serving, and how far it is
    tokens,     \* tokens[e]: subjects of the tokens issued for e's login name
    suspended   \* users whose suspension has been answered with 204

vars == <<users, cache, heap, task, tokens, suspended>>

Status == {"ACTIVE", "SUSPENDED"}
Profile == [nickname : Nick, status : Status]
UserRow == [id : User, email : Email, profile : Profile]

ANick == CHOOSE n \in Nick : TRUE
NewProfile(n) == [nickname |-> n, status |-> "ACTIVE"]

\* entity is the detached entity that save() merges; hit: findById was
\* answered by the cache, so the merge has to SELECT the row first.
TaskState ==
    [op : {"none", "login", "create", "get", "update", "suspend"},
     pc : {"idle", "lookup", "exists", "insert", "find", "select", "store",
           "change", "save", "evict", "commit"},
     user : User \cup {None}, email : Email \cup {None}, nickname : Nick,
     object : Object \cup {None}, hit : BOOLEAN, entity : Profile]

TypeOK ==
    /\ users \subseteq UserRow
    /\ cache \in [User -> Object \cup {None}]
    /\ heap \in [Object -> Profile]
    /\ task \in [Task -> TaskState]
    /\ tokens \in [Email -> SUBSET User]
    /\ suspended \subseteq User

AtRest ==
    [op |-> "none", pc |-> "idle", user |-> None, email |-> None, nickname |-> ANick,
     object |-> None, hit |-> FALSE, entity |-> NewProfile(ANick)]

Init ==
    /\ users = {}
    /\ cache = [u \in User |-> None]
    /\ heap = [o \in Object |-> NewProfile(ANick)]
    /\ task = [t \in Task |-> AtRest]
    /\ tokens = [e \in Email |-> {}]
    /\ suspended = {}

-----------------------------------------------------------------------------
(* Helpers *)

At(t, pc) == task[t].pc = pc
Ids == {r.id : r \in users}
EmailTaken(e) == \E r \in users : r.email = e

Move(t, pc) == task' = [task EXCEPT ![t].pc = pc]
End(t) == task' = [task EXCEPT ![t] = AtRest]

\* What follows findById.
Found(t) == IF task[t].op \in {"update", "suspend"} THEN "change" ELSE "idle"

\* The request goes on with object o in its hands, or answers with it.
Holding(t, o, hit) ==
    IF Found(t) = "idle" THEN AtRest
    ELSE [task[t] EXCEPT !.pc = "change", !.object = o, !.hit = hit]

Referenced(o) ==
    (\E u \in User : cache[u] = o) \/ (\E t \in Task : task[t].object = o)

-----------------------------------------------------------------------------
(* Requests arrive *)

Login(t, e) ==
    /\ At(t, "idle") /\ "login" \in Ops
    /\ task' = [task EXCEPT ![t] =
                  [AtRest EXCEPT !.op = "login", !.pc = "lookup", !.email = e]]
    /\ UNCHANGED <<users, cache, heap, tokens, suspended>>

Create(t, e, n) ==
    /\ At(t, "idle") /\ "create" \in Ops
    /\ task' = [task EXCEPT ![t] = [AtRest EXCEPT !.op = "create", !.pc = "exists",
                                                  !.email = e, !.nickname = n]]
    /\ UNCHANGED <<users, cache, heap, tokens, suspended>>

\* GET /{id} and /me, PUT /{id}, DELETE /{id}, of a user that is there: no
\* row is ever deleted.
OnUser(t, op, u, n) ==
    /\ At(t, "idle") /\ op \in Ops /\ u \in Ids
    /\ task' = [task EXCEPT ![t] = [AtRest EXCEPT !.op = op, !.pc = "find",
                                                  !.user = u, !.nickname = n]]
    /\ UNCHANGED <<users, cache, heap, tokens, suspended>>

-----------------------------------------------------------------------------
(* resolveOrProvision and CreateUserUseCase *)

\* findByEmail does not go through the cache.
LookupEmail(t) ==
    /\ At(t, "lookup")
    /\ IF EmailTaken(task[t].email)
       THEN /\ \E r \in users :
                 /\ r.email = task[t].email
                 /\ tokens' = [tokens EXCEPT ![r.email] = @ \cup {r.id}]
            /\ End(t)
       ELSE Move(t, "exists") /\ UNCHANGED tokens
    /\ UNCHANGED <<users, cache, heap, suspended>>

\* Slip: the new user is saved without an id.
ExistsByEmailNoId(t) ==
    /\ At(t, "exists")
    /\ IF EmailTaken(task[t].email) THEN End(t) ELSE Move(t, "insert")
    /\ UNCHANGED <<users, cache, heap, tokens, suspended>>

\* existsByEmail, DuplicateEmailException; save() draws the id and evicts it.
ExistsByEmail(t) ==
    /\ At(t, "exists")
    /\ IF EmailTaken(task[t].email)
       THEN End(t) /\ UNCHANGED cache
       ELSE \E u \in User \ Ids :
              /\ \A s \in Task : task[s].user # u
              /\ task' = [task EXCEPT ![t] =
                            [@ EXCEPT !.pc = "insert", !.user = u]]
              /\ cache' = [cache EXCEPT ![u] = None]
    /\ UNCHANGED <<users, heap, tokens, suspended>>

\* What a committed INSERT is answered with: a token, or the new user, which
\* the controller reads back.
Created(t) ==
    IF task[t].op = "login"
    THEN /\ tokens' = [tokens EXCEPT ![task[t].email] = @ \cup {task[t].user}]
         /\ End(t)
    ELSE Move(t, "find") /\ UNCHANGED tokens

NewRow(t) == [id |-> task[t].user, email |-> task[t].email,
              profile |-> NewProfile(task[t].nickname)]

\* Slips: no constraint uk_users_email; a failed commit is not noticed.
InsertCommitUnconstrained(t) ==
    /\ At(t, "insert")
    /\ users' = users \cup {NewRow(t)} /\ Created(t)
    /\ UNCHANGED <<cache, heap, suspended>>
InsertCommitUnnoticed(t) ==
    /\ At(t, "insert")
    /\ users' = IF EmailTaken(task[t].email) THEN users ELSE users \cup {NewRow(t)}
    /\ Created(t)
    /\ UNCHANGED <<cache, heap, suspended>>

\* The INSERT is flushed at commit.  uk_users_email, or a lost connection,
\* fails the request.
InsertCommit(t) ==
    /\ At(t, "insert")
    /\ \/ /\ ~EmailTaken(task[t].email)
          /\ users' = users \cup {NewRow(t)}
          /\ Created(t)
       \/ End(t) /\ UNCHANGED <<users, tokens>>
    /\ UNCHANGED <<cache, heap, suspended>>

-----------------------------------------------------------------------------
(* findById *)

Find(t) ==
    /\ At(t, "find")
    /\ LET o == cache[task[t].user]
       IN  IF o = None THEN Move(t, "select")
           ELSE task' = [task EXCEPT ![t] = Holding(t, o, TRUE)]
    /\ UNCHANGED <<users, cache, heap, tokens, suspended>>

\* The row is read into a new object; or the query raises.
Select(t) ==
    /\ At(t, "select")
    /\ \/ \E r \in users, o \in Object :
            /\ r.id = task[t].user /\ ~Referenced(o)
            /\ heap' = [heap EXCEPT ![o] = r.profile]
            /\ task' = [task EXCEPT ![t] = [@ EXCEPT !.pc = "store", !.object = o]]
       \/ End(t) /\ UNCHANGED heap
    /\ UNCHANGED <<users, cache, tokens, suspended>>

\* @Cacheable puts what findById returned.
Store(t) ==
    /\ At(t, "store")
    /\ cache' = [cache EXCEPT ![task[t].user] = task[t].object]
    /\ task' = [task EXCEPT ![t] = Holding(t, task[t].object, FALSE)]
    /\ UNCHANGED <<users, heap, tokens, suspended>>

-----------------------------------------------------------------------------
(* UpdateUserUseCase and SuspendUserUseCase *)

\* updateProfile() and suspend() change the object, which others may hold.
Change(t) ==
    /\ At(t, "change")
    /\ heap' = IF task[t].op = "suspend"
               THEN [heap EXCEPT ![task[t].object].status = "SUSPENDED"]
               ELSE [heap EXCEPT ![task[t].object].nickname = task[t].nickname]
    /\ Move(t, "save")
    /\ UNCHANGED <<users, cache, tokens, suspended>>

\* mapper.toEntity
Save(t) ==
    /\ At(t, "save")
    /\ task' = [task EXCEPT ![t] = [@ EXCEPT !.pc = "evict", !.object = None,
                                             !.entity = heap[task[t].object]]]
    /\ UNCHANGED <<users, cache, heap, tokens, suspended>>

\* jpa.save merges, and the entry is evicted when it has returned; not if
\* the SELECT of the merge raises.
Evict(t) ==
    /\ At(t, "evict")
    /\ \/ cache' = [cache EXCEPT ![task[t].user] = None] /\ Move(t, "commit")
       \/ task[t].hit /\ End(t) /\ UNCHANGED cache
    /\ UNCHANGED <<users, heap, tokens, suspended>>

\* UPDATE users SET every column; or the commit fails.
UpdateCommit(t) ==
    /\ At(t, "commit")
    /\ \/ /\ users' = {IF r.id = task[t].user
                       THEN [r EXCEPT !.profile = task[t].entity] ELSE r : r \in users}
          /\ suspended' = IF task[t].op = "suspend"
                          THEN suspended \cup {task[t].user} ELSE suspended
       \/ UNCHANGED <<users, suspended>>
    /\ End(t)
    /\ UNCHANGED <<cache, heap, tokens>>

\* The JVM stops and is started again: requests and cache are gone.
Restart ==
    /\ cache' = [u \in User |-> None]
    /\ task' = [t \in Task |-> AtRest]
    /\ UNCHANGED <<users, heap, tokens, suspended>>

-----------------------------------------------------------------------------
Arrive(t) ==
    \/ \E e \in Email : Login(t, e) \/ \E n \in Nick : Create(t, e, n)
    \/ \E u \in User : \/ OnUser(t, "get", u, ANick) \/ OnUser(t, "suspend", u, ANick)
                       \/ \E n \in Nick : OnUser(t, "update", u, n)

Serve(t) ==
    \/ LookupEmail(t) \/ ExistsByEmail(t) \/ InsertCommit(t)
    \/ Find(t) \/ Select(t) \/ Store(t)
    \/ Change(t) \/ Save(t) \/ Evict(t) \/ UpdateCommit(t)

Next == Restart \/ \E t \in Task : Arrive(t) \/ Serve(t)

Spec == Init /\ [][Next]_vars

-----------------------------------------------------------------------------
(* Properties *)

\* However many logins of one name and registrations overlap, an e-mail names
\* one user and an id one row.
EmailUnique ==
    \A r, q \in users : (r.email = q.email \/ r.id = q.id) => r = q

\* AuthController.java:89, "auto-provision one so the JWT subject is always a
\* real persisted UUID": every token ever issued for a login name has the
\* same subject, the persisted user of that name, also after failed commits,
\* lost races and restarts.
TokenSubjectPersisted ==
    \A e \in Email : \A u \in tokens[e] :
        \E r \in users : r.id = u /\ \A s \in tokens[e] : s = r.id /\ r.email = e

\* UserController.java:134, "User suspended.": a user whose suspension has
\* been confirmed stays suspended, since no endpoint activates one.
SuspensionSticks ==
    \A r \in users : r.id \in suspended => r.profile.status = "SUSPENDED"
=============================================================================
