------------------------ MODULE UserDirectory_proofs ------------------------
(***************************************************************************)
(* Logins and registrations: an e-mail names one user, and the subject of  *)
(* every token is a persisted one, for any number of users and requests.   *)
(***************************************************************************)
EXTENDS UserDirectory, TLAPS

\* What a request holds where it stands.
Carries(s) ==
    /\ s.pc \in {"lookup", "exists", "insert"} => s.email \in Email
    /\ s.pc \in {"insert", "find", "select", "store", "change", "save",
                 "evict", "commit"} => s.user \in User
    /\ s.pc \in {"store", "change", "save"} => s.object \in Object

\* An id drawn for an INSERT is in no row and in no other INSERT.
IdsFresh ==
    \A t \in Task : At(t, "insert") =>
        /\ task[t].user \notin Ids
        /\ \A s \in Task \ {t} : At(s, "insert") => task[s].user # task[t].user

IInv ==
    /\ TypeOK
    /\ \A t \in Task : Carries(task[t])
    /\ IdsFresh
    /\ EmailUnique
    /\ TokenSubjectPersisted

LEMMA ANickType == ANick \in Nick
  BY NickAssumption DEF ANick

LEMMA AtRestType == AtRest \in TaskState /\ Carries(AtRest) /\ AtRest.pc = "idle"
  BY ANickType DEF AtRest, TaskState, Carries, NewProfile, Profile, Status

LEMMA InitInv == Init => IInv
<1> SUFFICES ASSUME Init PROVE IInv
  OBVIOUS
<1>1. TypeOK
  <2>1. task \in [Task -> TaskState]
    BY AtRestType DEF Init
  <2>2. heap \in [Object -> Profile]
    BY ANickType DEF Init, NewProfile, Profile, Status
  <2>3. users \subseteq UserRow /\ cache \in [User -> Object \cup {None}]
    BY DEF Init
  <2>4. tokens \in [Email -> SUBSET User] /\ suspended \subseteq User
    BY DEF Init
  <2> QED BY <2>1, <2>2, <2>3, <2>4 DEF TypeOK
<1>2. \A t \in Task : task[t] = AtRest
  BY DEF Init
<1>3. (\A t \in Task : Carries(task[t])) /\ IdsFresh
  BY <1>2, AtRestType DEF IdsFresh, At
<1>4. EmailUnique /\ TokenSubjectPersisted
  BY DEF Init, EmailUnique, TokenSubjectPersisted
<1> QED BY <1>1, <1>3, <1>4 DEF IInv

-----------------------------------------------------------------------------
(* Steps of a request that write no row and issue no token *)

LEMMA QuietStep ==
    ASSUME IInv, NEW t \in Task, NEW s \in TaskState, Carries(s),
           task' = [task EXCEPT ![t] = s],
           s.pc # "insert",
           UNCHANGED <<users, tokens>>,
           cache' \in [User -> Object \cup {None}], heap' \in [Object -> Profile],
           suspended' \subseteq User
    PROVE  IInv'
<1>1. task' \in [Task -> TaskState] /\ task'[t] = s
      /\ \A u \in Task \ {t} : task'[u] = task[u]
  BY DEF IInv, TypeOK
<1>2. TypeOK'
  BY <1>1 DEF IInv, TypeOK
<1>3. \A u \in Task : Carries(task'[u])
  BY <1>1 DEF IInv
<1>4. IdsFresh'
  BY <1>1 DEF IInv, IdsFresh, At, Ids
<1>5. EmailUnique' /\ TokenSubjectPersisted'
  BY DEF IInv, EmailUnique, TokenSubjectPersisted
<1>6. (\A u \in Task : Carries(task[u]))'
  BY <1>3 DEF Carries
<1> QED BY <1>2, <1>4, <1>5, <1>6 DEF IInv

LEMMA TaskType ==
    ASSUME IInv, NEW t \in Task
    PROVE  task[t] \in TaskState /\ Carries(task[t])
  BY DEF IInv, TypeOK

\* Moving on to another step, or ending.
LEMMA MoveType ==
    ASSUME IInv, NEW t \in Task,
           NEW pc \in {"lookup", "exists", "find", "select", "change", "save",
                       "evict", "commit"},
           pc \in {"lookup", "exists"} => task[t].email \in Email,
           pc \notin {"lookup", "exists"} => task[t].user \in User,
           pc \in {"change", "save"} => task[t].object \in Object,
           Move(t, pc)
    PROVE  \E s \in TaskState : /\ Carries(s) /\ s.pc # "insert"
                                /\ task' = [task EXCEPT ![t] = s]
<1> DEFINE s == [task[t] EXCEPT !.pc = pc]
<1>1. s \in TaskState
  BY TaskType DEF TaskState
<1>2. s.pc = pc /\ s.email = task[t].email /\ s.user = task[t].user
      /\ s.object = task[t].object
  BY TaskType DEF TaskState
<1>3. Carries(s)
  BY <1>2 DEF Carries
<1>4. task' = [task EXCEPT ![t] = s]
  BY DEF Move
<1> QED BY <1>1, <1>2, <1>3, <1>4

LEMMA EndType ==
    ASSUME IInv, NEW t \in Task, End(t)
    PROVE  \E s \in TaskState : /\ Carries(s) /\ s.pc # "insert"
                                /\ task' = [task EXCEPT ![t] = s]
  BY AtRestType DEF End

\* What findById leaves a request with.
LEMMA HoldingType ==
    ASSUME IInv, NEW t \in Task, NEW o \in Object, NEW hit \in BOOLEAN,
           task[t].user \in User,
           task' = [task EXCEPT ![t] = Holding(t, o, hit)]
    PROVE  \E s \in TaskState : /\ Carries(s) /\ s.pc # "insert"
                                /\ task' = [task EXCEPT ![t] = s]
<1> DEFINE s == [task[t] EXCEPT !.pc = "change", !.object = o, !.hit = hit]
<1>1. CASE Found(t) = "idle"
  BY <1>1, AtRestType DEF Holding
<1>2. CASE Found(t) # "idle"
  <2>1. s \in TaskState
    BY TaskType DEF TaskState
  <2>2. s.pc = "change" /\ s.user = task[t].user /\ s.object = o
    BY TaskType DEF TaskState
  <2>3. Carries(s)
    BY <2>2 DEF Carries
  <2> QED BY <1>2, <2>1, <2>2, <2>3 DEF Holding
<1> QED BY <1>1, <1>2

-----------------------------------------------------------------------------
(* Steps that write rows, draw ids or issue tokens *)

LEMMA LookupEmailInv ==
    ASSUME IInv, NEW t \in Task, LookupEmail(t)
    PROVE  IInv'
<1>1. At(t, "lookup") /\ task[t].email \in Email
  BY TaskType DEF LookupEmail, At, Carries
<1> USE DEF LookupEmail
<1>2. CASE ~EmailTaken(task[t].email)
  <2>1. \E s \in TaskState : /\ Carries(s) /\ s.pc # "insert"
                             /\ task' = [task EXCEPT ![t] = s]
    BY <1>1, <1>2, MoveType
  <2>2. UNCHANGED <<users, tokens, cache, heap, suspended>>
    BY <1>2
  <2> QED BY <2>1, <2>2, QuietStep DEF IInv, TypeOK
<1>3. CASE EmailTaken(task[t].email)
  <2>1. PICK r \in users : /\ r.email = task[t].email
                           /\ tokens' = [tokens EXCEPT ![r.email] = @ \cup {r.id}]
    BY <1>3
  <2>2. End(t) /\ UNCHANGED <<users, cache, heap, suspended>>
    BY <1>3
  <2>3. r.id \in User /\ r.email \in Email
    BY <2>1 DEF IInv, TypeOK, UserRow
  <2>4. task' = [task EXCEPT ![t] = AtRest]
    BY <2>2 DEF End
  <2>5. task' \in [Task -> TaskState] /\ task'[t] = AtRest
        /\ \A u \in Task \ {t} : task'[u] = task[u]
    BY <2>4, AtRestType DEF IInv, TypeOK
  <2>6. tokens' \in [Email -> SUBSET User]
    BY <2>1, <2>3 DEF IInv, TypeOK
  <2>7. TypeOK'
    BY <2>2, <2>5, <2>6 DEF IInv, TypeOK
  <2>8. (\A u \in Task : Carries(task[u]))'
    BY <2>5, AtRestType DEF IInv, Carries
  <2>9. IdsFresh'
    BY <2>2, <2>5, AtRestType DEF IInv, IdsFresh, At, Ids
  <2>10. EmailUnique'
    BY <2>2 DEF IInv, EmailUnique
  <2>11. TokenSubjectPersisted'
    <3> SUFFICES ASSUME NEW e \in Email, NEW u \in tokens'[e]
                 PROVE  \E q \in users : q.id = u /\ \A s \in tokens'[e] :
                                            s = q.id /\ q.email = e
      BY <2>2 DEF TokenSubjectPersisted
    <3>1. CASE e # r.email
      <4>1. tokens'[e] = tokens[e]
        BY <3>1, <2>1 DEF IInv, TypeOK
      <4> QED BY <4>1 DEF IInv, TokenSubjectPersisted
    <3>2. CASE e = r.email
      <4>1. tokens'[e] = tokens[e] \cup {r.id}
        BY <3>2, <2>1 DEF IInv, TypeOK
      <4>2. \A s \in tokens[e] : s = r.id
        BY <3>2 DEF IInv, TokenSubjectPersisted, EmailUnique
      <4> QED BY <3>2, <4>1, <4>2
    <3> QED BY <3>1, <3>2
  <2> QED BY <2>7, <2>8, <2>9, <2>10, <2>11 DEF IInv
<1> QED BY <1>2, <1>3

LEMMA ExistsByEmailInv ==
    ASSUME IInv, NEW t \in Task, ExistsByEmail(t)
    PROVE  IInv'
<1>1. At(t, "exists") /\ task[t].email \in Email
  BY TaskType DEF ExistsByEmail, At, Carries
<1> USE DEF ExistsByEmail
<1>2. CASE EmailTaken(task[t].email)
  <2>1. \E s \in TaskState : /\ Carries(s) /\ s.pc # "insert"
                             /\ task' = [task EXCEPT ![t] = s]
    BY <1>2, EndType
  <2>2. UNCHANGED <<users, tokens, cache, heap, suspended>>
    BY <1>2
  <2> QED BY <2>1, <2>2, QuietStep DEF IInv, TypeOK
<1>3. CASE ~EmailTaken(task[t].email)
  <2>1. PICK u \in User \ Ids :
          /\ \A s \in Task : task[s].user # u
          /\ task' = [task EXCEPT ![t] = [@ EXCEPT !.pc = "insert", !.user = u]]
          /\ cache' = [cache EXCEPT ![u] = None]
    BY <1>3
  <2>2. UNCHANGED <<users, heap, tokens, suspended>>
    OBVIOUS
  <2> DEFINE s == [task[t] EXCEPT !.pc = "insert", !.user = u]
  <2>3. s \in TaskState
    BY TaskType DEF TaskState
  <2>4. s.pc = "insert" /\ s.user = u /\ s.email = task[t].email
    BY TaskType DEF TaskState
  <2>5. task' \in [Task -> TaskState] /\ task'[t] = s
        /\ \A q \in Task \ {t} : task'[q] = task[q]
    BY <2>1, <2>3 DEF IInv, TypeOK
  <2>6. cache' \in [User -> Object \cup {None}]
    BY <2>1 DEF IInv, TypeOK
  <2>7. TypeOK'
    BY <2>2, <2>5, <2>6 DEF IInv, TypeOK
  <2>8. (\A q \in Task : Carries(task[q]))'
    BY <1>1, <2>4, <2>5 DEF IInv, Carries
  <2>9. IdsFresh'
    <3>1. Ids' = Ids
      BY <2>2 DEF Ids
    <3>2. task'[t].user = u /\ u \notin Ids
      BY <2>1, <2>4, <2>5
    <3> HIDE DEF s
    <3>3. \A q \in Task \ {t} : task'[q] = task[q] /\ task[q].user # u
      BY <2>1, <2>5
    <3> QED BY <3>1, <3>2, <3>3 DEF IInv, IdsFresh, At
  <2>10. EmailUnique' /\ TokenSubjectPersisted'
    <3>1. users' = users /\ tokens' = tokens
      BY <2>2
    <3>2. EmailUnique'
      BY <3>1 DEF IInv, EmailUnique
    <3>3. TokenSubjectPersisted'
      BY <3>1 DEF IInv, TokenSubjectPersisted
    <3> QED BY <3>2, <3>3
  <2> QED BY <2>7, <2>8, <2>9, <2>10 DEF IInv
<1> QED BY <1>2, <1>3

LEMMA NewProfileType ==
    ASSUME NEW n \in Nick
    PROVE  NewProfile(n) \in Profile
  BY DEF NewProfile, Profile, Status

\* The row is new in every respect: its id was drawn for it alone, and
\* uk_users_email holds at the moment of the commit.
LEMMA InsertCommitInv ==
    ASSUME IInv, NEW t \in Task, InsertCommit(t)
    PROVE  IInv'
<1>1. At(t, "insert") /\ task[t].email \in Email /\ task[t].user \in User
      /\ task[t].nickname \in Nick
  BY TaskType DEF InsertCommit, At, Carries, TaskState
<1>2. UNCHANGED <<cache, heap, suspended>>
  BY DEF InsertCommit
<1>3. CASE End(t) /\ UNCHANGED <<users, tokens>>
  <2>1. \E s \in TaskState : /\ Carries(s) /\ s.pc # "insert"
                             /\ task' = [task EXCEPT ![t] = s]
    BY <1>3, EndType
  <2> QED BY <1>2, <1>3, <2>1, QuietStep DEF IInv, TypeOK
<1>4. CASE /\ ~EmailTaken(task[t].email)
           /\ users' = users \cup {NewRow(t)}
           /\ Created(t)
  <2> DEFINE id == task[t].user
             e == task[t].email
             row == NewRow(t)
  <2>1. row.id = id /\ row.email = e /\ row \in UserRow
    BY <1>1, NewProfileType DEF NewRow, UserRow
  <2>2. id \notin Ids /\ \A q \in Task \ {t} : At(q, "insert") => task[q].user # id
    BY <1>1 DEF IInv, IdsFresh
  <2>3. tokens[e] = {}
    BY <1>1, <1>4 DEF IInv, TypeOK, TokenSubjectPersisted, EmailTaken
  <2>4. PICK s \in TaskState : /\ Carries(s) /\ s.pc # "insert"
                               /\ task' = [task EXCEPT ![t] = s]
    BY <1>1, <1>4, MoveType, EndType DEF Created
  <2>5. task' \in [Task -> TaskState] /\ task'[t] = s
        /\ \A q \in Task \ {t} : task'[q] = task[q]
    BY <2>4 DEF IInv, TypeOK
  <2>6. tokens' = tokens \/ tokens' = [tokens EXCEPT ![e] = {id}]
    BY <1>4, <2>3 DEF Created
  <2>7. TypeOK'
    BY <1>1, <1>2, <1>4, <2>1, <2>5, <2>6 DEF IInv, TypeOK
  <2>8. (\A q \in Task : Carries(task[q]))'
    BY <2>4, <2>5 DEF IInv, Carries
  <2>9. Ids' = Ids \cup {id}
    BY <1>4, <2>1 DEF Ids
  <2>10. IdsFresh'
    BY <2>2, <2>4, <2>5, <2>9 DEF IInv, IdsFresh, At
  <2>11. EmailUnique'
    BY <1>4, <2>1, <2>2 DEF IInv, EmailUnique, EmailTaken, Ids
  <2>12. TokenSubjectPersisted'
    <3> SUFFICES ASSUME NEW f \in Email, NEW u \in tokens'[f]
                 PROVE  \E q \in users' : q.id = u /\ \A v \in tokens'[f] :
                                            v = q.id /\ q.email = f
      BY DEF TokenSubjectPersisted
    <3>1. CASE tokens'[f] = tokens[f]
      BY <1>4, <3>1 DEF IInv, TokenSubjectPersisted
    <3>2. CASE tokens'[f] # tokens[f]
      <4>1. f = e /\ tokens'[f] = {id}
        BY <3>2, <2>6, <1>1 DEF IInv, TypeOK
      <4> QED BY <4>1, <2>1, <1>4
    <3> QED BY <3>1, <3>2
  <2> QED BY <2>7, <2>8, <2>10, <2>11, <2>12 DEF IInv
<1> QED BY <1>3, <1>4 DEF InsertCommit

\* An UPDATE changes neither the id nor the e-mail of a row.
LEMMA UpdateCommitInv ==
    ASSUME IInv, NEW t \in Task, UpdateCommit(t)
    PROVE  IInv'
<1>1. At(t, "commit") /\ task[t].user \in User /\ task[t].entity \in Profile
  BY TaskType DEF UpdateCommit, At, Carries, TaskState
<1>2. UNCHANGED <<cache, heap, tokens>> /\ End(t)
  BY DEF UpdateCommit
<1>3. PICK s \in TaskState : /\ Carries(s) /\ s.pc # "insert"
                             /\ task' = [task EXCEPT ![t] = s]
  BY <1>2, EndType
<1>4. CASE UNCHANGED <<users, suspended>>
  BY <1>2, <1>3, <1>4, QuietStep DEF IInv, TypeOK
<1>5. CASE users' # users \/ suspended' # suspended
  <2> DEFINE New(r) == IF r.id = task[t].user
                       THEN [r EXCEPT !.profile = task[t].entity] ELSE r
  <2>1. users' = {New(r) : r \in users} /\ suspended' \subseteq User
    BY <1>1, <1>5 DEF UpdateCommit, IInv, TypeOK
  <2>2. \A r \in users : New(r) \in UserRow /\ New(r).id = r.id /\ New(r).email = r.email
    BY <1>1 DEF IInv, TypeOK, UserRow
  <2>3. task' \in [Task -> TaskState] /\ task'[t] = s
        /\ \A q \in Task \ {t} : task'[q] = task[q]
    BY <1>3 DEF IInv, TypeOK
  <2>4. TypeOK'
    BY <1>2, <2>1, <2>2, <2>3 DEF IInv, TypeOK
  <2>5. (\A q \in Task : Carries(task[q]))'
    BY <1>3, <2>3 DEF IInv, Carries
  <2> HIDE DEF New
  <2>6. Ids' = Ids
    <3>1. \A r \in users : New(r) \in users' /\ New(r).id = r.id
      BY <2>1, <2>2
    <3>2. \A q \in users' : \E r \in users : q.id = r.id
      BY <2>1, <2>2
    <3>3. Ids \subseteq Ids'
      BY <3>1 DEF Ids
    <3>4. Ids' \subseteq Ids
      BY <3>2 DEF Ids
    <3> QED BY <3>3, <3>4
  <2>7. IdsFresh'
    BY <1>3, <2>3, <2>6 DEF IInv, IdsFresh, At
  <2>8. EmailUnique'
    <3> SUFFICES ASSUME NEW r \in users', NEW q \in users',
                        r.email = q.email \/ r.id = q.id
                 PROVE  r = q
      BY DEF EmailUnique
    <3>1. PICK a \in users, b \in users : r = New(a) /\ q = New(b)
      BY <2>1
    <3>2. a = b
      BY <2>2, <3>1 DEF IInv, EmailUnique
    <3> QED BY <3>1, <3>2
  <2>9. TokenSubjectPersisted'
    BY <1>2, <2>1, <2>2 DEF IInv, TokenSubjectPersisted
  <2> QED BY <2>4, <2>5, <2>7, <2>8, <2>9 DEF IInv
<1> QED BY <1>4, <1>5

-----------------------------------------------------------------------------
(* The other steps, and the theorem *)

LEMMA ArriveInv ==
    ASSUME IInv, NEW t \in Task, Arrive(t)
    PROVE  IInv'
<1> DEFINE Goal == \E s \in TaskState : /\ Carries(s) /\ s.pc # "insert"
                                        /\ task' = [task EXCEPT ![t] = s]
<1>1. UNCHANGED <<users, cache, heap, tokens, suspended>>
  BY DEF Arrive, Login, Create, OnUser
<1>2. ASSUME NEW e \in Email, Login(t, e) PROVE Goal
  <2> DEFINE s == [AtRest EXCEPT !.op = "login", !.pc = "lookup", !.email = e]
  <2>1. s \in TaskState /\ s.pc = "lookup" /\ s.email = e
    BY AtRestType DEF TaskState
  <2>2. task' = [task EXCEPT ![t] = s]
    BY <1>2 DEF Login
  <2> QED BY <2>1, <2>2 DEF Carries
<1>3. ASSUME NEW e \in Email, NEW n \in Nick, Create(t, e, n) PROVE Goal
  <2> DEFINE s == [AtRest EXCEPT !.op = "create", !.pc = "exists", !.email = e,
                                 !.nickname = n]
  <2>1. s \in TaskState /\ s.pc = "exists" /\ s.email = e
    BY AtRestType DEF TaskState
  <2>2. task' = [task EXCEPT ![t] = s]
    BY <1>3 DEF Create
  <2> QED BY <2>1, <2>2 DEF Carries
<1>4. ASSUME NEW u \in User, NEW op \in {"get", "update", "suspend"}, NEW n \in Nick,
             OnUser(t, op, u, n)
      PROVE  Goal
  <2> DEFINE s == [AtRest EXCEPT !.op = op, !.pc = "find", !.user = u, !.nickname = n]
  <2>1. s \in TaskState /\ s.pc = "find" /\ s.user = u
    BY AtRestType DEF TaskState
  <2>2. task' = [task EXCEPT ![t] = s]
    BY <1>4 DEF OnUser
  <2> QED BY <2>1, <2>2 DEF Carries
<1>5. Goal
  BY <1>2, <1>3, <1>4, ANickType DEF Arrive
<1> QED BY <1>1, <1>5, QuietStep DEF IInv, TypeOK

LEMMA FindByIdInv ==
    ASSUME IInv, NEW t \in Task, Find(t) \/ Select(t) \/ Store(t)
    PROVE  IInv'
<1> DEFINE Goal == \E s \in TaskState : /\ Carries(s) /\ s.pc # "insert"
                                        /\ task' = [task EXCEPT ![t] = s]
<1>1. UNCHANGED <<users, tokens, suspended>>
  BY DEF Find, Select, Store
<1>2. task[t].user \in User
  BY TaskType DEF Find, Select, Store, At, Carries
<1>3. CASE Find(t)
  <2>1. CASE cache[task[t].user] = None
    BY <1>2, <1>3, <2>1, MoveType, QuietStep DEF Find, IInv, TypeOK
  <2>2. CASE cache[task[t].user] # None
    <3>1. cache[task[t].user] \in Object
      BY <1>2, <2>2 DEF IInv, TypeOK
    <3>2. Goal
      BY <1>2, <1>3, <2>2, <3>1, HoldingType DEF Find
    <3> QED BY <1>1, <1>3, <3>2, QuietStep DEF Find, IInv, TypeOK
  <2> QED BY <2>1, <2>2
<1>4. CASE Select(t)
  <2>1. CASE End(t) /\ UNCHANGED heap
    BY <1>1, <1>4, <2>1, EndType, QuietStep DEF Select, IInv, TypeOK
  <2>2. CASE \E r \in users, o \in Object :
                /\ heap' = [heap EXCEPT ![o] = r.profile]
                /\ task' = [task EXCEPT ![t] = [@ EXCEPT !.pc = "store", !.object = o]]
    <3>1. PICK r \in users, o \in Object :
                /\ heap' = [heap EXCEPT ![o] = r.profile]
                /\ task' = [task EXCEPT ![t] = [@ EXCEPT !.pc = "store", !.object = o]]
      BY <2>2
    <3> DEFINE s == [task[t] EXCEPT !.pc = "store", !.object = o]
    <3>2. s \in TaskState /\ s.pc = "store" /\ s.object = o /\ s.user = task[t].user
      BY TaskType DEF TaskState
    <3>3. heap' \in [Object -> Profile]
      BY <3>1 DEF IInv, TypeOK, UserRow
    <3>4. Goal
      BY <1>2, <3>1, <3>2 DEF Carries
    <3> QED BY <1>1, <1>4, <3>3, <3>4, QuietStep DEF Select, IInv, TypeOK
  <2> QED BY <1>4, <2>1, <2>2 DEF Select
<1>5. CASE Store(t)
  <2>1. task[t].object \in Object
    BY <1>5, TaskType DEF Store, At, Carries
  <2>2. Goal
    BY <1>2, <1>5, <2>1, HoldingType DEF Store
  <2>3. cache' \in [User -> Object \cup {None}]
    BY <1>5, <2>1 DEF Store, IInv, TypeOK
  <2> QED BY <1>1, <1>5, <2>2, <2>3, QuietStep DEF Store, IInv, TypeOK
<1> QED BY <1>3, <1>4, <1>5

LEMMA WriteInv ==
    ASSUME IInv, NEW t \in Task, Change(t) \/ Save(t) \/ Evict(t)
    PROVE  IInv'
<1> DEFINE Goal == \E s \in TaskState : /\ Carries(s) /\ s.pc # "insert"
                                        /\ task' = [task EXCEPT ![t] = s]
<1>1. UNCHANGED <<users, tokens, suspended>> /\ task[t].user \in User
  BY TaskType DEF Change, Save, Evict, At, Carries
<1>2. CASE Change(t)
  <2>1. task[t].object \in Object /\ task[t].nickname \in Nick
    BY <1>2, TaskType DEF Change, At, Carries, TaskState
  <2>2. heap' \in [Object -> Profile]
    BY <1>2, <2>1 DEF Change, IInv, TypeOK, Profile, Status
  <2>3. Goal
    BY <1>1, <1>2, <2>1, MoveType DEF Change
  <2> QED BY <1>1, <1>2, <2>2, <2>3, QuietStep DEF Change, IInv, TypeOK
<1>3. CASE Save(t)
  <2>1. heap[task[t].object] \in Profile
    BY <1>3, TaskType DEF Save, At, Carries, IInv, TypeOK
  <2> DEFINE s == [task[t] EXCEPT !.pc = "evict", !.object = None,
                                  !.entity = heap[task[t].object]]
  <2>2. s \in TaskState /\ s.pc = "evict" /\ s.user = task[t].user
    BY <2>1, TaskType DEF TaskState
  <2>3. Goal
    BY <1>1, <1>3, <2>2 DEF Save, Carries
  <2> QED BY <1>1, <1>3, <2>3, QuietStep DEF Save, IInv, TypeOK
<1>4. CASE Evict(t)
  <2>1. cache' \in [User -> Object \cup {None}]
    BY <1>4 DEF Evict, IInv, TypeOK
  <2>2. Goal
    BY <1>1, <1>4, MoveType, EndType DEF Evict
  <2> QED BY <1>1, <1>4, <2>1, <2>2, QuietStep DEF Evict, IInv, TypeOK
<1> QED BY <1>2, <1>3, <1>4

LEMMA RestartInv == IInv /\ Restart => IInv'
<1> SUFFICES ASSUME IInv, Restart PROVE IInv'
  OBVIOUS
<1>1. \A t \in Task : task'[t] = AtRest
  BY DEF Restart
<1>2. UNCHANGED <<users, tokens, heap, suspended>>
  BY DEF Restart
<1>3. task' \in [Task -> TaskState] /\ cache' \in [User -> Object \cup {None}]
  BY AtRestType DEF Restart
<1>4. TypeOK'
  BY <1>2, <1>3 DEF IInv, TypeOK
<1>5. (\A t \in Task : Carries(task[t]))'
  BY <1>1, AtRestType DEF Carries
<1>6. IdsFresh'
  BY <1>1, AtRestType DEF IdsFresh, At
<1>7. EmailUnique' /\ TokenSubjectPersisted'
  BY <1>2 DEF IInv, EmailUnique, TokenSubjectPersisted
<1> QED BY <1>4, <1>5, <1>6, <1>7 DEF IInv

LEMMA StepInv == IInv /\ [Next]_vars => IInv'
<1> SUFFICES ASSUME IInv, [Next]_vars PROVE IInv'
  OBVIOUS
<1>1. CASE UNCHANGED vars
  BY <1>1 DEF vars, IInv, TypeOK, IdsFresh, EmailUnique, TokenSubjectPersisted,
              At, Ids, Carries
<1>2. CASE Restart
  BY <1>2, RestartInv
<1>3. ASSUME NEW t \in Task, Arrive(t) PROVE IInv'
  BY <1>3, ArriveInv
<1>4. ASSUME NEW t \in Task, Serve(t) PROVE IInv'
  BY <1>4, LookupEmailInv, ExistsByEmailInv, InsertCommitInv, FindByIdInv,
     WriteInv, UpdateCommitInv DEF Serve
<1> QED BY <1>1, <1>2, <1>3, <1>4 DEF Next

LEMMA Invariant == Spec => []IInv
  BY InitInv, StepInv, PTL DEF Spec

\* Every state is well typed.
THEOREM UsersTypeCorrect == Spec => []TypeOK
<1>1. IInv => TypeOK
  BY DEF IInv
<1> QED BY <1>1, Invariant, PTL

\* However many logins and registrations overlap, fail or are cut off by a
\* restart, an e-mail names one user.
THEOREM EmailNamesOneUser == Spec => []EmailUnique
<1>1. IInv => EmailUnique
  BY DEF IInv
<1> QED BY <1>1, Invariant, PTL

\* The subject of every token ever issued for a login name is the one
\* persisted user of that name.
THEOREM TokensNamePersistedUsers == Spec => []TokenSubjectPersisted
<1>1. IInv => TokenSubjectPersisted
  BY DEF IInv
<1> QED BY <1>1, Invariant, PTL
=============================================================================
