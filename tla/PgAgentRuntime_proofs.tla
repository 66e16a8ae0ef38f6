------------------------ MODULE PgAgentRuntime_proofs ------------------------
(***************************************************************************)
(* Proofs about PgAgentRuntime, for any number of agents, requests and     *)
(* clients and any bound on the sequences.                                 *)
(***************************************************************************)
EXTENDS PgAgentRuntime, FiniteSetTheorems, TLAPS

-----------------------------------------------------------------------------
(* Type correctness *)

\* What TypeOK needs to be inductive: a request that is about to write a row
\* holds a number a row can carry, and the events of an agent are finitely many
\* (so that Cardinality is a number).
TypeInv ==
    /\ TypeOK
    /\ \A a \in Agent : IsFiniteSet(events[a])
    /\ \A t \in Task :
        /\ At(t, "soul_insert") => task[t].version \in RowId
        /\ At(t, "event_commit") => task[t].id \in RowId

LEMMA ChosenType == AnAgent \in Agent /\ AKind \in Kind
  BY NonEmptyAssumption DEF AnAgent, AKind

LEMMA AtRestType ==
    ASSUME NEW outcome \in Outcome, NEW replyId \in 0..MaxRow
    PROVE  AtRest(outcome, replyId) \in TaskState
  BY ChosenType, MaxRowAssumption DEF AtRest, TaskState, Step

\* The task table after a reply, and after a request is admitted or refused.
LEMMA ReplyType ==
    ASSUME TypeInv, NEW t \in Task, NEW outcome \in Outcome,
           NEW replyId \in 0..MaxRow, Reply(t, outcome, replyId)
    PROVE  /\ task' \in [Task -> TaskState]
           /\ task'[t].step = "idle"
           /\ \A u \in Task \ {t} : task'[u] = task[u]
<1>1. AtRest(outcome, replyId) \in TaskState /\ AtRest(outcome, replyId).step = "idle"
  BY AtRestType DEF AtRest
<1> QED BY <1>1 DEF TypeInv, TypeOK, Reply

LEMMA TaskType ==
    ASSUME TypeInv, NEW t \in Task
    PROVE  /\ task[t] \in TaskState /\ AgentOf(t) \in Agent
           /\ At(t, "soul_insert") => task[t].version \in RowId
           /\ At(t, "event_commit") => task[t].id \in RowId
<1>1. task[t] \in TaskState
  BY DEF TypeInv, TypeOK
<1>2. AgentOf(t) \in Agent
  BY <1>1 DEF TaskState, AgentOf
<1> QED BY <1>1, <1>2 DEF TypeInv, At

LEMMA MoveType ==
    ASSUME TypeInv, NEW t \in Task, NEW s \in TaskState,
           task' = [task EXCEPT ![t] = s]
    PROVE  /\ task' \in [Task -> TaskState]
           /\ task'[t] = s
           /\ \A u \in Task \ {t} : task'[u] = task[u]
  BY DEF TypeInv, TypeOK

LEMMA AdmitType ==
    ASSUME TypeInv, NEW t \in Task, NEW a \in Agent, NEW step \in Step,
           NEW request \in TaskState, Admit(t, a, step, request)
    PROVE  /\ task' \in [Task -> TaskState]
           /\ task'[t].step \in {step, "idle"}
           /\ \A u \in Task \ {t} : task'[u] = task[u]
<1>1. AtRest("failed", 0) \in TaskState /\ AtRest("failed", 0).step = "idle"
  BY AtRestType, MaxRowAssumption DEF Outcome, AtRest
<1>2. /\ [request EXCEPT !.step = step, !.agent = a] \in TaskState
      /\ [request EXCEPT !.step = step, !.agent = a].step = step
  BY DEF TaskState
<1> QED BY <1>1, <1>2 DEF TypeInv, TypeOK, Admit

LEMMA TypeInit == Init => TypeInv
<1> SUFFICES ASSUME Init PROVE TypeInv
  OBVIOUS
<1>1. AtRest("none", 0) \in TaskState /\ AtRest("none", 0).step = "idle"
  BY AtRestType, MaxRowAssumption DEF Outcome, AtRest
<1>2. task \in [Task -> TaskState] /\ \A t \in Task : task[t].step = "idle"
  BY <1>1 DEF Init
<1>3. walk \in [Client -> WalkState]
  BY ChosenType, MaxRowAssumption DEF Init, WalkState
<1>4. \A a \in Agent : IsFiniteSet(events[a])
  BY FS_EmptySet DEF Init
<1>5. /\ agents = {} /\ souls = [a \in Agent |-> {}] /\ soulSeq = 0
      /\ events = [a \in Agent |-> {}] /\ eventSeq = 0
      /\ wiped = [a \in Agent |-> FALSE]
      /\ stored = [a \in Agent |-> 0] /\ deleted = [a \in Agent |-> 0]
  BY DEF Init
<1>6. 0 \in 0..MaxRow
  BY MaxRowAssumption
<1>7. TypeOK
  BY <1>2, <1>3, <1>5, <1>6 DEF TypeOK
<1> QED BY <1>2, <1>4, <1>7 DEF TypeInv, At

LEMMA TypeStep == TypeInv /\ [Next]_vars => TypeInv'
<1> SUFFICES ASSUME TypeInv, [Next]_vars PROVE TypeInv'
  OBVIOUS
<1> USE DEF ghosts
<1>0. "none" \in Outcome /\ "ok" \in Outcome /\ "failed" \in Outcome /\ 0 \in 0..MaxRow
  BY MaxRowAssumption DEF Outcome
\* Most steps touch the task table only, and leave no row about to be written.
<1>t. ASSUME NEW t \in Task, task' \in [Task -> TaskState],
             \A u \in Task \ {t} : task'[u] = task[u],
             task'[t].step # "soul_insert", task'[t].step # "event_commit",
             UNCHANGED <<agents, souls, soulSeq, events, eventSeq, walk, ghosts>>
      PROVE  TypeInv'
  BY <1>t DEF TypeInv, TypeOK, At
<1>1. ASSUME NEW a \in Agent, CreateAgent(a) PROVE TypeInv'
  BY <1>1 DEF CreateAgent, TypeInv, TypeOK, At
<1>2. ASSUME NEW t \in Task, NEW a \in Agent, Arrive(t, a) PROVE TypeInv'
  <2>0. AtRest("none", 0) \in TaskState
    BY <1>0, AtRestType
  <2>1. ASSUME NEW confirmed \in BOOLEAN, AppendSoulRequest(t, a, confirmed)
        PROVE  TypeInv'
    <3>1. CASE confirmed
      BY <2>0, <2>1, <3>1, <1>t, AdmitType DEF AppendSoulRequest, Step
    <3>2. CASE ~confirmed
      BY <1>0, <2>1, <3>2, <1>t, ReplyType DEF AppendSoulRequest
    <3> QED BY <3>1, <3>2
  <2>2. ASSUME NEW k \in Kind, AppendEventRequest(t, a, k) PROVE TypeInv'
    <3>1. [AtRest("none", 0) EXCEPT !.kind = k] \in TaskState
      BY <2>0 DEF TaskState
    <3> QED BY <2>2, <3>1, <1>t, AdmitType DEF AppendEventRequest, Step
  <2>3. ASSUME NEW keepSoul \in BOOLEAN, FlushRequest(t, a, keepSoul) PROVE TypeInv'
    <3>1. [AtRest("none", 0) EXCEPT !.keepSoul = keepSoul] \in TaskState
      BY <2>0 DEF TaskState
    <3> QED BY <2>3, <3>1, <1>t, AdmitType DEF FlushRequest, Step
  <2> QED BY <1>2, <2>1, <2>2, <2>3 DEF Arrive
<1>3. ASSUME NEW t \in Task, AppendSoulSnapshot(t) PROVE TypeInv'
  <2>1. PICK v \in RowId : task' = [task EXCEPT ![t] =
                            [@ EXCEPT !.step = "soul_insert", !.version = v]]
    BY <1>3 DEF AppendSoulSnapshot
  <2> DEFINE s == [task[t] EXCEPT !.step = "soul_insert", !.version = v]
  <2>3. s \in TaskState /\ s.step = "soul_insert" /\ s.version = v
    <3>1. task[t] \in TaskState /\ v \in 0..MaxRow
      BY TaskType, MaxRowAssumption DEF RowId
    <3> QED BY <3>1 DEF TaskState, Step
  <2>4. task' = [task EXCEPT ![t] = s]
    BY <2>1
  <2>2. /\ task' \in [Task -> TaskState]
        /\ task'[t].version \in RowId /\ task'[t].step = "soul_insert"
        /\ \A u \in Task \ {t} : task'[u] = task[u]
    BY <2>3, <2>4, MoveType
  <2> QED BY <1>3, <2>2 DEF AppendSoulSnapshot, TypeInv, TypeOK, At
<1>4. ASSUME NEW t \in Task, AppendSoulInsert(t) PROVE TypeInv'
  <2>1. task[t] \in TaskState /\ task[t].version \in RowId
        /\ task[t].version \in 0..MaxRow /\ AgentOf(t) \in Agent
    BY <1>4, TaskType, MaxRowAssumption DEF AppendSoulInsert, RowId
  <2>2. soulSeq' \in 0..MaxRow /\ soulSeq + 1 \in RowId
    BY <1>4, MaxRowAssumption DEF AppendSoulInsert, TypeInv, TypeOK, RowId
  <2>3. souls' \in [Agent -> SUBSET SoulRow]
    BY <1>4, <2>1, <2>2 DEF AppendSoulInsert, TypeInv, TypeOK, SoulRow
  <2>4. PICK outcome \in Outcome, replyId \in 0..MaxRow : Reply(t, outcome, replyId)
    BY <1>0, <1>4, <2>1 DEF AppendSoulInsert
  <2>5. /\ task' \in [Task -> TaskState] /\ task'[t].step = "idle"
        /\ \A u \in Task \ {t} : task'[u] = task[u]
    BY <2>4, ReplyType
  <2> QED BY <1>4, <2>2, <2>3, <2>5 DEF AppendSoulInsert, TypeInv, TypeOK, At
<1>5. ASSUME NEW t \in Task, Embed(t) PROVE TypeInv'
  <2>1. CASE Reply(t, "failed", 0)
    BY <1>0, <1>5, <2>1, <1>t, ReplyType DEF Embed
  <2>2. CASE task' = [task EXCEPT ![t].step = "event_insert"]
    <3> DEFINE s == [task[t] EXCEPT !.step = "event_insert"]
    <3>2. s \in TaskState /\ s.step = "event_insert"
      BY TaskType DEF TaskState, Step
    <3>1. /\ task' \in [Task -> TaskState] /\ task'[t].step = "event_insert"
          /\ \A u \in Task \ {t} : task'[u] = task[u]
      BY <2>2, <3>2, MoveType
    <3> QED BY <1>5, <3>1, <1>t DEF Embed
  <2> QED BY <1>5, <2>1, <2>2 DEF Embed
<1>6. ASSUME NEW t \in Task, AppendEventInsert(t) PROVE TypeInv'
  <2>1. eventSeq' \in 0..MaxRow /\ eventSeq + 1 \in RowId /\ eventSeq + 1 \in 0..MaxRow
    BY <1>6, MaxRowAssumption DEF AppendEventInsert, TypeInv, TypeOK, RowId
  <2>2. /\ task' \in [Task -> TaskState] /\ task'[t].id = eventSeq + 1
        /\ task'[t].step = "event_commit"
        /\ \A u \in Task \ {t} : task'[u] = task[u]
    <3> DEFINE s == [task[t] EXCEPT !.step = "event_commit", !.id = eventSeq + 1]
    <3>1. s \in TaskState /\ s.step = "event_commit" /\ s.id = eventSeq + 1
      BY <2>1, TaskType DEF TaskState, Step
    <3>2. task' = [task EXCEPT ![t] = s]
      BY <1>6 DEF AppendEventInsert
    <3> QED BY <3>1, <3>2, MoveType
  <2> QED BY <1>6, <2>1, <2>2 DEF AppendEventInsert, TypeInv, TypeOK, At
<1>7. ASSUME NEW t \in Task, AppendEventCommit(t) PROVE TypeInv'
  <2> DEFINE row == [id |-> task[t].id, kind |-> task[t].kind]
  <2>1. task[t] \in TaskState /\ row \in EventRow /\ AgentOf(t) \in Agent
    BY <1>7, TaskType DEF AppendEventCommit, TaskState, EventRow
  <2>2. events' \in [Agent -> SUBSET EventRow]
    BY <1>7, <2>1 DEF AppendEventCommit, TypeInv, TypeOK
  <2>3. \A a \in Agent : IsFiniteSet(events'[a])
    <3>1. events' = [events EXCEPT ![AgentOf(t)] = @ \cup {row}]
      BY <1>7 DEF AppendEventCommit
    <3>2. \A a \in Agent : events'[a] = events[a] \/ events'[a] = events[a] \cup {row}
      BY <2>1, <3>1 DEF TypeInv, TypeOK
    <3>3. \A a \in Agent : IsFiniteSet(events[a] \cup {row})
      BY FS_AddElement DEF TypeInv
    <3> QED BY <3>2, <3>3 DEF TypeInv
  <2>4. /\ task' \in [Task -> TaskState] /\ task'[t].step = "read_id"
        /\ \A u \in Task \ {t} : task'[u] = task[u]
    <3> DEFINE s == [task[t] EXCEPT !.step = "read_id"]
    <3>1. s \in TaskState /\ s.step = "read_id"
      BY TaskType DEF TaskState, Step
    <3>2. task' = [task EXCEPT ![t] = s]
      BY <1>7 DEF AppendEventCommit
    <3> QED BY <3>1, <3>2, MoveType
  <2>5. stored' \in [Agent -> Nat]
    BY <1>7, <2>1 DEF AppendEventCommit, TypeInv, TypeOK
  <2> QED BY <1>7, <2>2, <2>3, <2>4, <2>5 DEF AppendEventCommit, TypeInv, TypeOK, At
<1>8. ASSUME NEW t \in Task, AppendEventReadId(t) PROVE TypeInv'
  <2>1. CASE Reply(t, "failed", 0)
    BY <1>0, <1>8, <2>1, <1>t, ReplyType DEF AppendEventReadId
  <2>2. CASE \E r \in events[AgentOf(t)] :
                task' = [task EXCEPT ![t] =
                      [@ EXCEPT !.step = "idle", !.outcome = "ok", !.replyId = r.id]]
    <3>1. task[t] \in TaskState /\ AgentOf(t) \in Agent
      BY TaskType
    <3>2. PICK r \in EventRow : task' = [task EXCEPT ![t] =
                      [@ EXCEPT !.step = "idle", !.outcome = "ok", !.replyId = r.id]]
      BY <2>2, <3>1 DEF TypeInv, TypeOK
    <3>3. r.id \in 0..MaxRow
      BY MaxRowAssumption DEF EventRow, RowId
    <3>4. /\ task' \in [Task -> TaskState] /\ task'[t].step = "idle"
          /\ \A u \in Task \ {t} : task'[u] = task[u]
      <4> DEFINE s == [task[t] EXCEPT !.step = "idle", !.outcome = "ok",
                                      !.replyId = r.id]
      <4>1. s \in TaskState /\ s.step = "idle"
        BY <3>1, <3>3 DEF TaskState, Step, Outcome
      <4> QED BY <3>2, <4>1, MoveType
    <3> QED BY <1>8, <3>4, <1>t DEF AppendEventReadId
  <2> QED BY <1>8, <2>1, <2>2 DEF AppendEventReadId
<1>9. ASSUME NEW t \in Task, FlushEventsSnapshot(t) PROVE TypeInv'
  <2>1. AgentOf(t) \in Agent /\ IdsOf(events[AgentOf(t)]) \subseteq RowId
    BY TaskType DEF TypeInv, TypeOK, EventRow, IdsOf
  <2>2. /\ task' \in [Task -> TaskState] /\ task'[t].step = "events_delete"
        /\ \A u \in Task \ {t} : task'[u] = task[u]
    <3> DEFINE s == [task[t] EXCEPT !.step = "events_delete",
                                    !.doomed = IdsOf(events[AgentOf(t)])]
    <3>1. s \in TaskState /\ s.step = "events_delete"
      BY <2>1, TaskType DEF TaskState, Step
    <3>2. task' = [task EXCEPT ![t] = s]
      BY <1>9 DEF FlushEventsSnapshot
    <3> QED BY <3>1, <3>2, MoveType
  <2> QED BY <1>9, <2>2, <1>t DEF FlushEventsSnapshot
<1>10. ASSUME NEW t \in Task, FlushEventsDelete(t) PROVE TypeInv'
  <2> DEFINE gone == {r \in events[AgentOf(t)] : r.id \in task[t].doomed}
  <2>1. AgentOf(t) \in Agent
    BY TaskType
  <2>2. IsFiniteSet(gone) /\ Cardinality(gone) \in Nat
    BY <2>1, FS_Subset, FS_CardinalityType DEF TypeInv
  <2>3. events' \in [Agent -> SUBSET EventRow]
    BY <1>10, <2>1 DEF FlushEventsDelete, TypeInv, TypeOK
  <2>4. \A a \in Agent : IsFiniteSet(events'[a])
    <3>1. \A a \in Agent : events'[a] \subseteq events[a]
      BY <1>10, <2>1 DEF FlushEventsDelete, TypeInv, TypeOK
    <3> QED BY <3>1, FS_Subset DEF TypeInv
  <2>5. deleted' \in [Agent -> Nat]
    BY <1>10, <2>1, <2>2 DEF FlushEventsDelete, TypeInv, TypeOK
  <2>6. /\ task' \in [Task -> TaskState]
        /\ task'[t].step \in {"idle", "souls_snapshot"}
        /\ \A u \in Task \ {t} : task'[u] = task[u]
    <3>1. CASE task[t].keepSoul
      BY <1>0, <1>10, <3>1, ReplyType DEF FlushEventsDelete
    <3>2. CASE ~task[t].keepSoul
      <4> DEFINE s == [task[t] EXCEPT !.step = "souls_snapshot", !.doomed = {}]
      <4>1. s \in TaskState /\ s.step = "souls_snapshot"
        BY TaskType DEF TaskState, Step
      <4>2. task' = [task EXCEPT ![t] = s]
        BY <1>10, <3>2 DEF FlushEventsDelete
      <4> QED BY <4>1, <4>2, MoveType
    <3> QED BY <3>1, <3>2
  <2> QED BY <1>10, <2>3, <2>4, <2>5, <2>6 DEF FlushEventsDelete, TypeInv, TypeOK, At
<1>11. ASSUME NEW t \in Task, FlushSoulsSnapshot(t) PROVE TypeInv'
  <2>1. AgentOf(t) \in Agent /\ IdsOf(souls[AgentOf(t)]) \subseteq RowId
    BY TaskType DEF TypeInv, TypeOK, SoulRow, IdsOf
  <2>2. /\ task' \in [Task -> TaskState] /\ task'[t].step = "souls_delete"
        /\ \A u \in Task \ {t} : task'[u] = task[u]
    <3> DEFINE s == [task[t] EXCEPT !.step = "souls_delete",
                                    !.doomed = IdsOf(souls[AgentOf(t)])]
    <3>1. s \in TaskState /\ s.step = "souls_delete"
      BY <2>1, TaskType DEF TaskState, Step
    <3>2. task' = [task EXCEPT ![t] = s]
      BY <1>11 DEF FlushSoulsSnapshot
    <3> QED BY <3>1, <3>2, MoveType
  <2> QED BY <1>11, <2>2, <1>t DEF FlushSoulsSnapshot
<1>12. ASSUME NEW t \in Task, FlushSoulsDelete(t) PROVE TypeInv'
  <2>1. AgentOf(t) \in Agent
    BY TaskType
  <2>2. souls' \in [Agent -> SUBSET SoulRow] /\ wiped' \in [Agent -> BOOLEAN]
    BY <1>12, <2>1 DEF FlushSoulsDelete, TypeInv, TypeOK
  <2>3. /\ task' \in [Task -> TaskState] /\ task'[t].step = "idle"
        /\ \A u \in Task \ {t} : task'[u] = task[u]
    BY <1>0, <1>12, ReplyType DEF FlushSoulsDelete
  <2> QED BY <1>12, <2>2, <2>3 DEF FlushSoulsDelete, TypeInv, TypeOK, At
<1>13. ASSUME NEW t \in Task, Abort(t) PROVE TypeInv'
  BY <1>0, <1>13, <1>t, ReplyType DEF Abort
<1>14. ASSUME NEW c \in Client, NEW w \in WalkState, ServePage(c, w)
       PROVE  walk' \in [Client -> WalkState]
  <2> DEFINE rows == Matching(w.agent, w.kinds, w.cursor)
  <2>1. rows \subseteq EventRow
    BY DEF Matching, TypeInv, TypeOK, WalkState
  <2>2. PICK page \in SUBSET rows :
          \/ walk' = [walk EXCEPT ![c] =
                [w EXCEPT !.seen = @ \cup page, !.cursor = 0, !.phase = "complete"]]
          \/ \E last \in page : walk' = [walk EXCEPT ![c] =
                [w EXCEPT !.seen = @ \cup page, !.cursor = last.id]]
    BY <1>14 DEF ServePage
  <2>3. page \subseteq EventRow /\ \A last \in page : last.id \in 0..MaxRow
    BY <2>1, MaxRowAssumption DEF EventRow, RowId
  <2>4. \E s \in WalkState : walk' = [walk EXCEPT ![c] = s]
    <3>1. walk[c].seen \in SUBSET EventRow
      BY DEF TypeInv, TypeOK, WalkState
    <3>2. [w EXCEPT !.seen = @ \cup page, !.cursor = 0, !.phase = "complete"] \in WalkState
      BY <2>3, <1>0 DEF WalkState
    <3>3. \A last \in page :
            [w EXCEPT !.seen = @ \cup page, !.cursor = last.id] \in WalkState
      BY <2>3 DEF WalkState
    <3> QED BY <2>2, <3>2, <3>3
  <2> QED BY <2>4 DEF TypeInv, TypeOK
<1>15. ASSUME NEW c \in Client, ListNextPage(c) PROVE TypeInv'
  <2>1. walk' \in [Client -> WalkState]
    BY <1>15, <1>14 DEF ListNextPage, TypeInv, TypeOK
  <2> QED BY <1>15, <2>1 DEF ListNextPage, TypeInv, TypeOK, At
<1>16. ASSUME NEW c \in Client, NEW a \in Agent, NEW kinds \in SUBSET Kind,
              ListFirstPage(c, a, kinds)
       PROVE  TypeInv'
  <2>1. [phase |-> "paging", agent |-> a, kinds |-> kinds, cursor |-> 0,
         due |-> Matching(a, kinds, 0), seen |-> {}] \in WalkState
    BY <1>0 DEF WalkState, Matching, TypeInv, TypeOK
  <2>2. walk' \in [Client -> WalkState]
    BY <1>16, <1>14, <2>1 DEF ListFirstPage
  <2> QED BY <1>16, <2>2 DEF ListFirstPage, TypeInv, TypeOK, At
<1>17. CASE UNCHANGED vars
  BY <1>17 DEF vars, TypeInv, TypeOK, At
<1> QED
  BY <1>1, <1>2, <1>3, <1>4, <1>5, <1>6, <1>7, <1>8, <1>9, <1>10, <1>11,
     <1>12, <1>13, <1>15, <1>16, <1>17 DEF Next, Serve

\* Every variable keeps its type in every behaviour of the runtime.
THEOREM TypeCorrect == Spec => []TypeOK
<1>1. Spec => []TypeInv
  BY TypeInit, TypeStep, PTL DEF Spec
<1>2. TypeInv => TypeOK
  BY DEF TypeInv
<1> QED BY <1>1, <1>2, PTL

-----------------------------------------------------------------------------
(* The Soul tables *)

\* Inductive strengthening of SoulVersionsWellFormed: the version an append
\* read in its snapshot stays the next one, or gets taken, while no flush
\* drops rows; and only a flush told to drop the Soul reaches its DELETE.
SoulInv ==
    /\ SoulVersionsWellFormed
    /\ \A t \in Task :
        /\ (At(t, "soul_insert") /\ ~wiped[AgentOf(t)]) =>
                1..(task[t].version - 1) \subseteq VersionsOf(souls[AgentOf(t)])
        /\ (At(t, "souls_snapshot") \/ At(t, "souls_delete")) => ~task[t].keepSoul

LEMMA SoulInit == Init => SoulInv
<1> SUFFICES ASSUME Init PROVE SoulInv
  OBVIOUS
<1>1. \A t \in Task : task[t].step = "idle"
  BY DEF Init, AtRest
<1>2. \A a \in Agent : souls[a] = {}
  BY DEF Init
<1> QED BY <1>1, <1>2 DEF SoulInv, SoulVersionsWellFormed, VersionsOf, At

\* A step that leaves the Soul tables alone keeps SoulInv if the request it
\* moves is not one that is about to write there.
LEMMA SoulInvMove ==
    ASSUME SoulInv, NEW t \in Task, UNCHANGED <<souls, wiped>>,
           \A u \in Task \ {t} : task'[u] = task[u],
           task'[t].step \notin {"soul_insert", "souls_snapshot", "souls_delete"}
    PROVE  SoulInv'
<1>1. SoulVersionsWellFormed'
  BY DEF SoulInv, SoulVersionsWellFormed
<1> QED BY <1>1 DEF SoulInv, At, AgentOf

\* The next version after a hole-free ledger is preceded by all smaller ones.
LEMMA NextVersionClosed ==
    ASSUME NEW rows, VersionsOf(rows) \subseteq RowId, NEW v \in RowId,
           IsNextVersion(v, rows),
           \A u \in VersionsOf(rows) : 1..u \subseteq VersionsOf(rows)
    PROVE  1..(v - 1) \subseteq VersionsOf(rows)
<1>1. CASE v = 1
  BY <1>1
<1>2. CASE v - 1 \in VersionsOf(rows)
  BY <1>2
<1> QED BY <1>1, <1>2 DEF IsNextVersion

LEMMA SoulRowsType ==
    ASSUME TypeInv, NEW a \in Agent
    PROVE  /\ souls[a] \subseteq SoulRow
           /\ VersionsOf(souls[a]) \subseteq RowId
  BY DEF TypeInv, TypeOK, SoulRow, VersionsOf

\* What the INSERT of append_soul does to the Soul table.
LEMMA InsertEffect ==
    ASSUME TypeInv, SoulInv, NEW t \in Task, AppendSoulInsert(t),
           task[t].version \notin VersionsOf(souls[AgentOf(t)])
    PROVE  \E r \in SoulRow :
             /\ r.version = task[t].version
             /\ souls' = [souls EXCEPT ![AgentOf(t)] = @ \cup {r}]
             /\ UNCHANGED wiped
             /\ ~wiped[AgentOf(t)] => IsNextVersion(r.version, souls[AgentOf(t)])
<1> DEFINE a == AgentOf(t)
           r == [id |-> soulSeq + 1, version |-> task[t].version]
<1>1. a \in Agent /\ task[t].version \in RowId /\ At(t, "soul_insert")
  BY TaskType DEF AppendSoulInsert
<1>2. r \in SoulRow
  BY <1>1, MaxRowAssumption DEF AppendSoulInsert, TypeInv, TypeOK, RowId, SoulRow
<1>3. souls' = [souls EXCEPT ![a] = @ \cup {r}] /\ UNCHANGED wiped
  BY DEF AppendSoulInsert, ghosts
<1>4. ASSUME ~wiped[a] PROVE IsNextVersion(task[t].version, souls[a])
  <2>1. 1..(task[t].version - 1) \subseteq VersionsOf(souls[a])
    BY <1>1, <1>4 DEF SoulInv
  <2>2. ASSUME NEW u \in VersionsOf(souls[a]) PROVE u < task[t].version
    <3>1. u \in Nat /\ task[t].version \in Nat /\ task[t].version >= 1
      BY <1>1, <2>2, SoulRowsType, MaxRowAssumption DEF RowId
    <3>2. 1..u \subseteq VersionsOf(souls[a])
      BY <1>1, <1>4 DEF SoulInv, SoulVersionsWellFormed
    <3>3. task[t].version \notin 1..u
      BY <3>2
    <3> QED BY <3>1, <3>3
  <2>3. task[t].version = 1 \/ task[t].version - 1 \in VersionsOf(souls[a])
    BY <1>1, <2>1, MaxRowAssumption DEF RowId
  <2> QED BY <2>2, <2>3 DEF IsNextVersion
<1> QED BY <1>2, <1>3, <1>4

LEMMA SoulStep == TypeInv /\ SoulInv /\ [Next]_vars => SoulInv'
<1> SUFFICES ASSUME TypeInv, SoulInv, [Next]_vars PROVE SoulInv'
  OBVIOUS
<1> USE DEF ghosts
<1>0. "none" \in Outcome /\ "ok" \in Outcome /\ "failed" \in Outcome /\ 0 \in 0..MaxRow
  BY MaxRowAssumption DEF Outcome
<1>f. AtRest("none", 0) \in TaskState
  BY <1>0, AtRestType
\* Steps that do not touch the request table or the Soul table.
<1>1. ASSUME UNCHANGED <<souls, wiped, task>> PROVE SoulInv'
  BY <1>1 DEF SoulInv, SoulVersionsWellFormed, At, AgentOf
<1>2. ASSUME NEW t \in Task, NEW a \in Agent, Arrive(t, a) PROVE SoulInv'
  <2>1. ASSUME NEW confirmed \in BOOLEAN, AppendSoulRequest(t, a, confirmed)
        PROVE  SoulInv'
    <3>1. CASE confirmed
      BY <1>f, <2>1, <3>1, SoulInvMove, AdmitType DEF AppendSoulRequest, Step
    <3>2. CASE ~confirmed
      BY <1>0, <2>1, <3>2, SoulInvMove, ReplyType DEF AppendSoulRequest
    <3> QED BY <3>1, <3>2
  <2>2. ASSUME NEW k \in Kind, AppendEventRequest(t, a, k) PROVE SoulInv'
    <3>1. [AtRest("none", 0) EXCEPT !.kind = k] \in TaskState
      BY <1>f DEF TaskState
    <3> QED BY <2>2, <3>1, SoulInvMove, AdmitType DEF AppendEventRequest, Step
  <2>3. ASSUME NEW keepSoul \in BOOLEAN, FlushRequest(t, a, keepSoul) PROVE SoulInv'
    <3>1. [AtRest("none", 0) EXCEPT !.keepSoul = keepSoul] \in TaskState
      BY <1>f DEF TaskState
    <3> QED BY <2>3, <3>1, SoulInvMove, AdmitType DEF FlushRequest, Step
  <2> QED BY <1>2, <2>1, <2>2, <2>3 DEF Arrive
<1>3. ASSUME NEW t \in Task, AppendSoulSnapshot(t) PROVE SoulInv'
  <2>1. PICK v \in RowId :
           /\ IsNextVersion(v, souls[AgentOf(t)])
           /\ task' = [task EXCEPT ![t] =
                          [@ EXCEPT !.step = "soul_insert", !.version = v]]
    BY <1>3 DEF AppendSoulSnapshot
  <2> DEFINE s == [task[t] EXCEPT !.step = "soul_insert", !.version = v]
  <2>2. task[t] \in TaskState /\ AgentOf(t) \in Agent /\ v \in 0..MaxRow
    BY TaskType, MaxRowAssumption DEF RowId
  <2>3. s \in TaskState /\ s.step = "soul_insert" /\ s.version = v
        /\ s.agent = AgentOf(t)
    BY <2>2 DEF TaskState, Step, AgentOf
  <2>4. task'[t] = s /\ \A u \in Task \ {t} : task'[u] = task[u]
    BY <2>1, <2>3, MoveType
  <2>5. ~wiped[AgentOf(t)] => 1..(v - 1) \subseteq VersionsOf(souls[AgentOf(t)])
    BY <2>1, <2>2, NextVersionClosed, SoulRowsType DEF SoulInv, SoulVersionsWellFormed
  <2>6. SoulVersionsWellFormed' /\ UNCHANGED <<souls, wiped>>
    BY <1>3 DEF AppendSoulSnapshot, SoulInv, SoulVersionsWellFormed
  <2> QED BY <2>3, <2>4, <2>5, <2>6 DEF SoulInv, At, AgentOf
<1>4. ASSUME NEW t \in Task, AppendSoulInsert(t) PROVE SoulInv'
  <2> DEFINE a == AgentOf(t)
  <2>1. a \in Agent /\ task[t].version \in RowId /\ task[t].version \in 0..MaxRow
    BY <1>4, TaskType, MaxRowAssumption DEF AppendSoulInsert, RowId
  <2>2. task'[t].step = "idle" /\ \A u \in Task \ {t} : task'[u] = task[u]
    <3>1. PICK outcome \in Outcome, replyId \in 0..MaxRow : Reply(t, outcome, replyId)
      BY <1>0, <1>4, <2>1 DEF AppendSoulInsert
    <3> QED BY <3>1, ReplyType
  <2>3. CASE task[t].version \in VersionsOf(souls[a])
    BY <1>4, <2>2, <2>3, SoulInvMove DEF AppendSoulInsert
  <2>4. CASE task[t].version \notin VersionsOf(souls[a])
    <3>1. PICK r \in SoulRow :
             /\ r.version = task[t].version
             /\ souls' = [souls EXCEPT ![a] = @ \cup {r}]
             /\ UNCHANGED wiped
             /\ ~wiped[a] => IsNextVersion(r.version, souls[a])
      BY <1>4, <2>4, InsertEffect
    <3>2. souls'[a] = souls[a] \cup {r} /\ \A b \in Agent \ {a} : souls'[b] = souls[b]
      BY <2>1, <3>1 DEF TypeInv, TypeOK
    <3>3. VersionsOf(souls'[a]) = VersionsOf(souls[a]) \cup {r.version}
      BY <3>2 DEF VersionsOf
    <3>4. SoulVersionsWellFormed'
      <4>1. ASSUME NEW b \in Agent, NEW p \in souls'[b], NEW q \in souls'[b],
                   p.version = q.version
            PROVE  p = q
        <5>1. CASE b # a
          BY <3>2, <4>1, <5>1 DEF SoulInv, SoulVersionsWellFormed
        <5>2. CASE b = a
          <6>1. \A x \in souls[a] : x.version # r.version
            BY <2>4, <3>1 DEF VersionsOf
          <6> QED BY <2>1, <3>2, <4>1, <5>2, <6>1 DEF SoulInv, SoulVersionsWellFormed
        <5> QED BY <5>1, <5>2
      <4>2. ASSUME NEW b \in Agent, ~wiped'[b], NEW v \in VersionsOf(souls'[b])
            PROVE  1..v \subseteq VersionsOf(souls'[b])
        <5>1. CASE b # a
          BY <3>1, <3>2, <4>2, <5>1 DEF SoulInv, SoulVersionsWellFormed
        <5>2. CASE b = a /\ v \in VersionsOf(souls[a])
          BY <2>1, <3>1, <3>3, <4>2, <5>2 DEF SoulInv, SoulVersionsWellFormed
        <5>3. CASE b = a /\ v = r.version
          <6>1. 1..(v - 1) \subseteq VersionsOf(souls[a])
            BY <1>4, <3>1, <4>2, <5>3 DEF SoulInv, AppendSoulInsert
          <6>2. v \in Nat
            BY <2>1, <3>1, <5>3, MaxRowAssumption DEF RowId
          <6>3. 1..v \subseteq (1..(v - 1)) \cup {v}
            BY <6>2
          <6> QED BY <3>3, <5>3, <6>1, <6>3
        <5> QED BY <3>3, <5>1, <5>2, <5>3
      <4> QED BY <4>1, <4>2 DEF SoulVersionsWellFormed
    <3>5. \A b \in Agent : VersionsOf(souls[b]) \subseteq VersionsOf(souls'[b])
      BY <3>2, <3>3
    <3> QED BY <2>2, <3>1, <3>4, <3>5, TaskType DEF SoulInv, At, AgentOf
  <2> QED BY <2>3, <2>4
<1>5. ASSUME NEW t \in Task, Embed(t) PROVE SoulInv'
  <2>1. CASE Reply(t, "failed", 0)
    BY <1>0, <1>5, <2>1, ReplyType, SoulInvMove DEF Embed
  <2>2. CASE task' = [task EXCEPT ![t].step = "event_insert"]
    <3>1. [task[t] EXCEPT !.step = "event_insert"] \in TaskState
      BY TaskType DEF TaskState, Step
    <3>2. task'[t].step = "event_insert" /\ \A u \in Task \ {t} : task'[u] = task[u]
      BY <2>2, TaskType DEF TypeInv, TypeOK, TaskState
    <3> QED BY <1>5, <3>2, SoulInvMove DEF Embed
  <2> QED BY <1>5, <2>1, <2>2 DEF Embed
<1>6. ASSUME NEW t \in Task,
             \/ AppendEventInsert(t) \/ AppendEventCommit(t) \/ AppendEventReadId(t)
             \/ FlushEventsSnapshot(t)
      PROVE  SoulInv'
  <2>1. \A u \in Task \ {t} : task'[u] = task[u]
    BY <1>6 DEF AppendEventInsert, AppendEventCommit, AppendEventReadId,
                FlushEventsSnapshot, Reply, TypeInv, TypeOK
  <2>2. task'[t].step \in {"event_commit", "read_id", "idle", "events_delete"}
    <3>1. CASE AppendEventInsert(t)
      BY <3>1 DEF AppendEventInsert, TypeInv, TypeOK, TaskState
    <3>2. CASE AppendEventCommit(t)
      BY <3>2 DEF AppendEventCommit, TypeInv, TypeOK, TaskState
    <3>3. CASE AppendEventReadId(t)
      <4>1. CASE Reply(t, "failed", 0)
        BY <1>0, <4>1, ReplyType
      <4>2. CASE \E r \in events[AgentOf(t)] :
                   task' = [task EXCEPT ![t] =
                     [@ EXCEPT !.step = "idle", !.outcome = "ok",
                               !.replyId = r.id]]
        BY <4>2, TaskType DEF TaskState, TypeInv, TypeOK
      <4> QED BY <3>3, <4>1, <4>2 DEF AppendEventReadId
    <3>4. CASE FlushEventsSnapshot(t)
      BY <3>4 DEF FlushEventsSnapshot, TypeInv, TypeOK, TaskState
    <3> QED BY <1>6, <3>1, <3>2, <3>3, <3>4
  <2>3. UNCHANGED <<souls, wiped>>
    BY <1>6 DEF AppendEventInsert, AppendEventCommit, AppendEventReadId,
                FlushEventsSnapshot
  <2> QED BY <2>1, <2>2, <2>3, SoulInvMove
<1>7. ASSUME NEW t \in Task, FlushEventsDelete(t) PROVE SoulInv'
  <2>1. UNCHANGED <<souls, wiped>> /\ task[t].step = "events_delete"
    BY <1>7 DEF FlushEventsDelete, At
  <2>2. CASE task[t].keepSoul
    BY <1>0, <1>7, <2>1, <2>2, ReplyType, SoulInvMove DEF FlushEventsDelete
  <2>3. CASE ~task[t].keepSoul
    <3> DEFINE s == [task[t] EXCEPT !.step = "souls_snapshot", !.doomed = {}]
    <3>1. s \in TaskState /\ s.step = "souls_snapshot" /\ ~s.keepSoul
      BY <2>3, TaskType DEF TaskState, Step
    <3>2. task'[t] = s /\ \A u \in Task \ {t} : task'[u] = task[u]
      BY <1>7, <2>3, <3>1, MoveType DEF FlushEventsDelete
    <3>3. SoulVersionsWellFormed'
      BY <2>1 DEF SoulInv, SoulVersionsWellFormed
    <3> QED BY <2>1, <3>1, <3>2, <3>3 DEF SoulInv, At, AgentOf
  <2> QED BY <2>2, <2>3
<1>8. ASSUME NEW t \in Task, FlushSoulsSnapshot(t) PROVE SoulInv'
  <2> DEFINE s == [task[t] EXCEPT !.step = "souls_delete",
                                  !.doomed = IdsOf(souls[AgentOf(t)])]
  <2>1. UNCHANGED <<souls, wiped>> /\ ~task[t].keepSoul
    BY <1>8 DEF FlushSoulsSnapshot, SoulInv
  <2>2. IdsOf(souls[AgentOf(t)]) \in SUBSET RowId
    BY SoulRowsType, TaskType DEF IdsOf, SoulRow
  <2>3. s \in TaskState /\ s.step = "souls_delete" /\ ~s.keepSoul
    BY <2>1, <2>2, TaskType DEF TaskState, Step
  <2>4. task' = [task EXCEPT ![t] = s]
    BY <1>8 DEF FlushSoulsSnapshot
  <2>5. task'[t] = s /\ \A u \in Task \ {t} : task'[u] = task[u]
    BY <2>3, <2>4, MoveType
  <2>6. SoulVersionsWellFormed'
    BY <2>1 DEF SoulInv, SoulVersionsWellFormed
  <2> QED BY <2>1, <2>3, <2>5, <2>6 DEF SoulInv, At, AgentOf
<1>9. ASSUME NEW t \in Task, FlushSoulsDelete(t) PROVE SoulInv'
  <2> DEFINE a == AgentOf(t)
  <2>1. a \in Agent
    BY TaskType
  <2>2. task'[t].step = "idle" /\ \A u \in Task \ {t} : task'[u] = task[u]
    BY <1>0, <1>9, ReplyType DEF FlushSoulsDelete
  <2>3. /\ souls'[a] \subseteq souls[a] /\ wiped'[a]
        /\ \A b \in Agent \ {a} : souls'[b] = souls[b] /\ wiped'[b] = wiped[b]
    BY <1>9, <2>1 DEF FlushSoulsDelete, TypeInv, TypeOK
  <2>4. SoulVersionsWellFormed'
    BY <2>1, <2>3 DEF SoulInv, SoulVersionsWellFormed
  <2> QED BY <2>1, <2>2, <2>3, <2>4, TaskType DEF SoulInv, At, AgentOf
<1>10. ASSUME NEW t \in Task, Abort(t) PROVE SoulInv'
  BY <1>0, <1>10, ReplyType, SoulInvMove DEF Abort
<1>11. ASSUME NEW a \in Agent, CreateAgent(a) PROVE SoulInv'
  BY <1>1, <1>11 DEF CreateAgent
<1>12. ASSUME NEW c \in Client, ListNextPage(c) PROVE SoulInv'
  BY <1>1, <1>12 DEF ListNextPage
<1>13. ASSUME NEW c \in Client, NEW a \in Agent, NEW kinds \in SUBSET Kind,
              ListFirstPage(c, a, kinds)
       PROVE  SoulInv'
  BY <1>1, <1>13 DEF ListFirstPage
<1>14. CASE UNCHANGED vars
  BY <1>1, <1>14 DEF vars
<1> QED
  BY <1>2, <1>3, <1>4, <1>5, <1>6, <1>7, <1>8, <1>9, <1>10, <1>11, <1>12,
     <1>13, <1>14 DEF Next, Serve

LEMMA SoulInvariant == Spec => [](TypeInv /\ SoulInv)
  BY TypeInit, TypeStep, SoulInit, SoulStep, PTL DEF Spec

\* However many requests append, fail or are cancelled at once, a version
\* number names one row, and without a wipe the versions are 1..n.
THEOREM SoulVersionsSafe == Spec => []SoulVersionsWellFormed
<1>1. SoulInv => SoulVersionsWellFormed
  BY DEF SoulInv
<1> QED BY <1>1, SoulInvariant, PTL

-----------------------------------------------------------------------------
(* Which steps change the Soul table *)

LEMMA SoulTableSteps ==
    ASSUME TypeInv, SoulInv, [Next]_vars
    PROVE  \/ UNCHANGED <<souls, wiped>>
           \/ \E t \in Task : AppendSoulInsert(t) \/ FlushSoulsDelete(t)
  BY DEF Next, Serve, Arrive, vars, ghosts, CreateAgent, AppendSoulRequest,
         AppendSoulSnapshot, AppendEventRequest, Embed, AppendEventInsert,
         AppendEventCommit, AppendEventReadId, FlushRequest, FlushEventsSnapshot,
         FlushEventsDelete, FlushSoulsSnapshot, Abort, ListFirstPage, ListNextPage

\* A stored Soul version is lost only to the DELETE of a flush that was told
\* not to preserve the Soul and began after the version was stored.
THEOREM SoulNeverLost == Spec => SoulAppendOnly
<1> DEFINE Step1 == \A a \in Agent : \A r \in souls[a] \ souls'[a] :
                      \E t \in Task :
                        /\ task[t].agent = a /\ ~task[t].keepSoul
                        /\ task[t].step = "souls_delete"
                        /\ r.id \in task[t].doomed
<1>1. ASSUME TypeInv, SoulInv, [Next]_vars PROVE Step1
  <2>1. CASE UNCHANGED <<souls, wiped>>
    BY <2>1
  <2>2. ASSUME NEW t \in Task, AppendSoulInsert(t) PROVE Step1
    <3>1. ASSUME NEW a \in Agent PROVE souls[a] \subseteq souls'[a]
      <4>1. CASE UNCHANGED souls
        BY <4>1
      <4>2. CASE \E r : souls' = [souls EXCEPT ![AgentOf(t)] = @ \cup {r}]
        BY <1>1, <4>2 DEF TypeInv, TypeOK
      <4> QED BY <2>2, <4>1, <4>2 DEF AppendSoulInsert
    <3> QED BY <3>1
  <2>3. ASSUME NEW t \in Task, FlushSoulsDelete(t) PROVE Step1
    <3>1. task[t].step = "souls_delete" /\ ~task[t].keepSoul
      BY <1>1, <2>3 DEF FlushSoulsDelete, SoulInv, At
    <3>2. \A a \in Agent : \A r \in souls[a] \ souls'[a] :
             a = task[t].agent /\ r.id \in task[t].doomed
      BY <1>1, <2>3, TaskType DEF FlushSoulsDelete, TypeInv, TypeOK, AgentOf
    <3> QED BY <3>1, <3>2
  <2> QED BY <1>1, <2>1, <2>2, <2>3, SoulTableSteps
<1>2. TypeInv /\ SoulInv /\ [Next]_vars => [Step1]_vars
  BY <1>1
<1> QED BY <1>2, SoulInvariant, PTL DEF Spec, SoulAppendOnly

-----------------------------------------------------------------------------
(* The Soul tables implement the ledger of the AgentRuntime protocol *)

THEOREM ImplementsLedger == Spec => LedgerSpec
<1>1. Init => Ledger!LedgerInit
  BY DEF Init, Ledger!LedgerInit
<1>2. ASSUME TypeInv, SoulInv, [Next]_vars
      PROVE  [Ledger!LedgerNext]_(Ledger!ledgerVars)
  <2>1. CASE UNCHANGED <<souls, wiped>>
    BY <2>1 DEF Ledger!ledgerVars
  <2>2. ASSUME NEW t \in Task, AppendSoulInsert(t)
        PROVE  [Ledger!LedgerNext]_(Ledger!ledgerVars)
    <3>1. CASE task[t].version \in VersionsOf(souls[AgentOf(t)])
      BY <2>2, <3>1 DEF AppendSoulInsert, ghosts, Ledger!ledgerVars
    <3>2. CASE task[t].version \notin VersionsOf(souls[AgentOf(t)])
      <4>1. PICK r \in SoulRow :
               /\ r.version = task[t].version
               /\ souls' = [souls EXCEPT ![AgentOf(t)] = @ \cup {r}]
               /\ UNCHANGED wiped
               /\ ~wiped[AgentOf(t)] => IsNextVersion(r.version, souls[AgentOf(t)])
        BY <1>2, <2>2, <3>2, InsertEffect
      <4>2. Ledger!LedgerAppend(AgentOf(t), r)
        BY <3>2, <4>1 DEF Ledger!LedgerAppend, Ledger!IsNextVersion,
                          Ledger!VersionsOf, IsNextVersion, VersionsOf
      <4> QED BY <1>2, <4>2, TaskType DEF Ledger!LedgerNext
    <3> QED BY <3>1, <3>2
  <2>3. ASSUME NEW t \in Task, FlushSoulsDelete(t)
        PROVE  [Ledger!LedgerNext]_(Ledger!ledgerVars)
    <3> DEFINE kept == {r \in souls[AgentOf(t)] : r.id \notin task[t].doomed}
    <3>1. kept \in SUBSET souls[AgentOf(t)]
      OBVIOUS
    <3>2. souls' = [souls EXCEPT ![AgentOf(t)] = kept]
      BY <2>3 DEF FlushSoulsDelete
    <3>3. wiped' = [wiped EXCEPT ![AgentOf(t)] = TRUE]
      BY <2>3 DEF FlushSoulsDelete
    <3>4. Ledger!LedgerWipe(AgentOf(t))
      BY <3>1, <3>2, <3>3 DEF Ledger!LedgerWipe
    <3> QED BY <1>2, <3>4, TaskType DEF Ledger!LedgerNext
  <2> QED BY <1>2, <2>1, <2>2, <2>3, SoulTableSteps
<1> QED BY <1>1, <1>2, SoulInvariant, PTL DEF Spec, LedgerSpec, Ledger!LedgerSpec

-----------------------------------------------------------------------------
(* The event store and the walks over its pages *)

\* An id names one row of one agent.
IdsUnique ==
    \A a, b \in Agent : \A r \in events[a], q \in events[b] :
        r.id = q.id => a = b /\ r = q

\* Every id in circulation came from the sequence.
IdsGiven ==
    /\ \A a \in Agent : \A r \in events[a] : r.id <= eventSeq
    /\ \A c \in Client : \A r \in walk[c].due \cup walk[c].seen : r.id <= eventSeq

\* The id of an INSERT that has not committed yet is nobody else's.
PendingFresh ==
    \A t \in Task : At(t, "event_commit") =>
        /\ task[t].id <= eventSeq
        /\ \A b \in Agent : task[t].id \notin IdsOf(events[b])
        /\ \A c \in Client : task[t].id \notin IdsOf(walk[c].due \cup walk[c].seen)
        /\ \A u \in Task \ {t} : At(u, "event_commit") => task[u].id # task[t].id

\* What a walk has returned so far: everything due up to its cursor.
Covered(w) ==
    /\ \A r \in w.due : r.kind \in w.kinds
    /\ w.phase = "paging" =>
         \A r \in w.due \cap events[w.agent] : r.id <= w.cursor => r \in w.seen
    /\ w.phase = "complete" => w.due \cap events[w.agent] \subseteq w.seen

PagesCovered == \A c \in Client : Covered(walk[c])

\* Inductive strengthening of WalkComplete and FlushCountsExact.
EventInv ==
    IdsUnique /\ IdsGiven /\ PendingFresh /\ PagesCovered /\ FlushCountsExact

LEMMA EventInit == Init => EventInv
<1> SUFFICES ASSUME Init PROVE EventInv
  OBVIOUS
<1>1. \A t \in Task : task[t].step = "idle"
  BY DEF Init, AtRest
<1>2. \A c \in Client : walk[c].due = {} /\ walk[c].seen = {}
  BY DEF Init
<1>3. \A a \in Agent : events[a] = {} /\ stored[a] = 0 /\ deleted[a] = 0
  BY DEF Init
<1>4. IdsUnique /\ IdsGiven
  BY <1>2, <1>3 DEF IdsUnique, IdsGiven
<1>5. PendingFresh
  BY <1>1 DEF PendingFresh, At
<1>6. PagesCovered
  BY <1>2 DEF PagesCovered, Covered
<1>7. FlushCountsExact
  BY <1>3, FS_EmptySet DEF FlushCountsExact
<1> QED BY <1>4, <1>5, <1>6, <1>7 DEF EventInv

\* Steps that leave the event store and the walks alone, and start no INSERT.
Quiet ==
    /\ UNCHANGED <<events, eventSeq, walk, stored, deleted>>
    /\ \A u \in Task : task'[u].step = "event_commit" => task'[u] = task[u]

\* A request that moves to another step than "event_commit" is quiet.
LEMMA QuietMove ==
    ASSUME NEW t \in Task, UNCHANGED <<events, eventSeq, walk, stored, deleted>>,
           \A u \in Task \ {t} : task'[u] = task[u],
           task'[t].step # "event_commit"
    PROVE  Quiet
  BY DEF Quiet

LEMMA StepOfTask ==
    ASSUME TypeInv, NEW t \in Task, NEW s, task' = [task EXCEPT ![t] = s]
    PROVE  task'[t] = s /\ \A u \in Task \ {t} : task'[u] = task[u]
  BY DEF TypeInv, TypeOK

LEMMA ArriveQuiet ==
    ASSUME TypeInv, NEW t \in Task, NEW a \in Agent, Arrive(t, a)
    PROVE  Quiet
<1> USE DEF ghosts
<1>0. /\ "none" \in Outcome /\ "failed" \in Outcome /\ 0 \in 0..MaxRow
      /\ {"soul_snapshot", "embed", "events_snapshot"} \subseteq Step
  BY MaxRowAssumption DEF Outcome, Step
<1>1. AtRest("none", 0) \in TaskState
  BY <1>0, AtRestType
<1>2. ASSUME NEW confirmed \in BOOLEAN, AppendSoulRequest(t, a, confirmed)
      PROVE  Quiet
  <2>1. CASE confirmed
    BY <1>0, <1>1, <1>2, <2>1, QuietMove, AdmitType DEF AppendSoulRequest
  <2>2. CASE ~confirmed
    BY <1>0, <1>2, <2>2, QuietMove, ReplyType DEF AppendSoulRequest
  <2> QED BY <2>1, <2>2
<1>3. ASSUME NEW k \in Kind, AppendEventRequest(t, a, k) PROVE Quiet
  <2>1. [AtRest("none", 0) EXCEPT !.kind = k] \in TaskState
    BY <1>1 DEF TaskState
  <2> QED BY <1>0, <1>3, <2>1, QuietMove, AdmitType DEF AppendEventRequest
<1>4. ASSUME NEW keepSoul \in BOOLEAN, FlushRequest(t, a, keepSoul) PROVE Quiet
  <2>1. [AtRest("none", 0) EXCEPT !.keepSoul = keepSoul] \in TaskState
    BY <1>1 DEF TaskState
  <2> QED BY <1>0, <1>4, <2>1, QuietMove, AdmitType DEF FlushRequest
<1> QED BY <1>2, <1>3, <1>4 DEF Arrive

LEMMA ServeQuiet ==
    ASSUME TypeInv, NEW t \in Task,
           \/ AppendSoulSnapshot(t) \/ AppendSoulInsert(t) \/ Embed(t)
           \/ AppendEventReadId(t) \/ FlushEventsSnapshot(t)
           \/ FlushSoulsSnapshot(t) \/ FlushSoulsDelete(t) \/ Abort(t)
    PROVE  Quiet
<1> USE DEF ghosts
<1>0. task[t] \in TaskState /\ "failed" \in Outcome /\ "ok" \in Outcome /\ 0 \in 0..MaxRow
  BY TaskType, MaxRowAssumption DEF Outcome
<1>1. CASE AppendSoulSnapshot(t)
  <2>1. PICK v : task' = [task EXCEPT ![t] =
                            [@ EXCEPT !.step = "soul_insert", !.version = v]]
    BY <1>1 DEF AppendSoulSnapshot
  <2> DEFINE s == [task[t] EXCEPT !.step = "soul_insert", !.version = v]
  <2>2. s.step = "soul_insert" /\ task' = [task EXCEPT ![t] = s]
    BY <1>0, <2>1 DEF TaskState
  <2>3. task'[t].step = "soul_insert" /\ \A u \in Task \ {t} : task'[u] = task[u]
    BY <2>2, StepOfTask
  <2> QED BY <1>1, <2>3, QuietMove DEF AppendSoulSnapshot
<1>2. CASE AppendSoulInsert(t)
  <2>1. task[t].version \in 0..MaxRow
    BY <1>0 DEF TaskState
  <2>2. PICK outcome \in Outcome, replyId \in 0..MaxRow : Reply(t, outcome, replyId)
    BY <1>0, <1>2, <2>1 DEF AppendSoulInsert
  <2> QED BY <1>2, <2>2, ReplyType, QuietMove DEF AppendSoulInsert
<1>3. CASE Embed(t)
  <2>1. CASE Reply(t, "failed", 0)
    BY <1>0, <1>3, <2>1, ReplyType, QuietMove DEF Embed
  <2>2. CASE task' = [task EXCEPT ![t].step = "event_insert"]
    <3> DEFINE s == [task[t] EXCEPT !.step = "event_insert"]
    <3>1. s.step = "event_insert" /\ task' = [task EXCEPT ![t] = s]
      BY <1>0, <2>2 DEF TaskState
    <3> QED BY <1>3, <3>1, StepOfTask, QuietMove DEF Embed
  <2> QED BY <1>3, <2>1, <2>2 DEF Embed
<1>4. CASE AppendEventReadId(t)
  <2>1. CASE Reply(t, "failed", 0)
    BY <1>0, <1>4, <2>1, ReplyType, QuietMove DEF AppendEventReadId
  <2>2. CASE \E r \in events[AgentOf(t)] :
                task' = [task EXCEPT ![t] =
                      [@ EXCEPT !.step = "idle", !.outcome = "ok", !.replyId = r.id]]
    <3>1. PICK r : task' = [task EXCEPT ![t] =
                      [@ EXCEPT !.step = "idle", !.outcome = "ok", !.replyId = r.id]]
      BY <2>2
    <3> DEFINE s == [task[t] EXCEPT !.step = "idle", !.outcome = "ok", !.replyId = r.id]
    <3>2. s.step = "idle" /\ task' = [task EXCEPT ![t] = s]
      BY <1>0, <3>1 DEF TaskState
    <3>3. task'[t].step = "idle" /\ \A u \in Task \ {t} : task'[u] = task[u]
      BY <3>2, StepOfTask
    <3> QED BY <1>4, <3>3, QuietMove DEF AppendEventReadId
  <2> QED BY <1>4, <2>1, <2>2 DEF AppendEventReadId
<1>5. CASE FlushEventsSnapshot(t)
  <2> DEFINE s == [task[t] EXCEPT !.step = "events_delete",
                                  !.doomed = IdsOf(events[AgentOf(t)])]
  <2>1. s.step = "events_delete" /\ task' = [task EXCEPT ![t] = s]
    BY <1>0, <1>5 DEF TaskState, FlushEventsSnapshot
  <2> QED BY <1>5, <2>1, StepOfTask, QuietMove DEF FlushEventsSnapshot
<1>6. CASE FlushSoulsSnapshot(t)
  <2> DEFINE s == [task[t] EXCEPT !.step = "souls_delete",
                                  !.doomed = IdsOf(souls[AgentOf(t)])]
  <2>1. s.step = "souls_delete" /\ task' = [task EXCEPT ![t] = s]
    BY <1>0, <1>6 DEF TaskState, FlushSoulsSnapshot
  <2> QED BY <1>6, <2>1, StepOfTask, QuietMove DEF FlushSoulsSnapshot
<1>7. CASE FlushSoulsDelete(t)
  BY <1>0, <1>7, ReplyType, QuietMove DEF FlushSoulsDelete
<1>8. CASE Abort(t)
  BY <1>0, <1>8, ReplyType, QuietMove DEF Abort
<1> QED BY <1>1, <1>2, <1>3, <1>4, <1>5, <1>6, <1>7, <1>8

LEMMA EventTableSteps ==
    ASSUME TypeInv, [Next]_vars
    PROVE  \/ Quiet
           \/ \E t \in Task :
                AppendEventInsert(t) \/ AppendEventCommit(t) \/ FlushEventsDelete(t)
           \/ \E c \in Client :
                \/ ListNextPage(c)
                \/ \E a \in Agent, kinds \in SUBSET Kind : ListFirstPage(c, a, kinds)
<1>1. ASSUME NEW a \in Agent, CreateAgent(a) PROVE Quiet
  BY <1>1 DEF CreateAgent, Quiet, ghosts
<1>2. CASE UNCHANGED vars
  BY <1>2 DEF vars, Quiet
<1> QED BY <1>1, <1>2, ArriveQuiet, ServeQuiet DEF Next, Serve

LEMMA EventQuiet == ASSUME EventInv, Quiet PROVE EventInv'
<1>1. IdsUnique' /\ IdsGiven' /\ FlushCountsExact'
  BY DEF EventInv, Quiet, IdsUnique, IdsGiven, FlushCountsExact
<1>2. PagesCovered'
  BY DEF EventInv, Quiet, PagesCovered, Covered
<1>3. PendingFresh'
  BY DEF EventInv, Quiet, PendingFresh, At
<1> QED BY <1>1, <1>2, <1>3 DEF EventInv

LEMMA EventsType ==
    ASSUME TypeInv
    PROVE  /\ eventSeq \in Nat
           /\ \A a \in Agent : /\ events[a] \subseteq EventRow
                               /\ \A r \in events[a] : r.id \in Nat
           /\ \A c \in Client : /\ walk[c] \in WalkState
                                /\ \A r \in walk[c].due \cup walk[c].seen : r.id \in Nat
           /\ \A t \in Task : task[t].id \in Nat
<1>1. \A r \in EventRow : r.id \in Nat
  BY MaxRowAssumption DEF EventRow, RowId
<1>2. \A c \in Client : /\ walk[c] \in WalkState
                        /\ walk[c].due \cup walk[c].seen \subseteq EventRow
  BY DEF TypeInv, TypeOK, WalkState
<1>3. \A t \in Task : task[t].id \in Nat
  BY MaxRowAssumption DEF TypeInv, TypeOK, TaskState
<1> QED BY <1>1, <1>2, <1>3, MaxRowAssumption DEF TypeInv, TypeOK

\* The id an INSERT takes from the sequence is above all that were given.
LEMMA EventInsertKeeps ==
    ASSUME TypeInv, EventInv, NEW t \in Task, AppendEventInsert(t)
    PROVE  EventInv'
<1> DEFINE s == [task[t] EXCEPT !.step = "event_commit", !.id = eventSeq + 1]
<1>1. eventSeq' = eventSeq + 1 /\ UNCHANGED <<events, walk, stored, deleted>>
  BY DEF AppendEventInsert, ghosts
<1>2. s.id = eventSeq + 1 /\ task' = [task EXCEPT ![t] = s]
  BY TaskType DEF TaskState, AppendEventInsert
<1>3. task'[t].id = eventSeq + 1 /\ \A u \in Task \ {t} : task'[u] = task[u]
  BY <1>2, StepOfTask
<1>4. IdsUnique' /\ FlushCountsExact' /\ PagesCovered'
  BY <1>1 DEF EventInv, IdsUnique, FlushCountsExact, PagesCovered, Covered
<1>5. IdsGiven'
  BY <1>1, EventsType DEF EventInv, IdsGiven
<1>6. ASSUME NEW i, i = eventSeq + 1
      PROVE  /\ \A b \in Agent : i \notin IdsOf(events[b])
             /\ \A c \in Client : i \notin IdsOf(walk[c].due \cup walk[c].seen)
             /\ \A u \in Task : At(u, "event_commit") => task[u].id # i
  <2>1. \A j \in Nat : j <= eventSeq => j # i
    BY <1>6, EventsType
  <2>2. \A b \in Agent : i \notin IdsOf(events[b])
    BY <2>1, EventsType DEF EventInv, IdsGiven, IdsOf
  <2>3. \A c \in Client : i \notin IdsOf(walk[c].due \cup walk[c].seen)
    BY <2>1, EventsType DEF EventInv, IdsGiven, IdsOf
  <2>4. \A u \in Task : At(u, "event_commit") => task[u].id # i
    BY <2>1, EventsType DEF EventInv, PendingFresh
  <2> QED BY <2>2, <2>3, <2>4
<1>7. PendingFresh'
  <2> SUFFICES ASSUME NEW u \in Task, At(u, "event_commit")'
               PROVE  /\ task'[u].id <= eventSeq'
                      /\ \A b \in Agent : task'[u].id \notin IdsOf(events'[b])
                      /\ \A c \in Client :
                           task'[u].id \notin IdsOf(walk'[c].due \cup walk'[c].seen)
                      /\ \A v \in Task \ {u} :
                           At(v, "event_commit")' => task'[v].id # task'[u].id
    BY DEF PendingFresh, IdsOf
  <2>1. CASE u = t
    BY <1>1, <1>3, <1>6, <2>1, EventsType DEF At
  <2>2. CASE u # t
    BY <1>1, <1>3, <1>6, <2>2, EventsType DEF At, EventInv, PendingFresh
  <2> QED BY <2>1, <2>2
<1> QED BY <1>4, <1>5, <1>7 DEF EventInv

\* The row of a commit is new to the store and to every walk.
LEMMA CommitEffect ==
    ASSUME TypeInv, EventInv, NEW t \in Task, AppendEventCommit(t)
    PROVE  \E a \in Agent, r \in EventRow :
             /\ a = AgentOf(t) /\ r.id = task[t].id
             /\ events'[a] = events[a] \cup {r}
             /\ \A b \in Agent \ {a} : events'[b] = events[b]
             /\ stored'[a] = stored[a] + 1
             /\ \A b \in Agent \ {a} : stored'[b] = stored[b]
             /\ UNCHANGED <<eventSeq, walk, deleted>>
             /\ r.id <= eventSeq
             /\ \A b \in Agent : r.id \notin IdsOf(events[b])
             /\ \A c \in Client : r.id \notin IdsOf(walk[c].due \cup walk[c].seen)
             /\ task'[t].step # "event_commit"
             /\ \A u \in Task \ {t} : task'[u] = task[u]
             /\ \A u \in Task \ {t} : At(u, "event_commit") => task[u].id # r.id
<1> DEFINE a == AgentOf(t)
           r == [id |-> task[t].id, kind |-> task[t].kind]
           s == [task[t] EXCEPT !.step = "read_id"]
<1>1. a \in Agent /\ r \in EventRow /\ r.id = task[t].id /\ At(t, "event_commit")
  BY TaskType DEF AppendEventCommit, TaskState, EventRow
<1>2. events' = [events EXCEPT ![a] = @ \cup {r}] /\ stored' = [stored EXCEPT ![a] = @ + 1]
  BY DEF AppendEventCommit
<1>3. /\ events'[a] = events[a] \cup {r} /\ stored'[a] = stored[a] + 1
      /\ \A b \in Agent \ {a} : events'[b] = events[b] /\ stored'[b] = stored[b]
  BY <1>1, <1>2 DEF TypeInv, TypeOK
<1>4. s.step = "read_id" /\ task' = [task EXCEPT ![t] = s]
  BY TaskType DEF TaskState, AppendEventCommit
<1>5. task'[t].step = "read_id" /\ \A u \in Task \ {t} : task'[u] = task[u]
  BY <1>4, StepOfTask
<1>6. UNCHANGED <<eventSeq, walk, deleted>>
  BY DEF AppendEventCommit
<1>7. /\ r.id <= eventSeq
      /\ \A b \in Agent : r.id \notin IdsOf(events[b])
      /\ \A c \in Client : r.id \notin IdsOf(walk[c].due \cup walk[c].seen)
      /\ \A u \in Task \ {t} : At(u, "event_commit") => task[u].id # r.id
  BY <1>1 DEF EventInv, PendingFresh
<1> HIDE DEF a, r, s
<1> QED BY <1>1, <1>3, <1>5, <1>6, <1>7 DEF a

LEMMA EventCommitKeeps ==
    ASSUME TypeInv, EventInv, NEW t \in Task, AppendEventCommit(t)
    PROVE  EventInv'
<1>1. PICK a \in Agent, r \in EventRow :
        /\ events'[a] = events[a] \cup {r}
        /\ \A b \in Agent \ {a} : events'[b] = events[b]
        /\ stored'[a] = stored[a] + 1
        /\ \A b \in Agent \ {a} : stored'[b] = stored[b]
        /\ UNCHANGED <<eventSeq, walk, deleted>>
        /\ r.id <= eventSeq
        /\ \A b \in Agent : r.id \notin IdsOf(events[b])
        /\ \A c \in Client : r.id \notin IdsOf(walk[c].due \cup walk[c].seen)
        /\ task'[t].step # "event_commit"
        /\ \A u \in Task \ {t} : task'[u] = task[u]
        /\ \A u \in Task \ {t} : At(u, "event_commit") => task[u].id # r.id
  BY CommitEffect, SMTT(40)
<1>2. IdsUnique'
  <2> SUFFICES ASSUME NEW b \in Agent, NEW d \in Agent,
                      NEW p \in events'[b], NEW q \in events'[d], p.id = q.id
               PROVE  b = d /\ p = q
    BY DEF IdsUnique
  <2>1. /\ p \in events[b] \/ (b = a /\ p = r)
        /\ q \in events[d] \/ (d = a /\ q = r)
    BY <1>1
  <2>2. \A x \in Agent : \A y \in events[x] : y.id # r.id
    BY <1>1 DEF IdsOf
  <2> QED BY <2>1, <2>2 DEF EventInv, IdsUnique
<1>3. IdsGiven'
  BY <1>1 DEF EventInv, IdsGiven
<1>4. PendingFresh'
  <2> SUFFICES ASSUME NEW u \in Task, At(u, "event_commit")'
               PROVE  /\ task'[u].id <= eventSeq'
                      /\ \A b \in Agent : task'[u].id \notin IdsOf(events'[b])
                      /\ \A c \in Client :
                           task'[u].id \notin IdsOf(walk'[c].due \cup walk'[c].seen)
                      /\ \A v \in Task \ {u} :
                           At(v, "event_commit")' => task'[v].id # task'[u].id
    BY DEF PendingFresh, IdsOf
  <2>1. u # t /\ task'[u] = task[u] /\ At(u, "event_commit") /\ task[u].id # r.id
    BY <1>1 DEF At
  <2>2. \A b \in Agent : task[u].id \notin IdsOf(events'[b])
    <3>1. \A b \in Agent : IdsOf(events'[b]) \subseteq IdsOf(events[b]) \cup {r.id}
      BY <1>1 DEF IdsOf
    <3> QED BY <2>1, <3>1 DEF EventInv, PendingFresh
  <2>3. \A v \in Task \ {u} : At(v, "event_commit")' => v # t /\ task'[v] = task[v]
    BY <1>1 DEF At
  <2> QED BY <1>1, <2>1, <2>2, <2>3 DEF At, EventInv, PendingFresh
<1>5. PagesCovered'
  <2> SUFFICES ASSUME NEW c \in Client PROVE Covered(walk[c])'
    BY DEF PagesCovered
  <2>1. walk'[c] = walk[c] /\ walk[c].agent \in Agent
    BY <1>1, EventsType DEF WalkState
  <2>2. r \notin walk[c].due
    BY <1>1 DEF IdsOf
  <2>3. walk[c].due \cap events'[walk[c].agent] = walk[c].due \cap events[walk[c].agent]
    BY <1>1, <2>1, <2>2
  <2>4. Covered(walk[c])
    BY DEF EventInv, PagesCovered
  <2> QED BY <2>1, <2>3, <2>4 DEF Covered
<1>6. FlushCountsExact'
  <2> SUFFICES ASSUME NEW b \in Agent
               PROVE  stored'[b] = Cardinality(events'[b]) + deleted'[b]
    BY DEF FlushCountsExact
  <2>0. stored[b] = Cardinality(events[b]) + deleted[b]
    BY DEF EventInv, FlushCountsExact
  <2>1. IsFiniteSet(events[b]) /\ stored[b] \in Nat /\ deleted[b] \in Nat
    BY DEF TypeInv, TypeOK
  <2>2. CASE b = a
    <3>1. r \notin events[b]
      BY <1>1 DEF IdsOf
    <3>2. Cardinality(events[b] \cup {r}) = Cardinality(events[b]) + 1
      BY <2>1, <3>1, FS_AddElement
    <3>3. Cardinality(events[b]) \in Nat
      BY <2>1, FS_CardinalityType
    <3>4. events'[b] = events[b] \cup {r} /\ stored'[b] = stored[b] + 1
          /\ deleted'[b] = deleted[b]
      BY <1>1, <2>2
    <3>5. Cardinality(events'[b]) = Cardinality(events[b]) + 1
      BY <3>2, <3>4
    <3> QED BY <2>0, <2>1, <3>3, <3>4, <3>5
  <2>3. CASE b # a
    BY <1>1, <2>0, <2>3
  <2> QED BY <2>2, <2>3
<1> QED BY <1>2, <1>3, <1>4, <1>5, <1>6 DEF EventInv

\* A flush removes rows and counts exactly those.
LEMMA DeleteEffect ==
    ASSUME TypeInv, NEW t \in Task, FlushEventsDelete(t)
    PROVE  \E a \in Agent, gone \in SUBSET EventRow :
             /\ gone \subseteq events[a]
             /\ events'[a] = events[a] \ gone
             /\ \A b \in Agent \ {a} : events'[b] = events[b]
             /\ deleted'[a] = deleted[a] + Cardinality(gone)
             /\ \A b \in Agent \ {a} : deleted'[b] = deleted[b]
             /\ UNCHANGED <<eventSeq, walk, stored>>
             /\ task'[t].step # "event_commit"
             /\ \A u \in Task \ {t} : task'[u] = task[u]
<1> DEFINE a == AgentOf(t)
           gone == {r \in events[a] : r.id \in task[t].doomed}
           s == [task[t] EXCEPT !.step = "souls_snapshot", !.doomed = {}]
<1>1. /\ a \in Agent /\ gone \subseteq events[a] /\ gone \in SUBSET EventRow
      /\ "ok" \in Outcome /\ 0 \in 0..MaxRow
  BY TaskType, EventsType, MaxRowAssumption DEF Outcome
<1>2. /\ events' = [events EXCEPT ![a] = @ \ gone]
      /\ deleted' = [deleted EXCEPT ![a] = @ + Cardinality(gone)]
  BY DEF FlushEventsDelete
<1>3. /\ events'[a] = events[a] \ gone /\ deleted'[a] = deleted[a] + Cardinality(gone)
      /\ \A b \in Agent \ {a} : events'[b] = events[b] /\ deleted'[b] = deleted[b]
  BY <1>1, <1>2 DEF TypeInv, TypeOK
<1>4. task'[t].step # "event_commit" /\ \A u \in Task \ {t} : task'[u] = task[u]
  <2>1. CASE Reply(t, "ok", 0)
    BY <1>1, <2>1, ReplyType
  <2>2. CASE task' = [task EXCEPT ![t] = s]
    <3>1. s.step = "souls_snapshot"
      BY TaskType DEF TaskState
    <3> QED BY <2>2, <3>1, StepOfTask
  <2> QED BY <2>1, <2>2 DEF FlushEventsDelete
<1>5. UNCHANGED <<eventSeq, walk, stored>>
  BY DEF FlushEventsDelete
<1> HIDE DEF a, gone
<1> QED BY <1>1, <1>3, <1>4, <1>5

LEMMA EventDeleteKeeps ==
    ASSUME TypeInv, EventInv, NEW t \in Task, FlushEventsDelete(t)
    PROVE  EventInv'
<1>1. PICK a \in Agent, gone \in SUBSET EventRow :
        /\ gone \subseteq events[a]
        /\ events'[a] = events[a] \ gone
        /\ \A b \in Agent \ {a} : events'[b] = events[b]
        /\ deleted'[a] = deleted[a] + Cardinality(gone)
        /\ \A b \in Agent \ {a} : deleted'[b] = deleted[b]
        /\ UNCHANGED <<eventSeq, walk, stored>>
        /\ task'[t].step # "event_commit"
        /\ \A u \in Task \ {t} : task'[u] = task[u]
  BY DeleteEffect
<1>2. \A b \in Agent : events'[b] \subseteq events[b]
  BY <1>1
<1>3. IdsUnique' /\ IdsGiven'
  BY <1>1, <1>2 DEF EventInv, IdsUnique, IdsGiven
<1>4. PendingFresh'
  <2>1. \A b \in Agent : IdsOf(events'[b]) \subseteq IdsOf(events[b])
    BY <1>2 DEF IdsOf
  <2>2. \A v \in Task : At(v, "event_commit")' => At(v, "event_commit") /\ task'[v] = task[v]
    BY <1>1 DEF At
  <2>3. \A c \in Client : walk'[c] = walk[c]
    BY <1>1
  <2> QED BY <1>1, <2>1, <2>2, <2>3 DEF EventInv, PendingFresh
<1>5. PagesCovered'
  <2> SUFFICES ASSUME NEW c \in Client PROVE Covered(walk[c])'
    BY DEF PagesCovered
  <2>1. walk'[c] = walk[c] /\ walk[c].agent \in Agent
    BY <1>1, EventsType DEF WalkState
  <2>2. events'[walk[c].agent] \subseteq events[walk[c].agent]
    BY <1>2, <2>1
  <2>3. Covered(walk[c])
    BY DEF EventInv, PagesCovered
  <2> QED BY <2>1, <2>2, <2>3 DEF Covered
<1>6. FlushCountsExact'
  <2> SUFFICES ASSUME NEW b \in Agent
               PROVE  stored'[b] = Cardinality(events'[b]) + deleted'[b]
    BY DEF FlushCountsExact
  <2>0. stored[b] = Cardinality(events[b]) + deleted[b] /\ stored'[b] = stored[b]
    BY <1>1 DEF EventInv, FlushCountsExact
  <2>1. IsFiniteSet(events[b]) /\ stored[b] \in Nat /\ deleted[b] \in Nat
    BY DEF TypeInv, TypeOK
  <2>2. CASE b = a
    <3>1. IsFiniteSet(gone) /\ Cardinality(gone) \in Nat /\ Cardinality(events[b]) \in Nat
      BY <1>1, <2>1, <2>2, FS_Subset, FS_CardinalityType
    <3>2. events[b] \cap gone = gone
      BY <1>1, <2>2
    <3>3. Cardinality(events[b] \ gone) = Cardinality(events[b]) - Cardinality(gone)
      BY <2>1, <3>2, FS_Difference
    <3>4. Cardinality(events'[b]) = Cardinality(events[b]) - Cardinality(gone)
      BY <1>1, <2>2, <3>3
    <3>5. deleted'[b] = deleted[b] + Cardinality(gone)
      BY <1>1, <2>2
    <3> QED BY <2>0, <2>1, <3>1, <3>4, <3>5
  <2>3. CASE b # a
    BY <1>1, <2>0, <2>3
  <2> QED BY <2>2, <2>3
<1> QED BY <1>3, <1>4, <1>5, <1>6 DEF EventInv

\* The walk after one page: the page is the lowest rows above the cursor, so
\* what was due below the new cursor has been returned.
LEMMA PageCovers ==
    ASSUME TypeInv, EventInv, NEW c \in Client, NEW w \in WalkState, ServePage(c, w),
           Covered(w), w.phase = "paging",
           \A r \in w.due \cup w.seen : r.id <= eventSeq,
           UNCHANGED <<events, eventSeq>>
    PROVE  /\ Covered(walk[c])'
           /\ \A r \in walk'[c].due \cup walk'[c].seen : r.id <= eventSeq
           /\ IdsOf(walk'[c].due \cup walk'[c].seen) \subseteq
                IdsOf(w.due \cup w.seen) \cup IdsOf(events[w.agent])
           /\ \A d \in Client \ {c} : walk'[d] = walk[d]
<1> DEFINE rows == Matching(w.agent, w.kinds, w.cursor)
<1>1. PICK page \in SUBSET rows :
         /\ IsPage(page, rows)
         /\ \/ /\ page = rows
               /\ walk' = [walk EXCEPT ![c] =
                     [w EXCEPT !.seen = @ \cup page, !.cursor = 0, !.phase = "complete"]]
            \/ /\ page # rows
               /\ \E last \in page :
                     /\ IsNewest(last, page)
                     /\ walk' = [walk EXCEPT ![c] =
                           [w EXCEPT !.seen = @ \cup page, !.cursor = last.id]]
  BY DEF ServePage
<1>2. rows \subseteq events[w.agent] /\ w.agent \in Agent
  BY DEF Matching, WalkState
<1>3. ASSUME NEW v, v.due = w.due, v.seen = w.seen \cup page,
             v.agent = w.agent, v.kinds = w.kinds
      PROVE  /\ \A r \in v.due \cup v.seen : r.id <= eventSeq
             /\ IdsOf(v.due \cup v.seen) \subseteq
                  IdsOf(w.due \cup w.seen) \cup IdsOf(events[w.agent])
  BY <1>2, <1>3 DEF IdsOf, EventInv, IdsGiven
<1>4. \A r \in w.due \cap events[w.agent] :
         r.id \in Nat /\ w.cursor \in Nat /\ (r.id <= w.cursor => r \in w.seen)
         /\ (~(r.id <= w.cursor) => r \in rows)
  BY <1>2, EventsType, MaxRowAssumption DEF Covered, Matching, WalkState
<1>5. CASE /\ page = rows
           /\ walk' = [walk EXCEPT ![c] =
                 [w EXCEPT !.seen = @ \cup page, !.cursor = 0, !.phase = "complete"]]
  <2> DEFINE v == [w EXCEPT !.seen = @ \cup page, !.cursor = 0, !.phase = "complete"]
  <2>1. /\ v.due = w.due /\ v.seen = w.seen \cup page /\ v.agent = w.agent
        /\ v.kinds = w.kinds /\ v.phase = "complete"
    BY DEF WalkState
  <2>2. walk'[c] = v /\ \A d \in Client \ {c} : walk'[d] = walk[d]
    BY <1>5 DEF TypeInv, TypeOK
  <2> HIDE DEF v
  <2>3. v.due \cap events[v.agent] \subseteq v.seen
    BY <1>4, <1>5, <2>1
  <2>4. Covered(walk[c])'
    BY <2>1, <2>2, <2>3 DEF Covered
  <2> QED BY <1>3, <2>1, <2>2, <2>4
<1>6. CASE \E last \in page :
             /\ IsNewest(last, page)
             /\ walk' = [walk EXCEPT ![c] =
                   [w EXCEPT !.seen = @ \cup page, !.cursor = last.id]]
  <2>1. PICK last \in page :
             /\ IsNewest(last, page)
             /\ walk' = [walk EXCEPT ![c] =
                   [w EXCEPT !.seen = @ \cup page, !.cursor = last.id]]
    BY <1>6
  <2> DEFINE v == [w EXCEPT !.seen = @ \cup page, !.cursor = last.id]
  <2>2. /\ v.due = w.due /\ v.seen = w.seen \cup page /\ v.agent = w.agent
        /\ v.kinds = w.kinds /\ v.phase = "paging" /\ v.cursor = last.id
    BY DEF WalkState
  <2>3. walk'[c] = v /\ \A d \in Client \ {c} : walk'[d] = walk[d]
    BY <2>1 DEF TypeInv, TypeOK
  <2> HIDE DEF v
  <2>4. ASSUME NEW r \in v.due \cap events[v.agent], r.id <= v.cursor
        PROVE  r \in v.seen
    <3>1. CASE r.id <= w.cursor
      BY <1>4, <2>2, <2>4, <3>1
    <3>2. CASE r \in page
      BY <2>2, <3>2
    <3>3. CASE r \in rows \ page
      <4>1. last.id < r.id
        BY <1>1, <3>3 DEF IsPage
      <4>2. last.id \in Nat /\ r.id \in Nat
        BY <1>2, <3>3, EventsType
      <4> QED BY <2>2, <2>4, <4>1, <4>2
    <3> QED BY <1>4, <2>2, <2>4, <3>1, <3>2, <3>3
  <2>5. Covered(walk[c])'
    BY <2>2, <2>3, <2>4 DEF Covered
  <2> QED BY <1>3, <2>2, <2>3, <2>5
<1> QED BY <1>1, <1>5, <1>6

\* One GET of a page, from the state w the walk is in.
LEMMA ServePageKeeps ==
    ASSUME TypeInv, EventInv, NEW c \in Client, NEW w \in WalkState, ServePage(c, w),
           Covered(w), w.phase = "paging",
           IdsOf(w.due \cup w.seen) \subseteq
              IdsOf(walk[c].due \cup walk[c].seen) \cup IdsOf(events[w.agent]),
           \A r \in w.due \cup w.seen : r.id <= eventSeq,
           UNCHANGED <<events, eventSeq, task, stored, deleted>>
    PROVE  EventInv'
<1>1. /\ Covered(walk[c])'
      /\ \A r \in walk'[c].due \cup walk'[c].seen : r.id <= eventSeq
      /\ IdsOf(walk'[c].due \cup walk'[c].seen) \subseteq
            IdsOf(walk[c].due \cup walk[c].seen) \cup IdsOf(events[w.agent])
      /\ \A d \in Client \ {c} : walk'[d] = walk[d]
  BY PageCovers
<1>2. IdsUnique' /\ FlushCountsExact'
  BY DEF EventInv, IdsUnique, FlushCountsExact
<1>3. IdsGiven'
  BY <1>1 DEF EventInv, IdsGiven
<1>4. PagesCovered'
  <2> SUFFICES ASSUME NEW d \in Client, d # c PROVE Covered(walk[d])'
    BY <1>1 DEF PagesCovered
  <2> QED BY <1>1 DEF EventInv, PagesCovered, Covered
<1>5. PendingFresh'
  <2> SUFFICES ASSUME NEW t \in Task, At(t, "event_commit"), NEW d \in Client
               PROVE  task[t].id \notin IdsOf(walk'[d].due \cup walk'[d].seen)
    BY DEF EventInv, PendingFresh, At, IdsOf
  <2>1. task[t].id \notin IdsOf(events[w.agent])
    BY DEF EventInv, PendingFresh, WalkState
  <2>2. task[t].id \notin IdsOf(walk[d].due \cup walk[d].seen)
    BY DEF EventInv, PendingFresh
  <2> QED BY <1>1, <2>1, <2>2
<1> QED BY <1>2, <1>3, <1>4, <1>5 DEF EventInv

LEMMA EventStep == TypeInv /\ EventInv /\ [Next]_vars => EventInv'
<1> SUFFICES ASSUME TypeInv, EventInv, [Next]_vars PROVE EventInv'
  OBVIOUS
<1>1. ASSUME NEW c \in Client, ListNextPage(c) PROVE EventInv'
  <2>1. walk[c] \in WalkState /\ walk[c].phase = "paging"
    BY <1>1, EventsType DEF ListNextPage
  <2>2. Covered(walk[c]) /\ \A r \in walk[c].due \cup walk[c].seen : r.id <= eventSeq
    BY DEF EventInv, PagesCovered, IdsGiven
  <2>3. ServePage(c, walk[c]) /\ UNCHANGED <<events, eventSeq, task, stored, deleted>>
    BY <1>1 DEF ListNextPage, ghosts
  <2> QED BY <2>1, <2>2, <2>3, ServePageKeeps
<1>2. ASSUME NEW c \in Client, NEW a \in Agent, NEW kinds \in SUBSET Kind,
             ListFirstPage(c, a, kinds)
      PROVE  EventInv'
  <2> DEFINE w == [phase |-> "paging", agent |-> a, kinds |-> kinds,
                   cursor |-> 0, due |-> Matching(a, kinds, 0), seen |-> {}]
  <2>1. Matching(a, kinds, 0) \subseteq events[a]
    BY DEF Matching
  <2>2. w \in WalkState
    BY <2>1, EventsType, MaxRowAssumption DEF WalkState
  <2>3. \A r \in w.due : r.kind \in w.kinds /\ ~(r.id <= w.cursor)
    BY EventsType DEF Matching
  <2>4. Covered(w)
    BY <2>3 DEF Covered
  <2>5. \A r \in w.due \cup w.seen : r.id <= eventSeq
    BY <2>1 DEF EventInv, IdsGiven
  <2>6. IdsOf(w.due \cup w.seen) \subseteq IdsOf(events[w.agent])
    BY <2>1 DEF IdsOf
  <2>7. ServePage(c, w) /\ UNCHANGED <<events, eventSeq, task, stored, deleted>>
    BY <1>2 DEF ListFirstPage, ghosts
  <2>8. w.phase = "paging"
    OBVIOUS
  <2> HIDE DEF w
  <2> QED BY <2>2, <2>4, <2>5, <2>6, <2>7, <2>8, ServePageKeeps
<1> QED BY <1>1, <1>2, EventTableSteps, EventQuiet, EventInsertKeeps,
           EventCommitKeeps, EventDeleteKeeps

LEMMA EventInvariant == Spec => [](TypeInv /\ EventInv)
  BY TypeInit, TypeStep, EventInit, EventStep, PTL DEF Spec

\* However flushes of one agent overlap with each other and with appends,
\* each stored event is either there or counted by exactly one of them.
THEOREM FlushNeverCountsTwice == Spec => []FlushCountsExact
<1>1. EventInv => FlushCountsExact
  BY DEF EventInv
<1> QED BY <1>1, EventInvariant, PTL

\* A walk over the pages of GET /memory/events misses nothing that was stored
\* when it began and still is at its end, for any page size.
THEOREM WalksMissNothing == Spec => []WalkComplete
<1>1. EventInv => WalkComplete
  BY DEF EventInv, PagesCovered, Covered, WalkComplete
<1> QED BY <1>1, EventInvariant, PTL

\* No event gets the id of a stored event, or of one a walk has returned.
THEOREM EventIdsGivenOnce == Spec => EventIdsNeverReused
<1> DEFINE Fresh == \A a \in Agent : \A r \in events'[a] \ events[a] :
                      \A b \in Agent :
                         /\ r.id \notin IdsOf(events[b])
                         /\ \A c \in Client : r.id \notin IdsOf(walk[c].seen)
<1>1. ASSUME TypeInv, EventInv, [Next]_vars PROVE Fresh
  <2>1. CASE UNCHANGED events
    BY <2>1
  <2>2. ASSUME NEW t \in Task, AppendEventCommit(t) PROVE Fresh
    <3>1. PICK a \in Agent, r \in EventRow :
            /\ events'[a] = events[a] \cup {r}
            /\ \A b \in Agent \ {a} : events'[b] = events[b]
            /\ \A b \in Agent : r.id \notin IdsOf(events[b])
            /\ \A c \in Client : r.id \notin IdsOf(walk[c].due \cup walk[c].seen)
      BY <1>1, <2>2, CommitEffect
    <3>2. \A c \in Client : IdsOf(walk[c].seen) \subseteq IdsOf(walk[c].due \cup walk[c].seen)
      BY DEF IdsOf
    <3>3. \A b \in Agent : \A q \in events'[b] \ events[b] : q = r
      BY <3>1
    <3> QED BY <3>1, <3>2, <3>3
  <2>3. ASSUME NEW t \in Task, FlushEventsDelete(t) PROVE Fresh
    <3>1. PICK a \in Agent, gone \in SUBSET EventRow :
            /\ events'[a] = events[a] \ gone
            /\ \A b \in Agent \ {a} : events'[b] = events[b]
      BY <1>1, <2>3, DeleteEffect
    <3> QED BY <3>1
  <2> QED BY <1>1, <2>1, <2>2, <2>3, EventTableSteps
          DEF Quiet, AppendEventInsert, ListNextPage, ListFirstPage
<1>2. TypeInv /\ EventInv /\ [Next]_vars => [Fresh]_vars
  BY <1>1
<1> QED BY <1>2, EventInvariant, PTL DEF Spec, EventIdsNeverReused
=============================================================================
