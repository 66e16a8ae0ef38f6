--------------------------- MODULE PgAgentRuntime ---------------------------
(***************************************************************************)
(* PgAgentRuntime: the Postgres-backed AgentRuntime of agentcook           *)
(* (agentcook/src/agentcook_app/runtime_pg.py) with the event store it     *)
(* delegates to (agentcook-storage/.../memory_store.py) and the schema of  *)
(* alembic migration 0001.                                                 *)
(*                                                                         *)
(* Every HTTP request is a task on the event loop.  Each SQL statement is  *)
(* its own autocommit transaction at READ COMMITTED, and every "await"     *)
(* lets another task, in this process or another replica, run in between.  *)
(* A writing statement is two steps: it takes its snapshot, then its       *)
(* effect commits.                                                         *)
(***************************************************************************)
EXTENDS Naturals, FiniteSets

CONSTANTS
    Agent,      \* agent identifiers
    Task,       \* requests being served at the same time
    Client,     \* clients that walk GET /memory/events with cursors
    Kind,       \* kinds of memory events
    Ops,        \* the write operations the workload uses
    PageSize,   \* the "limit" query parameter
    MaxRow      \* bound: last value of either BIGSERIAL sequence

ASSUME PageSizeAssumption == PageSize \in Nat \ {0}
ASSUME MaxRowAssumption == MaxRow \in Nat
ASSUME NonEmptyAssumption == Agent # {} /\ Kind # {}

VARIABLES
    agents,     \* primary keys present in table agents
    souls,      \* souls[a]: rows of soul_versions with agent_id = a
    soulSeq,    \* last value of the sequence behind soul_versions.id
    events,     \* events[a]: committed rows of memory_events
    eventSeq,   \* last value of the sequence behind memory_events.id
    task,       \* task[t]: the request t is serving, and how far it is
    walk,       \* walk[c]: client c's walk over the event pages
    wiped,      \* wiped[a]: a DELETE FROM soul_versions has committed for a
    stored,     \* stored[a]: how many events were ever committed for a
    deleted     \* deleted[a]: sum of the deleted_event_count reported for a

vars == <<agents, souls, soulSeq, events, eventSeq, task, walk,
          wiped, stored, deleted>>
ghosts == <<wiped, stored, deleted>>

RowId == 1..MaxRow
SoulRow == [id : RowId, version : RowId]
EventRow == [id : RowId, kind : Kind]

Step == {"idle", "soul_snapshot", "soul_insert", "embed", "event_insert",
         "event_commit", "read_id", "events_snapshot", "events_delete",
         "souls_snapshot", "souls_delete"}
Outcome == {"none", "ok", "failed"}

\* One shape for all requests; a field no operation is using is at rest.
TaskState ==
    [step : Step, agent : Agent, keepSoul : BOOLEAN, kind : Kind,
     version : 0..MaxRow, id : 0..MaxRow, doomed : SUBSET RowId,
     outcome : Outcome, replyId : 0..MaxRow]

WalkState ==
    [phase : {"off", "paging", "complete"}, agent : Agent,
     kinds : SUBSET Kind, cursor : 0..MaxRow,
     due : SUBSET EventRow, seen : SUBSET EventRow]

TypeOK ==
    /\ agents \subseteq Agent
    /\ souls \in [Agent -> SUBSET SoulRow]
    /\ soulSeq \in 0..MaxRow
    /\ events \in [Agent -> SUBSET EventRow]
    /\ eventSeq \in 0..MaxRow
    /\ task \in [Task -> TaskState]
    /\ walk \in [Client -> WalkState]
    /\ wiped \in [Agent -> BOOLEAN]
    /\ stored \in [Agent -> Nat]
    /\ deleted \in [Agent -> Nat]

AnAgent == CHOOSE a \in Agent : TRUE
AKind == CHOOSE k \in Kind : TRUE

AtRest(outcome, replyId) ==
    [step |-> "idle", agent |-> AnAgent, keepSoul |-> TRUE, kind |-> AKind,
     version |-> 0, id |-> 0, doomed |-> {}, outcome |-> outcome,
     replyId |-> replyId]

Init ==
    /\ agents = {}
    /\ souls = [a \in Agent |-> {}]
    /\ soulSeq = 0
    /\ events = [a \in Agent |-> {}]
    /\ eventSeq = 0
    /\ task = [t \in Task |-> AtRest("none", 0)]
    /\ walk = [c \in Client |-> [phase |-> "off", agent |-> AnAgent,
                                 kinds |-> {}, cursor |-> 0,
                                 due |-> {}, seen |-> {}]]
    /\ wiped = [a \in Agent |-> FALSE]
    /\ stored = [a \in Agent |-> 0]
    /\ deleted = [a \in Agent |-> 0]

-----------------------------------------------------------------------------
(* Helpers *)

Idle(t) == task[t].step = "idle"
At(t, step) == task[t].step = step
AgentOf(t) == task[t].agent

\* The request of t ends; what it was holding is dropped.
Reply(t, outcome, replyId) ==
    task' = [task EXCEPT ![t] = AtRest(outcome, replyId)]

\* _require_agent, the first query of every operation, answers 404 or lets
\* the request go on at "step".
Admit(t, a, step, request) ==
    task' = [task EXCEPT ![t] =
                IF a \in agents
                THEN [request EXCEPT !.step = step, !.agent = a]
                ELSE AtRest("failed", 0)]

VersionsOf(rows) == {r.version : r \in rows}
IdsOf(rows) == {r.id : r \in rows}

\* The value v of COALESCE((SELECT MAX(version) ...), 0) + 1.
IsNextVersion(v, rows) ==
    /\ \A u \in VersionsOf(rows) : u < v
    /\ v = 1 \/ v - 1 \in VersionsOf(rows)

IsNewest(r, rows) == r \in rows /\ \A q \in rows : q.id <= r.id

-----------------------------------------------------------------------------
(* Agents: INSERT INTO agents; a second INSERT fails on the primary key and
   a trigger refuses every UPDATE. *)

CreateAgent(a) ==
    /\ agents' = agents \cup {a}
    /\ UNCHANGED <<souls, soulSeq, events, eventSeq, task, walk, ghosts>>

-----------------------------------------------------------------------------
(* append_soul *)

\* POST /soul answers 412 without X-Confirm-Identity-Change, before the
\* runtime is called.
AppendSoulRequest(t, a, confirmed) ==
    /\ Idle(t) /\ "append_soul" \in Ops
    /\ IF confirmed
       THEN Admit(t, a, "soul_snapshot", AtRest("none", 0))
       ELSE Reply(t, "failed", 0)
    /\ UNCHANGED <<agents, souls, soulSeq, events, eventSeq, walk, ghosts>>

\* The INSERT's sub-select reads MAX(version) from the statement's snapshot.
AppendSoulSnapshot(t) ==
    /\ At(t, "soul_snapshot")
    /\ \E v \in RowId :
        /\ IsNextVersion(v, souls[AgentOf(t)])
        /\ task' = [task EXCEPT ![t] =
                    [@ EXCEPT !.step = "soul_insert", !.version = v]]
    /\ UNCHANGED <<agents, souls, soulSeq, events, eventSeq, walk, ghosts>>

\* Slips a check must notice: no UNIQUE constraint; ON CONFLICT DO UPDATE; the
\* version counted one too far.
AppendSoulInsertUnchecked(t) ==
    /\ At(t, "soul_insert")
    /\ soulSeq < MaxRow
    /\ soulSeq' = soulSeq + 1
    /\ souls' = [souls EXCEPT ![AgentOf(t)] =
                   @ \cup {[id |-> soulSeq + 1, version |-> task[t].version]}]
    /\ Reply(t, "ok", task[t].version)
    /\ UNCHANGED <<agents, events, eventSeq, walk, ghosts>>
AppendSoulUpsert(t) ==
    /\ At(t, "soul_insert")
    /\ soulSeq < MaxRow
    /\ soulSeq' = soulSeq + 1
    /\ souls' = [souls EXCEPT ![AgentOf(t)] =
                   {r \in @ : r.version # task[t].version}
                   \cup {[id |-> soulSeq + 1, version |-> task[t].version]}]
    /\ Reply(t, "ok", task[t].version)
    /\ UNCHANGED <<agents, events, eventSeq, walk, ghosts>>
AppendSoulInsertPlusOne(t) ==
    /\ At(t, "soul_insert")
    /\ soulSeq < MaxRow
    /\ soulSeq' = soulSeq + 1
    /\ souls' = [souls EXCEPT ![AgentOf(t)] =
                   @ \cup {[id |-> soulSeq + 1, version |-> task[t].version + 1]}]
    /\ Reply(t, "ok", task[t].version)
    /\ UNCHANGED <<agents, events, eventSeq, walk, ghosts>>

\* The row is written and committed, unless another request has committed
\* the same version meanwhile: UNIQUE (agent_id, version).
AppendSoulInsert(t) ==
    LET a == AgentOf(t)
        taken == task[t].version \in VersionsOf(souls[a])
    IN  /\ At(t, "soul_insert")
        /\ soulSeq < MaxRow
        /\ soulSeq' = soulSeq + 1
        /\ IF taken
           THEN Reply(t, "failed", 0) /\ UNCHANGED souls
           ELSE /\ souls' = [souls EXCEPT ![a] =
                     @ \cup {[id |-> soulSeq + 1, version |-> task[t].version]}]
                /\ Reply(t, "ok", task[t].version)
        /\ UNCHANGED <<agents, events, eventSeq, walk, ghosts>>

-----------------------------------------------------------------------------
(* append_memory_event *)

AppendEventRequest(t, a, k) ==
    /\ Idle(t) /\ "append_event" \in Ops
    /\ Admit(t, a, "embed", [AtRest("none", 0) EXCEPT !.kind = k])
    /\ UNCHANGED <<agents, souls, soulSeq, events, eventSeq, walk, ghosts>>

\* The embedding provider answers, or raises.
Embed(t) ==
    /\ At(t, "embed")
    /\ \/ task' = [task EXCEPT ![t].step = "event_insert"]
       \/ Reply(t, "failed", 0)
    /\ UNCHANGED <<agents, souls, soulSeq, events, eventSeq, walk, ghosts>>

\* Slip: the id is MAX(id) + 1 of the rows, not a value of the sequence.
AppendEventInsertMaxId(t) ==
    /\ At(t, "event_insert")
    /\ \E v \in RowId :
        /\ \A b \in Agent : \A u \in IdsOf(events[b]) : u < v
        /\ v = 1 \/ \E b \in Agent : v - 1 \in IdsOf(events[b])
        /\ task' = [task EXCEPT ![t] =
                    [@ EXCEPT !.step = "event_commit", !.id = v]]
    /\ UNCHANGED <<agents, souls, soulSeq, events, eventSeq, walk, ghosts>>

\* INSERT INTO memory_events takes its id from the sequence here ...
AppendEventInsert(t) ==
    /\ At(t, "event_insert")
    /\ eventSeq < MaxRow
    /\ eventSeq' = eventSeq + 1
    /\ task' = [task EXCEPT ![t] =
                    [@ EXCEPT !.step = "event_commit", !.id = eventSeq + 1]]
    /\ UNCHANGED <<agents, souls, soulSeq, events, walk, ghosts>>

\* ... and is visible to others only from here on.
AppendEventCommit(t) ==
    LET a == AgentOf(t)
    IN  /\ At(t, "event_commit")
        /\ events' = [events EXCEPT ![a] =
                         @ \cup {[id |-> task[t].id, kind |-> task[t].kind]}]
        /\ stored' = [stored EXCEPT ![a] = @ + 1]
        /\ task' = [task EXCEPT ![t].step = "read_id"]
        /\ UNCHANGED <<agents, souls, soulSeq, eventSeq, walk, wiped, deleted>>

\* The id of the reply is read back as the newest id of the agent; with no
\* row left, row['id'] raises TypeError.
AppendEventReadId(t) ==
    LET rows == events[AgentOf(t)]
    IN  /\ At(t, "read_id")
        /\ \/ rows = {} /\ Reply(t, "failed", 0)
           \/ \E r \in rows :
                /\ IsNewest(r, rows)
                /\ task' = [task EXCEPT ![t] =
                      [@ EXCEPT !.step = "idle", !.outcome = "ok",
                                !.replyId = r.id]]
        /\ UNCHANGED <<agents, souls, soulSeq, events, eventSeq, walk, ghosts>>

-----------------------------------------------------------------------------
(* flush_memory *)

FlushRequest(t, a, keepSoul) ==
    /\ Idle(t)
    /\ (IF keepSoul THEN "flush" ELSE "flush_all") \in Ops
    /\ Admit(t, a, "events_snapshot",
             [AtRest("none", 0) EXCEPT !.keepSoul = keepSoul])
    /\ UNCHANGED <<agents, souls, soulSeq, events, eventSeq, walk, ghosts>>

FlushEventsSnapshot(t) ==
    /\ At(t, "events_snapshot")
    /\ task' = [task EXCEPT ![t] =
                    [@ EXCEPT !.step = "events_delete",
                              !.doomed = IdsOf(events[AgentOf(t)])]]
    /\ UNCHANGED <<agents, souls, soulSeq, events, eventSeq, walk, ghosts>>

\* Slips: the count is what the snapshot saw; the preserve flag is ignored.
FlushEventsDeleteCountsSnapshot(t) ==
    LET a == AgentOf(t)
    IN  /\ At(t, "events_delete")
        /\ events' = [events EXCEPT ![a] = {r \in @ : r.id \notin task[t].doomed}]
        /\ deleted' = [deleted EXCEPT ![a] = @ + Cardinality(task[t].doomed)]
        /\ IF task[t].keepSoul
           THEN Reply(t, "ok", 0)
           ELSE task' = [task EXCEPT ![t] =
                    [@ EXCEPT !.step = "souls_snapshot", !.doomed = {}]]
        /\ UNCHANGED <<agents, souls, soulSeq, eventSeq, walk, wiped, stored>>
FlushEventsDeleteAlwaysGoesOn(t) ==
    LET a == AgentOf(t)
        gone == {r \in events[a] : r.id \in task[t].doomed}
    IN  /\ At(t, "events_delete")
        /\ events' = [events EXCEPT ![a] = @ \ gone]
        /\ deleted' = [deleted EXCEPT ![a] = @ + Cardinality(gone)]
        /\ task' = [task EXCEPT ![t] =
                    [@ EXCEPT !.step = "souls_snapshot", !.doomed = {}]]
        /\ UNCHANGED <<agents, souls, soulSeq, eventSeq, walk, wiped, stored>>

\* DELETE ... RETURNING 1 counts the rows it removed itself: one that a
\* concurrent flush has removed since the snapshot is skipped.
FlushEventsDelete(t) ==
    LET a == AgentOf(t)
        gone == {r \in events[a] : r.id \in task[t].doomed}
    IN  /\ At(t, "events_delete")
        /\ events' = [events EXCEPT ![a] = @ \ gone]
        /\ deleted' = [deleted EXCEPT ![a] = @ + Cardinality(gone)]
        /\ IF task[t].keepSoul
           THEN Reply(t, "ok", 0)
           ELSE task' = [task EXCEPT ![t] =
                    [@ EXCEPT !.step = "souls_snapshot", !.doomed = {}]]
        /\ UNCHANGED <<agents, souls, soulSeq, eventSeq, walk, wiped, stored>>

FlushSoulsSnapshot(t) ==
    /\ At(t, "souls_snapshot")
    /\ task' = [task EXCEPT ![t] =
                    [@ EXCEPT !.step = "souls_delete",
                              !.doomed = IdsOf(souls[AgentOf(t)])]]
    /\ UNCHANGED <<agents, souls, soulSeq, events, eventSeq, walk, ghosts>>

FlushSoulsDelete(t) ==
    LET a == AgentOf(t)
    IN  /\ At(t, "souls_delete")
        /\ souls' = [souls EXCEPT ![a] = {r \in @ : r.id \notin task[t].doomed}]
        /\ wiped' = [wiped EXCEPT ![a] = TRUE]
        /\ Reply(t, "ok", 0)
        /\ UNCHANGED <<agents, soulSeq, events, eventSeq, walk, stored, deleted>>

-----------------------------------------------------------------------------
(* The request is cancelled, its connection fails or its process dies: the
   statements already committed stay, the one in flight is rolled back. *)

Abort(t) ==
    /\ ~Idle(t)
    /\ Reply(t, "failed", 0)
    /\ UNCHANGED <<agents, souls, soulSeq, events, eventSeq, walk, ghosts>>

-----------------------------------------------------------------------------
(* list_memory_events: a client walks the pages with next_cursor *)

Matching(a, kinds, cursor) ==
    {r \in events[a] : r.kind \in kinds /\ r.id > cursor}

\* page is ... ORDER BY id ASC LIMIT PageSize over rows.
IsPage(page, rows) ==
    /\ page \subseteq rows
    /\ \A p \in page, q \in rows \ page : p.id < q.id
    /\ page = rows \/ Cardinality(page) = PageSize
    /\ Cardinality(page) <= PageSize

\* Slip: next_cursor names the extra row that was fetched to see whether
\* there is a next page.
ServePageCursorTooFar(c, w) ==
    LET rows == Matching(w.agent, w.kinds, w.cursor)
    IN  \E page \in SUBSET rows :
            /\ IsPage(page, rows)
            /\ \/ /\ page = rows
                  /\ walk' = [walk EXCEPT ![c] =
                        [w EXCEPT !.seen = @ \cup page, !.cursor = 0,
                                  !.phase = "complete"]]
               \/ /\ page # rows
                  /\ \E extra \in rows \ page :
                        /\ \A q \in rows \ page : extra.id <= q.id
                        /\ walk' = [walk EXCEPT ![c] =
                              [w EXCEPT !.seen = @ \cup page,
                                        !.cursor = extra.id]]

\* One GET for client c, whose walk stands at w: the walk goes on at the last
\* id of the page, or is complete when no further page is announced.
ServePage(c, w) ==
    LET rows == Matching(w.agent, w.kinds, w.cursor)
    IN  \E page \in SUBSET rows :
            /\ IsPage(page, rows)
            /\ \/ /\ page = rows
                  /\ walk' = [walk EXCEPT ![c] =
                        [w EXCEPT !.seen = @ \cup page, !.cursor = 0,
                                  !.phase = "complete"]]
               \/ /\ page # rows
                  /\ \E last \in page :
                        /\ IsNewest(last, page)
                        /\ walk' = [walk EXCEPT ![c] =
                              [w EXCEPT !.seen = @ \cup page,
                                        !.cursor = last.id]]

\* The first GET has no cursor.  due remembers what was stored at that moment.
ListFirstPage(c, a, kinds) ==
    /\ walk[c].phase # "paging"
    /\ a \in agents
    /\ ServePage(c, [phase |-> "paging", agent |-> a, kinds |-> kinds,
                     cursor |-> 0, due |-> Matching(a, kinds, 0), seen |-> {}])
    /\ UNCHANGED <<agents, souls, soulSeq, events, eventSeq, task, ghosts>>

ListNextPage(c) ==
    /\ walk[c].phase = "paging"
    /\ ServePage(c, walk[c])
    /\ UNCHANGED <<agents, souls, soulSeq, events, eventSeq, task, ghosts>>

-----------------------------------------------------------------------------
Serve(t) ==
    \/ AppendSoulSnapshot(t) \/ AppendSoulInsert(t)
    \/ Embed(t) \/ AppendEventInsert(t) \/ AppendEventCommit(t)
    \/ AppendEventReadId(t)
    \/ FlushEventsSnapshot(t) \/ FlushEventsDelete(t)
    \/ FlushSoulsSnapshot(t) \/ FlushSoulsDelete(t)

Arrive(t, a) ==
    \/ \E confirmed \in BOOLEAN : AppendSoulRequest(t, a, confirmed)
    \/ \E k \in Kind : AppendEventRequest(t, a, k)
    \/ \E keepSoul \in BOOLEAN : FlushRequest(t, a, keepSoul)

Next ==
    \/ \E a \in Agent : CreateAgent(a)
    \/ \E t \in Task : Serve(t) \/ Abort(t) \/ \E a \in Agent : Arrive(t, a)
    \/ \E c \in Client :
        \/ ListNextPage(c)
        \/ \E a \in Agent, kinds \in SUBSET Kind : ListFirstPage(c, a, kinds)

Spec == Init /\ [][Next]_vars

-----------------------------------------------------------------------------
(* Properties *)

\* A Soul version number names one row of an agent, and as long as no flush
\* has dropped that agent's Soul, the versions are 1..n without a hole,
\* however many requests append at once: the "latest" that GET /soul returns
\* is the last one appended, and /soul/history is a complete audit trail.
SoulVersionsWellFormed ==
    \A a \in Agent :
        /\ \A r, q \in souls[a] : r.version = q.version => r = q
        /\ ~wiped[a] =>
            \A v \in VersionsOf(souls[a]) : 1..v \subseteq VersionsOf(souls[a])

\* A stored Soul version is never rewritten, and never lost except to a
\* flush that was told not to preserve it and that began its DELETE after the
\* version was stored: not to a flush that preserves it, not to a failed or
\* aborted request, not to one of another agent (alembic 0001: "append-only").
SoulAppendOnly ==
    [][\A a \in Agent : \A r \in souls[a] \ souls'[a] :
         \E t \in Task :
            /\ task[t].agent = a /\ ~task[t].keepSoul
            /\ task[t].step = "souls_delete"
            /\ r.id \in task[t].doomed]_vars

\* An event id is given once: an id that has been handed out never comes back
\* to life after a flush, so a cursor kept by a client keeps its meaning.
EventIdsNeverReused ==
    [][\A a \in Agent : \A r \in events'[a] \ events[a] :
         \A b \in Agent :
            /\ r.id \notin IdsOf(events[b])
            /\ \A c \in Client : r.id \notin IdsOf(walk[c].seen)]_vars

\* A walk that has come to its end has returned every event that was stored
\* when it began and is still stored, whatever was appended, committed out of
\* id order or flushed between two pages.
WalkComplete ==
    \A c \in Client : walk[c].phase = "complete" =>
        walk[c].due \cap events[walk[c].agent] \subseteq walk[c].seen

\* The counts returned by flushes never count one event twice, even when two
\* flushes of the same agent overlap: what was stored is either there or
\* counted.
FlushCountsExact ==
    \A a \in Agent : stored[a] = Cardinality(events[a]) + deleted[a]

\* services.py:67 calls the reply "A MemoryEvent paired with its
\* server-assigned id": the id that POST /memory/events returns is the id
\* given to the event it was asked to store.
ReplyNamesOwnEvent ==
    \A t \in Task :
        (Idle(t) /\ task[t].outcome = "ok" /\ task[t].id # 0)
            => task[t].replyId = task[t].id

-----------------------------------------------------------------------------
(* The Soul tables implement the ledger of the protocol. *)

Ledger == INSTANCE SoulLedger WITH Row <- SoulRow, history <- souls
LedgerSpec == Ledger!LedgerSpec
=============================================================================
