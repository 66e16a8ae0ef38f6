--------------------------- MODULE InMemoryRuntime ---------------------------
(***************************************************************************)
(* agentcook_app/services.py: InMemoryAgentRuntime, the AgentRuntime the   *)
(* API runs on when no database is configured.  No method awaits anything, *)
(* so each is one step; what interleaves is the pages of a client's walk   *)
(* over an agent's events with the calls of everybody else.                *)
(*                                                                         *)
(* An event is <<n, kind>>: n was counted over all events ever appended,   *)
(* while its id counts from 1 again after a flush.  The filters by kind    *)
(* and by time select alike, and `kind' stands for both.                   *)
(***************************************************************************)
EXTENDS Naturals, Sequences, FiniteSets, SequencesExt

CONSTANTS
    MemAgents,      \* agent ids
    EventKinds,     \* kinds of events
    AnyKind,        \* no filter
    Limit,          \* page size of the walk
    MaxAppends      \* bound: Soul versions and events appended

ASSUME InMemoryAssumption ==
    /\ AnyKind \notin EventKinds /\ Limit \in Nat \ {0} /\ MaxAppends \in Nat

VARIABLES
    seeded,         \* _agents
    souls,          \* _souls
    events,         \* _events
    eventSeq,       \* _event_seq
    walk,           \* a client's walk, at most one at a time
    soulWiped,      \* a flush dropped the Soul (history)
    appends         \* counter behind the bound

inMemoryVars == <<seeded, souls, events, eventSeq, walk, soulWiped, appends>>

Stored == [id : Nat, event : Nat \X EventKinds]
Walk == [agent : MemAgents, kind : EventKinds \cup {AnyKind}, pages : Seq(SUBSET Stored),
         cursor : Seq(Nat), flushed : BOOLEAN, atStart : SUBSET Stored]

InMemoryInit ==
    /\ seeded = {} /\ walk = <<>> /\ appends = 0
    /\ souls = [a \in MemAgents |-> <<>>] /\ events = [a \in MemAgents |-> <<>>]
    /\ eventSeq = [a \in MemAgents |-> 0] /\ soulWiped = [a \in MemAgents |-> FALSE]

SeedAgent(a) ==
    /\ a \notin seeded /\ seeded' = seeded \cup {a}
    /\ UNCHANGED <<souls, events, eventSeq, walk, soulWiped, appends>>

AppendSoul(a) ==
    /\ a \in seeded /\ appends < MaxAppends /\ appends' = appends + 1
    /\ souls' = [souls EXCEPT ![a] = Append(@, [version |-> Len(@) + 1])]
    /\ UNCHANGED <<seeded, events, eventSeq, walk, soulWiped>>

AppendMemoryEvent(a, k) ==
    /\ a \in seeded /\ appends < MaxAppends /\ appends' = appends + 1
    /\ eventSeq' = [eventSeq EXCEPT ![a] = @ + 1]
    /\ events' = [events EXCEPT ![a] = Append(@, [id |-> eventSeq[a] + 1, event |-> <<appends', k>>])]
    /\ UNCHANGED <<seeded, souls, walk, soulWiped>>

\* Slip: the Soul goes with every flush.
FlushMemoryAll(a, preserve) ==
    /\ a \in seeded
    /\ events' = [events EXCEPT ![a] = <<>>]
    /\ eventSeq' = [eventSeq EXCEPT ![a] = 0]
    /\ souls' = [souls EXCEPT ![a] = <<>>]
    /\ soulWiped' = IF preserve THEN soulWiped ELSE [soulWiped EXCEPT ![a] = TRUE]
    /\ walk' = [i \in DOMAIN walk |-> [walk[i] EXCEPT !.flushed = @ \/ walk[i].agent = a]]
    /\ UNCHANGED <<seeded, appends>>

\* The identity stays; the Soul stays when it is preserved.
FlushMemory(a, preserve) ==
    /\ a \in seeded
    /\ events' = [events EXCEPT ![a] = <<>>]
    /\ eventSeq' = [eventSeq EXCEPT ![a] = 0]
    /\ souls' = IF preserve THEN souls ELSE [souls EXCEPT ![a] = <<>>]
    /\ soulWiped' = IF preserve THEN soulWiped ELSE [soulWiped EXCEPT ![a] = TRUE]
    /\ walk' = [i \in DOMAIN walk |-> [walk[i] EXCEPT !.flushed = @ \/ walk[i].agent = a]]
    /\ UNCHANGED <<seeded, appends>>

-----------------------------------------------------------------------------
\* Positions in an agent's list of events, and what is stored there.
Filtered(a, kind) == {i \in DOMAIN events[a] : kind \in {AnyKind, events[a][i].event[2]}}
StoredAt(a, items) == {events[a][i] : i \in items}

\* Slip: a page begins with the event the cursor names.
AfterInclusive(a, items, cursor) ==
    {i \in items : cursor = <<>> \/ \E j \in items : j <= i /\ <<events[a][j].id>> = cursor}

\* What follows the cursor; nothing when no event has that id any more.
After(a, items, cursor) ==
    {i \in items : cursor = <<>> \/ \E j \in items : j < i /\ <<events[a][j].id>> = cursor}

Page(items) == {i \in items : Cardinality({j \in items : j < i}) < Limit}

\* list_memory_events; <<>> is no cursor.
NextCursor(a, items) ==
    IF Cardinality(items) > Limit THEN <<events[a][Max(Page(items))].id>> ELSE <<>>

StartWalk(a, kind) ==
    LET items == Filtered(a, kind) IN
    /\ a \in seeded /\ walk = <<>>
    /\ walk' = <<[agent |-> a, kind |-> kind, pages |-> <<StoredAt(a, Page(items))>>,
                  cursor |-> NextCursor(a, items), flushed |-> FALSE,
                  atStart |-> StoredAt(a, items)]>>
    /\ UNCHANGED <<seeded, souls, events, eventSeq, soulWiped, appends>>

ContinueWalk ==
    /\ walk # <<>> /\ walk[1].cursor # <<>>
    /\ LET a == walk[1].agent
           items == After(a, Filtered(a, walk[1].kind), walk[1].cursor)
       IN  walk' = <<[walk[1] EXCEPT !.pages = Append(@, StoredAt(a, Page(items))),
                                     !.cursor = NextCursor(a, items)]>>
    /\ UNCHANGED <<seeded, souls, events, eventSeq, soulWiped, appends>>

EndWalk ==
    /\ walk # <<>> /\ walk' = <<>>
    /\ UNCHANGED <<seeded, souls, events, eventSeq, soulWiped, appends>>

InMemoryNext ==
    \/ \E a \in MemAgents :
         \/ SeedAgent(a) \/ AppendSoul(a)
         \/ \E k \in EventKinds : AppendMemoryEvent(a, k)
         \/ \E p \in BOOLEAN : FlushMemory(a, p)
         \/ \E k \in EventKinds \cup {AnyKind} : StartWalk(a, k)
    \/ ContinueWalk \/ EndWalk

InMemorySpec == InMemoryInit /\ [][InMemoryNext]_inMemoryVars

-----------------------------------------------------------------------------
InMemoryTypeOK ==
    /\ seeded \subseteq MemAgents /\ walk \in Seq(Walk)
    /\ souls \in [MemAgents -> Seq([version : Nat])]
    /\ events \in [MemAgents -> Seq(Stored)] /\ eventSeq \in [MemAgents -> Nat]

\* A walk that no flush interrupts returns every matching event once and in
\* order, from the oldest on, whatever is appended under way, and does not end
\* before it has returned all that were there when it began.
WalkExact ==
    \A i \in DOMAIN walk :
        LET w == walk[i]
            got == UNION Range(w.pages)
            stored == StoredAt(w.agent, Filtered(w.agent, w.kind))
        IN  ~w.flushed =>
                /\ \A p, q \in DOMAIN w.pages : p < q =>
                     \A s \in w.pages[p], t \in w.pages[q] : s.event[1] < t.event[1]
                /\ got \subseteq stored
                /\ \A s \in stored, t \in got : s.event[1] < t.event[1] => s \in got
                /\ w.cursor = <<>> => w.atStart \subseteq got

\* The in-memory runtime keeps what the protocol promises of the Soul.
Ledger == INSTANCE SoulLedger WITH
    Agent <- MemAgents, Row <- [version : 1..MaxAppends],
    history <- [a \in MemAgents |-> Range(souls[a])], wiped <- soulWiped
InMemoryLedger == Ledger!LedgerSpec
=============================================================================
