# A TLA+ model of agentcook

These modules model the parts of agentcook whose correctness depends on the
order in which several actors take their steps: requests on an event loop that
share tables, a chat page and its half-aborted coroutines, processes that
register under a lease, threads that share a table and a cache of objects, and
the libraries an agent is built from (hooks, routing, memory, context,
connectors), whose callers interleave with changes of what they work on.  TLC
checks every module on small instances, and TLAPS proves the most important
facts for every value of the constants.

All paths below are those of the repository.

## 1. What is here

| Module | Models | Checked by |
| --- | --- | --- |
| `SoulLedger` | what the `AgentRuntime` protocol promises about Soul versions (abstract) | refined by `PgAgentRuntime` and `InMemoryRuntime` |
| `PgAgentRuntime` | the Postgres runtime of the memory API, statement by statement | `PgSoul`, `PgEvents`, `PgReplyId` |
| `PgAgentRuntime_proofs` | theorems about it | TLAPS |
| `ChatTurn` | the chat page, `useSseChat`, the auth store and the stream endpoint | `ChatSafe`, `ChatEnds`; `ChatStalled` shows a finding |
| `ChatTurn_proofs` | theorems about it | TLAPS |
| `ServiceRegistry` | etcd registration of agent-core (Python) and of the Java API | `Registry`; `RegistryReplicas` shows a finding |
| `ServiceRegistry_proofs` | theorems about it | TLAPS |
| `UserDirectory` | users, login and the profile cache of the Java API | `Users`; `UserSuspension` shows a finding |
| `UserDirectory_proofs` | theorems about it | TLAPS |
| `InMemoryRuntime` | the in-memory runtime of the memory API | `AgentCore` |
| `HookPipeline` | `hook_runtime.py` | `AgentCore` |
| `ModelRouter`, `ProviderChain` | `model_router.py`, `fallback.py` | `AgentCore` |
| `AgentRouting` | `multi_agent.py` | `AgentCore` |
| `AgentCore_proofs` | theorems about these four and the composition | TLAPS |
| `ContextWindow` | `compaction.py`, `pruning.py` | `AgentCore` |
| `TtlStore` | what `memory.py` promises of a store whose entries expire (abstract) | refined by `LayeredMemory` |
| `LayeredMemory` | `memory.py` | `AgentCore` |
| `AgentMemory_proofs` | theorems about `InMemoryRuntime`, `ContextWindow` and `LayeredMemory` | TLAPS |
| `ConnectorRuntime`, `McpRegistry` | `connector.py`, `mcp_adapter.py` | `AgentEdge` |
| `ConnectorService`, `ChatBridge` | the connector service, the gRPC chat bridge | `AgentEdge` |
| `ExtensionLoader` | `skill_loader.py`, `plugin_loader.py` | `AgentEdge` |
| `ProviderStream` | the streams of the OpenAI and Anthropic adapters | `AgentEdge` |
| `ChatGates` | the Turnstile check and the quota resolver | `AgentEdge` |
| `AgentEdge_proofs` | theorems about these and their composition | TLAPS |
| `Recursion_proofs` | lemmas on induction and recursive functions | TLAPS |

`MC*.tla` instantiate a module for TLC (symmetry, functions used as constants);
each run is one `.cfg`.  Run them with

    tlc -workers 2 -config PgSoul.cfg MCPgAgentRuntime
    tlapm PgAgentRuntime_proofs.tla     (and the other *_proofs modules)

`PROJECT.json` lists the runs, for every property a *mutant* (a slip in one
definition that makes TLC refute the property, kept beside the definition and
commented "Slip"), the lines every definition stands for, the findings, and the
hazards of the code.

## 2. Inventory of the system

### Python: agentcook (the API), agentcook-core, -storage, -providers

* **Memory API** (`agentcook/src/agentcook_app/routers/memory.py`,
  `services.py`, `runtime_pg.py`, `agentcook-storage/.../memory_store.py`,
  `postgres.py`, `alembic/versions/0001_...`).  *State*: tables `agents`,
  `soul_versions`, `memory_events`, their sequences; the in-memory runtime
  keeps the same as dictionaries.  *Operations*: create agent, append and read
  Soul, append, list, search and flush memory events.  *Hard*: every statement
  commits on its own; requests interleave at every `await`; a request may be
  cancelled between two statements; ids are drawn before rows are visible.
  *Correct when*: versions are unique, gapless and never lost except to a flush
  told to drop them; a walk over the pages misses nothing; counts add up; ids
  are not reused.
* **Chat endpoint** (`routers/chat.py`): a generator of SSE frames, over a mock
  or a real provider.  *Hard*: a provider that raises under way, a client that
  hangs up.  *Correct when*: exactly one terminal frame ends a stream.
* **Quota and Turnstile middleware** (`middleware/quota.py`, `turnstile.py`).
  *State*: none of their own; the counter of questions is Java's, a token's
  redemption Cloudflare's.  *Hard*: an upstream that is silent, fails or
  answers something odd, and an answer lost after a token was redeemed.
  *Correct when*: no failure lets a turn in.
* **Hook pipeline** (`agentcook-core/.../hook_runtime.py`).  *State*: a registry,
  one context per execution, the counters of `MetricsHook`.  *Hard*: cancel and
  fail_fast decide which post hooks run; hooks may change the registry or run
  the pipeline again.  *Correct when*: what its docstring calls the "symmetric
  onion" holds, and the result says what happened.
* **Model router, provider fallback** (`model_router.py`, `agentcook-providers/
  .../fallback.py`).  *State*: the registered models, a round-robin counter, the
  models that failed so far.  *Hard*: models that come and go between picks; a
  stream that fails after chunks were delivered; chains in chains.  *Correct
  when*: picks are fair, nobody is tried twice, nobody gives up early.
* **Compaction, pruning** (`compaction.py`, `pruning.py`): functions over message
  lists, applied again and again.  *Hard*: what one strategy leaves is the next
  one's input, and a summarizer may fail.  *Correct when*: the tail is kept, the
  budget is met, and nothing is lost without a summary but what was to be lost.
* **Memory governance** (`memory.py`): layers of entries with a time to live,
  a soul history, search.  *Hard*: expiry is lazy.  *Correct when*: what expired
  is never seen, and what lives is always found.
* **Connector, MCP adapter, connector service** (`connector.py`,
  `mcp_adapter.py`, `agentcook-swarm/services/connector`).  *State*: OAuth
  tokens, open connectors, tools of connected servers, subscriptions.  *Hard*:
  two tasks refresh one token; servers break and change; one connector fails
  among many.
* **Plugin and skill loaders, sandbox runner** (`plugin_loader.py`,
  `skill_loader.py`, `sandbox_runner.py`).  *Hard*: partial failure of a
  directory load.
* **Multi-agent router** (`multi_agent.py`): pattern routing with defaults.
  **Provider adapters**: streams whose tool calls come in fragments.  **Media,
  stores**: single calls and conversions.

### agentcook-swarm and agentcook-java

* **Service registry** (`agentcook-swarm/services/agent-core/etcd_registry.py`,
  `main.py`; `EtcdServiceRegistry.java`, `ServiceRegistryConfig.java`).
  *State*: a lease, a key, a renewal loop.  *Operations*: register, renew,
  deregister, discover.  *Hard*: crashes between grant and put, restarts under
  the same key, lost renewals.  *Correct when*: a live process is found, a dead
  one is not.
* **gRPC bridge** (`grpc_server.py`, `GrpcChatService.java`, `chat_bridge` of the
  connector service): a stream per chat.  *Hard*: instances die under a stream.
  *Correct when*: a reply arrives whole or not at all.
* **User directory and login** (`UserRepositoryAdapter`, the user use cases,
  `AuthController`, `UserController`).  *State*: table `users`, a profile cache
  of shared objects.  *Hard*: read-modify-write without a version column, cache
  eviction before commit, login that provisions.  *Correct when*: a suspension
  sticks, an e-mail names one user, the cache agrees with the table.
* **Plugins, sessions, connectors, permissions** (domain aggregates and
  `PluginActivationService`): life cycles, and activation that needs grants.

### Front ends, edge

* **Chat page** (`agentcook-app/src/pages/ChatPage.tsx`, `hooks/useSseChat.ts`,
  `hooks/useSession.ts`, `stores/auth.ts`).  *State*: the messages, the locked
  input, an abort controller, a heartbeat timer, the tokens.  *Hard*: a send
  aborts one that may be anywhere; all sends share refs; retries, a stalled
  stream, a token refresh.  *Correct when*: the input is locked exactly while a
  turn runs, a turn writes only its own message, every turn ends.
* **Admin console**: views over the API; its log stream repeats the hook's
  scheme.
* **Edge workers** (`workers/`): a rate-limit counter in KV.
* **Deployment, observability, documentation**: no behaviour of the program.

### How they interact

The page calls the chat endpoint (through the Turnstile middleware and whatever
stands in front), and the session and login endpoints of the Java API.  The
chat endpoint calls a provider; the memory API calls the event store, which
calls an embedding provider and Postgres.  agent-core and the Java API find
each other through etcd.  The modules cut the system at these calls: what is on
the other side is an environment that may answer, refuse, fail or, where
nothing bounds it, never answer.

## 3. The modules and the code

### SoulLedger, PgAgentRuntime

`souls[a]` and `events[a]` are the committed rows of an agent, with the columns
the properties tell apart: id and version, id and kind.  A *kind* stands for
every attribute the `kind` and `since` filters of a list look at.  `soulSeq`
and `eventSeq` are the BIGSERIAL sequences, which no rollback takes back: an
append that loses against `UNIQUE (agent_id, version)` has used up an id.
`task[t]` is a request: a request arrives (`AppendSoulRequest`,
`AppendEventRequest`, `FlushRequest`), passes `_require_agent` and then takes
one step per statement.  A statement that reads and writes is two steps, its
snapshot and its commit, since READ COMMITTED lets another commit in between:
`AppendSoulSnapshot` reads `MAX(version)`, `AppendSoulInsert` inserts or hits
the constraint; `FlushEventsSnapshot` sees the rows, `FlushEventsDelete`
deletes those still there and counts them.  `AppendEventInsert` draws the id and
`AppendEventCommit` shows the row, so rows may appear out of id order.  `Abort`
ends a request at any await (cancellation, a broken connection, a dead
process).  `walk[c]` is a client that follows `next_cursor`.  `wiped`, `stored`
and `deleted` are history variables: `deleted` is the sum of the counts flushes
reported.

Reads of identity, Soul and search change nothing and are left out, as are the
embedding and the text of an event.  `delete` of an agent does not exist in the
code.  Sequences are bounded by `MaxRow`.

### ChatTurn

A *turn* is a call of `send()`, a coroutine at one of its awaits: `creating`
(`createSession` before the first send), `fetch`, `refresh` (a token),
`backoff`, `read`.  `page` is the component state and the auth store, `bubble`
the assistant messages, `current` is `abortRef`, `watchdog` is
`heartbeatTimerRef` (one timer for all turns), `net` is the server's generator
and its connection.  The handlers `OnChunk`, `OnDone`, `OnError` write to the
message that is active when they run, as the page's closures over
`activeAssistantIdRef` do.  An abort rejects a pending fetch or read in the
same step (its microtask runs before any other event of the page); in a backoff
or a token refresh it is noticed only later, by `FetchAgain`.  The server half
is `_stream_real_response`: a first frame, chunks, one terminal frame, the end;
it may stall anywhere and its connection may break anywhere.  The mock
generator sends the same frames and never raises.

Abstractions: the text of a reply is a number of chunks, and a flag for text of
an abandoned attempt in front of it; one frame is under way at a time; a send
that outlives its page (after `LeavePage`) can still run but no longer has
anywhere to write; the history of a session is empty, as the Java API answers.
`parseSseLines` waits for a `[DONE]` line this endpoint does not send, so the
stream's end is what ends a turn.  `RefreshToken` says which refresh tokens the
session may have: the Java login returns none, so `absent`, and `dead` after a
reload (the text "undefined"); `live` is a deployment with a working refresh
endpoint.

### ServiceRegistry

A process, of a kind chosen once, registers once: `Start`, `Grant` (a lease), `Put` (the key under it),
then `Refresh` every `Interval`.  A restart is another process with the same
key.  `lease` and `holder` are etcd (external): a put takes the key over from
the lease it hung on, the end of a lease removes the keys that hang on it.  A
request on a broken link raises, and may have been executed (`GrantFails`,
`PutFails`, `RefreshFails`).  What differs between the two implementations is
kept: Python's loop `break`s on an exception and deregistration deletes the key,
Java's scheduled task goes on and its deregistration revokes the lease.
agent-core's `main()` never calls deregister (kind "python"); kind "tidy" is a
Python owner that does, as the tests do.  agent-core's instance id is its process
id, which is 1 in every container (`PidOne`), unless INSTANCE_ID is set, which no
compose or Helm file does; Java draws one per life.

Time is a tick of 5 s: `Ttl = 6`, `Interval = 2`, `PutTimeout = 1` are 30 s, 10 s
and Java's 5 s timeout.  Python's put has no timeout of its own; the module
assumes the same bound for it.  A tick waits for a renewal that is due and for
a lease that has run out, so neither is ever late.  `missed` counts renewals in
a row that did nothing, `since` the ticks since the process ended; both are
history variables.  The stub client that `etcd_registry.py` falls back to when
`etcd3` cannot be imported never reaches etcd and is not modelled.

### UserDirectory

`users` is the committed table, `cache` Spring's cache of profiles, and `heap`
the `User` objects that it and the requests point at: `findById` answers a hit
with the cached object itself, and `updateProfile()` and `suspend()` change it
in place, so a request may write through what another has changed and never
committed.  `task[t]` is a request on its thread: login (`LookupEmail`,
`ExistsByEmail`, `InsertCommit`), create (the same without the lookup, then a
`findById`), get, update and suspend (`Find`, `Select`, `Store`, `Change`,
`Save`, `Evict`, `UpdateCommit`).  The order is that of the annotations:
`@CacheEvict` evicts when `save` returns, the transaction commits after that,
so a reader can cache the old row in between.  A `save` after a cache hit has
to SELECT the row to merge with, which may raise before the eviction.  UPDATE
writes every column, and no version column guards it.  Commits may fail, and
`Restart` ends every request and clears the cache.  `tokens` and `suspended`
are history variables: the subjects of the tokens issued for a login name, and
the users whose suspension was answered with 204.

Abstractions: a profile is a nickname and a status; a login name stands for
the address `resolveOrProvision` makes of it; the default profile is modelled
(one JVM, cache type "simple", no expiry), not the Redis one, which serialises;
requests for ids that do not exist are left out, as are the free-question
counter, activation and deletion, which no endpoint reaches, and the lists,
which only read.

### AgentCore: the libraries of an agent

The modules below are composed by `MCAgentCore` and `MCAgentEdge` for checking
only.  `part` is chosen once and says which of them moves; they share no state,
as the libraries share none, and nothing in the repository calls most of them
together: their callers are the environment, which may make any call at any
time.

`InMemoryRuntime`: `souls`, `events` and `eventSeq` are the dictionaries of
`InMemoryAgentRuntime`; every method is one step, for none awaits.  `walk` is a
client following `next_cursor`; a page is the set of events it holds, since the
list they are cut from has them in order of their ids.  An event carries a
number that is never used twice, so that a repeated event can be told from a new
one under a reused id.
A walk that a flush interrupts is outside of `WalkExact`: ids restart at 1 and
the cursor points into another sequence.

`HookPipeline`: `stack` holds the executions in progress, a nested one on top;
`PreCall`, `CoreCall` and `PostCall` are one call each, with the outcome of the
hook as input; `Conclude` returns the result.  `pres` and `posts` record who was
called.  The registry changes between any two steps.

`ModelRouter`: `models` is the registry in insertion order, `up` what the
availability checker says; what a policy chooses from is a set of positions in
the registry, and what it prefers the best of them, the first in insertion order
among equals, as `min` and `max` have it.  `SelectRoundRobin` is any caller of the round robin;
reading the counter and incrementing it (287, 288) are one step, as they are for
callers on one event loop, and threads are not modelled.
`PickAndFail` a caller that hands back its failed models as
`select_with_fallback` has it.  `ProviderChain`: a chain of chains, as
`FallbackProvider` takes any provider; `NextProvider` is what the nested
exception handlers come to.

`AgentRouting`: `Route` is the router, `turn` one run of the orchestrator in its
simple or its compiled mode.  `ContextWindow`: `context` is the message list,
with an identity per message the code does not see; a strategy is an action, and
`gone` are the messages dropped on purpose.  A summary `covers` the messages whose
content its model was given whole.  `MemorySummarizer` hands on the first 200
characters of each content and no tool calls, so `Clipped` names the texts
that are longer than that, and what a clipped text or a message with tool calls
stood for is not covered but `clipped`.  What the model writes is one of
`Answers`, the contents of a summary message: it may itself be a clipped text in
the next summary, and `Unavailable` is the placeholder of a call that raised.
That a model repeats what it was given is not asked.  The loops over a list (`Tokens`,
`Keeping`, `DuplicatePruning`) are recursive functions of the position they have
come to.  `LayeredMemory`: `data` is the
insertion-ordered dictionary of `InMemoryStore`, as a set of entries each with
its position in that order; a key written again keeps its position, and an
expired entry stays until a read, a list or `gc` meets it.  `Live`, the entries not expired, implement
`TtlStore`: no reader changes them.

### AgentEdge: what talks to other systems

`ConnectorRuntime`: tasks run `open_all` and stop at each await (token store,
token endpoint, store again), any of which may raise.  `McpRegistry`: `link` is
what transport and server agree on, `tools` what the client discovered;
connecting, disconnecting and calling are three tasks.  `ConnectorService`:
`/connectors/exec`, with the token endpoint of each oauth connector (external).
`endpoint` says what the endpoint is: one that rotates its refresh tokens always,
one that never does, or a `fickle` one, which does as it likes: it returns a new
refresh token with an answer or none (the handler keeps the presented one then,
line 336), goes on accepting earlier ones for a while (`GraceEnds`) or not at all,
and may revoke all it has granted when it is shown one it no longer accepts.
`accepted` are the refresh tokens it would take, `overlapped` the connectors
refreshed while another refresh of them was under way, `mislaid` those of whom
an answer was lost; the last two are history variables.
`ChatBridge`: the servicer yields, the wire carries, the client collects, and
instances die.  `ExtensionLoader`: a scan is one step, the disk changes between
scans, and a scan that raises keeps what it has registered; `ScannedTo[n]` is the
registry after the paths up to `n`.  `ProviderStream`: `received` is what the
vendor sent, `yielded` what the adapter made of it; `Collect` merges one fragment
into the slots, `CollectAll` those of a chunk.  A chunk may carry text, a finish
reason and a fragment all at once, or two fragments.
`ChatGates`: `redeemed` is Cloudflare's memory, `Decide` the verdict on an
answer, on none, or on something else; `Resolve` and `Choose` are the quota
resolver, which reads the keys as the code reads them.

## 4. Runs: what is checked and what it shows

| Run | Instance | Result |
| --- | --- | --- |
| `PgSoul` | 1 agent, 3 requests, 3 rows | `TypeOK`, `SoulVersionsWellFormed`, `SoulAppendOnly` hold; refines `SoulLedger` |
| `PgEvents` | 1 agent, 2 requests, flushes of both kinds, a client with pages of one event, 2 kinds, 3 rows | `WalkComplete`, `FlushCountsExact`, `EventIdsNeverReused` hold |
| `PgReplyId` | 2 appends | `ReplyNamesOwnEvent` fails: the id is read back as the newest |
| `ChatSafe` | 3 turns of one page | `InputLockedIffLive`, `OwnBubbleOnly`, `OneTerminalFrame` hold |
| `ChatEnds` | 1 turn, `maxRetries` 3, 3 chunks | `TurnEnds` holds |
| `ChatStalled` | 2 turns | `TurnEnds` fails: a late abort clears the other turn's timer |
| `Registry` | 2 processes of any kind, or 2 lives of one | `RenewingIsDiscoverable`, `NoGhost` hold |
| `RegistryReplicas` | 2 replicas of agent-core | `RenewingHasEntry` fails |
| `Users` | 2 requests of any kind, 2 ids, 1 address | `EmailUnique`, `TokenSubjectPersisted` hold |
| `AgentCore` | seven parts, bounds below | 11 invariants and `AppendKeepsRoutes` hold; refines `TtlStore` and `SoulLedger` |
| `AgentEdge` | seven parts, bounds below | 7 invariants and `ScanKeepsPrefix` hold |
| `UserSuspension` | 2 requests, 1 user | `SuspensionSticks` fails: an overlapping update writes ACTIVE back |

**Bounds.**  The races of `PgAgentRuntime` are between two requests; the third
of `PgSoul` is there so that an append and a flush can overlap a flush that has
already been admitted.  Rows of different agents never meet in a statement, so
one agent is enough for TLC (the proofs have any number).  Three rows allow a
page, a cursor in the middle and a row behind it; a page of one event makes
every row a page boundary.  In `ChatTurn` a third turn is needed for a turn that
is aborted while an aborted one is still asleep; one chunk, one retry and one
refresh per turn reach every branch, and `ChatEnds` runs one turn with the page's
own `maxRetries`.  In `ServiceRegistry` two processes are a life and its
successor, two replicas, or two services; the lease tolerates one lost renewal
(2 x 10 s + 5 s < 30 s), and the run reaches the second.  In `UserDirectory`
two requests race for one address with two ids, so that a lost race leaves an
id unused; three objects are one per request and one in the cache, and the VIEW
forgets the fields of an object nobody points at, which are written before they
are read again.
`AgentCore`: two hooks, one of them the metrics hook, two nested or consecutive
executions and two registry changes give a change under a running execution and
an execution under another; four registrations of two models allow one to be
removed and registered again between picks, and four picks try both and give
up; two chains of two providers, with different retryable codes, have every way
from one provider to the next; four messages are a tail, a middle and a summary
of a summary, one text is longer than a preview and so is one of the three
contents of a summary, so a later summary is given the earlier one whole or cut; three writes under two keys let an entry be overwritten, expire and
be written again.  `AgentEdge`: two openers over three connectors, one whose
refresh works, one that is not OAuth and one that cannot refresh; two servers and
one tool, since tools of one server never meet another's; one OAuth connector in the
service, since handlers of different connectors share nothing, with each of
the three kinds of endpoint; three grants are the
first and two overlapping ones, and a fickle endpoint has all it needs to
revoke the second; two bridges and two instances; three paths, one
hidden, with two names; three chunks hold two fragments of one call around a
fragment of another; two requests with two tokens try one token twice.

**Deadlock** is checked for `PgAgentRuntime` and `UserDirectory`.  Turns and process lives are used
up, and then `ChatTurn` and `ServiceRegistry` rightly stop: their cfgs say
`CHECK_DEADLOCK FALSE`.  So do those of `AgentCore` and `AgentEdge`, whose parts
stop at the bounds on calls.

**Fairness.**  Safety runs assume none.  `ChatTurn!FairSpec` has weak fairness of
`Client(t)`: a fetch is answered or rejects (browsers time it out), timers run
out, promises settle.  It assumes nothing of the server after its headers, nor
of the user.  No other run assumes any: what the other
parts promise about the end of a call is stated of the state it ends in.

## 5. What is proved

`PgAgentRuntime_proofs`, from the assumptions `PageSizeAssumption`,
`MaxRowAssumption` and `NonEmptyAssumption`, for every number of agents, requests,
clients and rows:

* `TypeCorrect`: `Spec => []TypeOK`.  `TypeInv` adds to `TypeOK` that the event
  sets are finite (else the counts would not be numbers) and that a request
  about to write holds a value in range.
* `SoulVersionsSafe`: `Spec => []SoulVersionsWellFormed`.  The property is not
  inductive: nothing in it says why the version an append is about to write
  leaves no hole.  `SoulInv` adds that, as long as no flush has dropped rows, all
  versions below the one an append has read are stored (others may have taken
  that version meanwhile: then the constraint refuses the append), and that only
  a flush told to drop the Soul gets as far as its DELETE.
* `SoulNeverLost`: `Spec => SoulAppendOnly`, from `SoulInv` and the fact that two
  steps only touch the table.
* `FlushNeverCountsTwice`, `WalksMissNothing`, `EventIdsGivenOnce`: `FlushCountsExact`,
  `WalkComplete` and `EventIdsNeverReused`, from one invariant, `EventInv`.  Ids
  come from the sequence and name one row (`IdsUnique`, `IdsGiven`); an id drawn for
  a row that is not visible yet is in no table and on no page (`PendingFresh`), so
  a row that shows up late cannot pass for one that was there; and a walk has
  returned all that was due up to its cursor (`PagesCovered`).
* `ImplementsLedger`: `Spec => LedgerSpec`.  An insert that wins is
  `LedgerAppend`, the DELETE of a flush is `LedgerWipe`, everything else
  stutters.

`ServiceRegistry_proofs`, from `TimeAssumption` (an interval and a put fit into
a lease) and `ProcAssumption`, for every number of processes and every lease,
interval and timeout that fit:

* `RegistryTypeCorrect`: `Spec => []TypeOK`.
* `EndedLeavesNoGhost`: `Spec => []NoGhost`.
* `RenewingIsFound`: `Spec => []RenewingIsDiscoverable`, where `~Replicas`; with
  replicas it is false, as `RegistryReplicas` shows for the weaker
  `RenewingHasEntry`.

The argument is about time.  `Timely` bounds what a process may still sleep by
what is left on its lease: during the put the two add up to `Ttl`; a loop that
has missed `m` renewals has `ttl + PutTimeout + m * Interval + sleep >= Ttl`,
which stays true as a tick moves a unit from `ttl` to `sleep` and a missed
renewal an interval from `sleep` to `m`; so a lease cannot run out while one
more miss still fits.  After the end of a process, `since + ttl <= Ttl`.
`HeldByLease` says a key hangs on a running lease of a process of that key,
`OnePerKey` and `RenewsItsKey` (with `~Replicas`) that nobody else takes it.

`UserDirectory_proofs`, from `NickAssumption` alone, for every
number of users, addresses, requests and objects:

* `UsersTypeCorrect`, `EmailNamesOneUser`, `TokensNamePersistedUsers`: the
  `TypeOK`, `EmailUnique` and `TokenSubjectPersisted` of the run.  The invariant
  adds `Carries` (what a request holds where it stands) and `IdsFresh`: an id
  drawn for an INSERT is in no row and in no other INSERT, without which two
  inserts could give one id two rows.

`ChatTurn_proofs`, from `TurnAssumption` and `BoundAssumption`, for every number of
turns, retries, refreshes and chunks, and whatever the refresh tokens are:

* `TypeCorrect`, `OneTerminalFrameSent`: `TypeInv` has every connection in
  `SoundNet`: a generator that still has frames to send has sent no terminal one,
  and one that closes has sent one.
* `InputLockFollowsTurn`, `TurnsKeepToTheirBubble`: `PageInv`.  That the input is
  locked while a turn lives, and that a turn writes to its own message, hold only
  together: a callback writes to the active message, which is that of the last
  send (`ActiveInv`), and the lock is what keeps the next send away while the last
  one lives.  `CallInv`: an aborted turn is in no fetch and no read, since these
  reject at once.

`AgentCore_proofs`, each about its own part:

* `OnionOrderHolds`, `ResultHonestHolds`: `HookSpec => []OnionOrder` and
  `HookSpec => []ResultHonest`, from `HookAssumption`, for every number of hooks,
  events, executions and changes of the registry, and every depth of nesting.
  Neither is inductive: they say who has been called, not who is next.
  `PipelineInv` ties every execution's position to its calls: in the pre loop at
  `i` it has called the first `i - 1` hooks; in a post loop at `i` all but the
  first `i`, in reverse; and in each phase it says how the core has ended and
  whether a pre hook vetoed it (`InPre`, `InCore`, `InPost`, `InDrain`).  The list
  an execution walks is its own copy, so a change of the registry only has to
  leave lists of hooks (`WithoutType`, by the least index of a given rank).
* `FailoverTriesAll` (`FailoverExhausts`) and `RoundRobinTakesTurns`
  (`RoundRobinFair`), from `RouterAssumption`, for any models, costs and ties.
  `RegistryInv`: a name is registered once.  `FailoverInv`: as long as nothing
  changed under a failover, what it tried is reachable and was best among what it
  had not tried before; what it prefers is an order in which a best one exists
  (by the least of the costs, then the least position).  `RoundInv`: the picks
  since the set last changed had consecutive counts, so the i-th of them is the
  name at `(counter - Len(window) + i - 1) % n`; and n consecutive remainders
  differ.  That the k-th of the sorted names exists is `NthNameIsNth`.
* `FallbackInOrder` (`FallbackOrder`), from `ChainAssumption`: a chain is not
  empty (`FallbackProvider` raises `ValueError` otherwise) and neither are its
  members.  `ChainInv`: as many errors as providers called, less the one that
  runs, and nothing was delivered by a provider behind it.
* `AppendTakesOverNothing`: `RoutingSpec => AppendKeepsRoutes`.  It needs no
  invariant of the state but that appending leaves the earlier positions alone.
* `CorePartsApart`: a behaviour of the composition is one of each library, since a
  step of one leaves the variables of the others alone.  What is proved of a library
  thus holds in what the run explores.  `CoreTypeHolds` (`CoreTypeOK`) is the first
  use of it: the type invariant of every library, each a part of its own
  strengthening.

`AgentMemory_proofs`, from `MemoryAssumption`, `InMemoryAssumption` and
`ContextAssumption`:

* `LazyDeletionUnseen`: `MemorySpec => TtlStoreSpec`, for any keys, times to live
  and limits.  A write is `Put`, the deletion of a trait `Remove`, a tick `Pass`,
  and read, list, search and gc, which drop only what has expired, stutter.
  `MemoryInv`: entries are no younger than the time and no more than the writes,
  so what is put has not been there before.
* `AnswersAreComplete`: `MemorySpec => []AnswersComplete`.  A list and a search
  both take the first n of an ordered finite set; `FirstAreN` says these are at
  most n, exactly n unless they are all there are, and before all others.
  `RankedOrders`: score, layer and position make such an order.  Where a layer
  has no more live entries than a search looks at, the search sees all of them.
* `WalksAreExact`: `InMemorySpec => []WalkExact`, for any agents, kinds and page
  sizes.  `WalkInv`: an event's id is its position; a walk that no flush met has
  returned what matches up to a position `c`, which its cursor names
  (`CameTo`), and each page came after the ones before it.  `PageUpTo` is the
  lemma about one page, from `FirstAreN` again.
* `InMemoryImplementsLedger`: `InMemorySpec => InMemoryLedger`.  `SoulsInv`: a
  version is its position in the list, and there are no more than appends.
* `NothingLostHolds` (`NothingLost`), `TailVerbatimHolds` (`TailVerbatim`),
  `BudgetKeptHolds` (`BudgetKept`), `ContextTypeHolds`: for any conversation, texts,
  token counts and limits, and strategies applied in any order.  `ContextInv` has
  `Sound`, that the identities of the context rise and none of them, or of what a
  summary covers, is yet to come; that what was said is there, covered, `gone` or `clipped`; and
  `LastOwed`, what the last strategy owes its input.  A lemma per strategy gives
  `Owed` (the tail stays, the result is sound) and, where it drops nothing, `Holds`.
  `EndsAlike` compares two lists from their ends, which says without arithmetic on
  their lengths that a tail is kept.  The loop of budget pruning stops somewhere
  by `LeastElement`; duplicate pruning drops what equals a tracker, and
  the invariant of its loop is that each tracker that is set names a message it kept.
  What a summary takes over is split by `ToldOrCurtailed` into what its model was
  told and what it was not, and a summary that was made covers all of the first.

`AgentEdge_proofs`, each about its own part:

* `GateNeverFailsOpen` (`GateFailsClosed`): `GateInv` says what a request still
  being verified has been told: success only with a genuine token redeemed for
  it and for nobody else.
* `BridgedRepliesWhole` (`BridgeWhole`), from `BridgeAssumption`: in `BridgeInv`
  what was collected, followed by what is on the wire, is what was yielded.
* `ConnectorFailuresIsolated` (`FailureIsolated`): `ConnectorInv` ties the
  position of an `open_all` to the connectors it has tried, at each of its
  awaits and whatever was added meanwhile.
* `ToolsAreOfConnectedServers` (`ToolsOfConnected`): `McpInv` adds that a client
  waiting for `tools/list` is linked, unless its link broke or was cut under it.
* `RefreshTokensStayLive` (`RefreshTokenLive`): `ServiceInv` has a chain for each
  kind of endpoint.  One that never rotates accepts what is in the config and in
  every post and every answer (`KeptChain`).  One that always does accepts one
  token, and unless an answer was lost that token is in the config or in the one
  answer still to be stored (`RotatedChain`).  Of a fickle one the newest token is
  in the same places, and it is accepted, as long as no two refreshes have
  overlapped: only a post of an older token can make it revoke (`FickleChain`).
* `StreamsYieldedWhole` (`StreamFaithful`), from `StreamAssumption`: `StreamInv` adds
  `Collected`: the slots are the calls of all fragments received, in the order they
  were first seen, each the sum of its own.  One more fragment either opens a slot
  or extends the one of its index, and adds its pieces to the sum of that call
  alone (`JoinedGrows`, `CollectKeeps`); a chunk is a run of such steps
  (`CollectAllKeeps`); and an answer once yielded stays one while more is
  received (`AnswersStay`).
* `ScanPrefixHolds` (`ScanKeepsPrefix`), from `LoaderAssumption`: `LoaderInv`, the
  names of the registry differ, as keys of a dictionary do, is what makes the property
  inductive.  `ScannedSoFar` is the invariant of the loop: after the paths up to
  `n` the scan has added what `WouldAdd` has up to `n`, and it still runs exactly if
  nothing up to `n` stops it.
* `EdgePartsApart`, `EdgeTypeHolds` (`EdgeTypeOK`): as for `AgentCore`.

`Recursion_proofs` has what the proofs about loops need.  The library's induction
theorems speak of a predicate, which none of the provers can instantiate; here
the predicate is a set of numbers and the step a function, so that a lemma can be
cited like any other.  `Induction`: a set that has 0 and with each number the
next has all up to `n`.  `Recursion`: there is a function that starts with `b`
and goes on by `step`.  `Unrolled`: a recursive function is that one, so it is of
its type and obeys its equation at every position, which the provers do not take
from the `CHOOSE` behind its definition.  `Agreeing`: runs whose first steps
agree are the same so far, which is how one more message, fragment or path
leaves what was computed of the earlier ones alone.

Facts about counting ("the least k without ...") come from the well-foundedness of
`<` on the naturals (`LeastElement`).

**TLC only.**  Every property of the passing runs but one is stated by a theorem.
What stays with TLC:

* `TurnEnds`: liveness under fairness, which needs ENABLED, beyond the provers.
* The four runs that show a disagreement: what they refute cannot be proved, and
  that it is refuted is a behaviour TLC finds.
* That the parts reach the states the theorems speak of: a theorem holds of
  whatever the actions do, the runs and the mutants show that they do it.

## 6. What the documents say otherwise

A run shows each disagreement that is listed under `findings`.  These have no
run of their own; the models follow the code.

* `useSseChat.ts` reads only `content`: an error frame after some text ends as an
  ordinary reply, where `src/docs/architecture/02-chat-realtime-dataflow.md` (96)
  has the error surfaced.
* `etcd_registry.py` (227): one failed renewal ends the keepalive loop, and
  nothing registers the process again, where line 218 has it refreshed
  periodically "to keep registration alive".
* A retry after a timeout repeats the whole POST and appends to the text already
  shown, where `agentcook-design-tokens/docs/frontend-conventions.md` (1304) has
  the stream resumed by `Last-Event-ID`; a 401 does not count as an attempt,
  where the same document (1302) has one retry; `handleNewChat` and
  `handleSelectSession` leave the old stream running and the input locked, where
  it (1303) has an abort; and a send with plugins selected carries a field the
  endpoint's schema forbids.
* `quota.py` (159) reads `free_questions_used` and `free_questions_quota`;
  `QuotaResponse` answers `used`, `quota` and `remaining`.  Every account looks
  unused, and the fallback that lines 5 and 6 promise never comes.  `chat_stream`
  does not call the resolver yet.
* `turnstile.py` (77) says production "sets this to false (or unsets)"; unset, the
  short circuit is on, and tokens that are enforced are not asked for.
* `main.py` of the connector service (314 to 337): the refresh handler reads the
  token, awaits the endpoint and stores the answer, with no lock around it.  With
  an endpoint that detects reuse, two overlapping refreshes leave a dead token:
  both post token 1, the first is granted token 2, the second is refused as
  reuse and the endpoint revokes token 2 too, and the first stores it.  With one
  that returns a refresh token only sometimes or grants a grace, answers stored
  out of order do the same.  `RefreshTokenLive` therefore excuses overlaps at
  such endpoints.  No document of the repository speaks of it.
* `compaction.py` (491 to 501): `MemorySummarizer` cuts every content to 200
  characters, an earlier summary with its header too, and leaves tool calls out, so a
  message that only calls a tool is an empty line, where line 176 has "everything
  older" handed to the summarizer.  Its prompt asks for the "key
  facts, decisions, and action items" of text it does not hand on.
  `NothingLost` excuses what this loses as `clipped`.
* `model_router.py` (11) calls the round robin thread-safe and its counter an
  "atomic int increment"; lines 287 and 288 read it and increment it in two
  statements, so two threads may pick the same model.  `RoundRobinFair` is about
  callers on one event loop.
* `compaction.py` (149) has `compact` leave alone what needs no compaction; the
  strategies do not ask `should_compact` themselves.
* `pruning.py` (199) keeps "the latest" of two equal user messages; the code keeps
  the earlier one.
* `multi_agent.py`: routing rules, with patterns and priorities, are parsed and
  never consulted.
* `mcp_adapter.py` (298) has `all_tools` cover connected servers; a client whose
  link broke, or whose `disconnect` raised, still offers its tools.
* `memory.py` (495): two diary entries within one millisecond get one key, and
  the second replaces the first, although the docstring says "append".

## 7. Not modelled

* Plugins, sessions, connectors and permissions of the Java API: aggregates of
  setters and guards; the race of read, change and save is that of
  `UserDirectory`.
* `sandbox_runner.py` (drives Docker), `media.py`, the conversions of the provider
  adapters, the key/value and blob stores: one call of a library per method.
* `GrpcChatService.java`: passes the frames of one SSE response on and keeps no
  state; and the page as a client of it.
* The rate limiter at the edge reads, adds to and writes a counter of an external
  store, and its comment accepts the race.
* The admin console, deployment, observability.

Next: the lines of the provider adapters that convert requests and answers, and the
sandbox runner with an abstract Docker, whose time limit and clean-up are the
last control in agentcook-core without a model; and a lease taken up again after a
lost renewal, once `etcd_registry.py` does that.
