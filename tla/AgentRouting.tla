---------------------------- MODULE AgentRouting ----------------------------
(***************************************************************************)
(* agentcook_core/multi_agent.py: the declarative router configuration and *)
(* the orchestrator that runs one turn over it, in simple mode (pattern    *)
(* match, one node) or compiled mode (a graph from outside).               *)
(*                                                                         *)
(* A configuration is frozen; an operator replaces the orchestrator to     *)
(* change it, here by appending an agent.  The dictionary of nodes is      *)
(* shared and may change at any time.  Trigger patterns are represented by *)
(* the tasks they match.  Routing rules are parsed and never consulted, so *)
(* they are left out.                                                      *)
(***************************************************************************)
EXTENDS Naturals, Sequences, SequencesExt

CONSTANTS
    AgentConfigs,   \* records [name, matches, fallback]
    Tasks,          \* non-empty texts to route
    NoTask,         \* the empty text
    NoAgent,        \* no route
    Strategies,     \* strategy strings found in configurations
    MaxAgents       \* bound: agents of a configuration

Known == {"pattern_match", "llm_classify", "tool_route"}

AgentNames == {c.name : c \in AgentConfigs}

ASSUME RoutingAssumption ==
    /\ NoTask \notin Tasks /\ NoAgent \notin AgentNames
    /\ MaxAgents \in Nat

VARIABLES
    agents,         \* RouterConfig.agents
    strategy,       \* RouterConfig.strategy
    compiled,       \* the orchestrator was given a compiler
    nodes,          \* names of the registered nodes
    turn            \* the run in progress, or the last one

routingVars == <<agents, strategy, compiled, nodes, turn>>

Turn == [status : {"none", "executing", "replied", "no_agent", "no_node", "raised"},
         task : Tasks \cup {NoTask}, agent : AgentNames \cup {NoAgent}]

NoTurnYet == [status |-> "none", task |-> NoTask, agent |-> NoAgent]

\* parse_router_config: an unknown strategy becomes pattern_match.
Parsed(s) == IF s \in Known THEN s ELSE "pattern_match"

RoutingInit ==
    /\ agents = <<>> /\ strategy = "pattern_match" /\ compiled = FALSE
    /\ nodes = {} /\ turn = NoTurnYet

Matching(as, t) == {i \in DOMAIN as : ~as[i].fallback /\ t \in as[i].matches}
Fallbacks(as) == {i \in DOMAIN as : as[i].fallback}
Least(S) == CHOOSE i \in S : \A j \in S : i <= j

\* Slip: the last agent that matches wins.
RouteLast(as, t) ==
    IF as = <<>> THEN NoAgent
    ELSE IF Matching(as, t) # {}
         THEN as[CHOOSE i \in Matching(as, t) : \A j \in Matching(as, t) : j <= i].name
    ELSE IF Fallbacks(as) # {} THEN as[Least(Fallbacks(as))].name
    ELSE as[Len(as)].name

\* pattern_match_route; it raises IndexError when there are no agents.
Route(as, t) ==
    IF as = <<>> THEN NoAgent
    ELSE IF Matching(as, t) # {} THEN as[Least(Matching(as, t))].name
    ELSE IF Fallbacks(as) # {} THEN as[Least(Fallbacks(as))].name
    ELSE as[Len(as)].name

Redeploy ==
    /\ turn.status # "executing" /\ turn' = NoTurnYet
    /\ UNCHANGED nodes

AppendAgent(a, s, c) ==
    /\ Redeploy /\ Len(agents) < MaxAgents
    /\ agents' = Append(agents, a)
    /\ strategy' = Parsed(s) /\ compiled' = c

ChangeNode(n) ==
    /\ nodes' = IF n \in nodes THEN nodes \ {n} ELSE nodes \cup {n}
    /\ UNCHANGED <<agents, strategy, compiled, turn>>

\* run in simple mode: the task, else the last message, decides the route.
\* The strategy is not consulted.
RunSimple(task, message) ==
    LET t == IF task # NoTask THEN task ELSE message
        a == Route(agents, t)
    IN  /\ ~compiled /\ turn.status # "executing"
        /\ turn' = [task |-> t, agent |-> a,
                    status |-> IF a = NoAgent THEN "no_agent"
                               ELSE IF a \notin nodes THEN "no_node" ELSE "executing"]
        /\ UNCHANGED <<agents, strategy, compiled, nodes>>

\* run in compiled mode: the graph names the agent that answered, or none.
RunCompiled(task, a) ==
    /\ compiled /\ turn.status # "executing"
    /\ turn' = [task |-> task, agent |-> a, status |-> "executing"]
    /\ UNCHANGED <<agents, strategy, compiled, nodes>>

TurnReturns(status) ==
    /\ turn.status = "executing"
    /\ turn' = [turn EXCEPT !.status = status]
    /\ UNCHANGED <<agents, strategy, compiled, nodes>>

RoutingNext ==
    \/ \E a \in AgentConfigs, s \in Strategies, c \in BOOLEAN : AppendAgent(a, s, c)
    \/ \E n \in AgentNames : ChangeNode(n)
    \/ \E t, m \in Tasks \cup {NoTask} : RunSimple(t, m)
    \/ \E t \in Tasks \cup {NoTask}, a \in AgentNames \cup {NoAgent} : RunCompiled(t, a)
    \/ \E s \in {"replied", "raised"} : TurnReturns(s)

RoutingSpec == RoutingInit /\ [][RoutingNext]_routingVars

-----------------------------------------------------------------------------
RoutingTypeOK ==
    /\ agents \in Seq(AgentConfigs)
    /\ strategy \in Known /\ compiled \in BOOLEAN
    /\ nodes \subseteq AgentNames /\ turn \in Turn

\* Adding an agent at the end of a configuration takes over no task an earlier
\* agent matched; with a fallback marked it takes over only tasks it matches;
\* without one it silently becomes the default of all unmatched tasks.
AppendKeepsRoutes ==
    [][\A t \in Tasks \cup {NoTask} :
         agents # <<>> /\ Route(agents', t) # Route(agents, t) =>
           /\ Route(agents', t) = Last(agents').name
           /\ Matching(agents, t) = {}
           /\ Fallbacks(agents) # {} => t \in Last(agents').matches]_routingVars
=============================================================================
