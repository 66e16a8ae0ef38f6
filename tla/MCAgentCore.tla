----------------------------- MODULE MCAgentCore -----------------------------
(* The libraries an agent is built from, side by side: a behaviour chooses   *)
(* one part, and the others, which share nothing with it, stay as they began. *)
EXTENDS HookPipeline, ModelRouter, ProviderChain, AgentRouting,
        ContextWindow, LayeredMemory, InMemoryRuntime, TLC

CONSTANTS a1, a2, t1, k1, k2    \* agents, a task, keys

VARIABLE part

workVars == <<hookVars, routerVars, chainVars, routingVars>>
recallVars == <<contextVars, memoryVars, inMemoryVars>>
vars == <<part, workVars, recallVars>>

EventSymmetry == Permutations(HookEvents)

MCModelConfigs ==
    LET C(n, p, c, q, o, e) == [name |-> n, provider |-> p, cost |-> c,
                                quality |-> q, order |-> o, enabled |-> e]
    IN  {C(1, "p", 1, 1, 2, TRUE), C(1, "p", 1, 1, 1, FALSE),
         C(2, "q", 2, 2, 1, TRUE)}

MCChain == <<[members |-> 2, codes |-> {503}], [members |-> 2, codes |-> {}]>>

MCAgentConfigs ==
    LET A(n, m, f) == [name |-> n, matches |-> m, fallback |-> f]
    IN  {A(a1, {t1}, FALSE), A(a2, {t1}, FALSE), A(a2, {}, FALSE), A(a1, {}, TRUE), A(a2, {t1}, TRUE)}

MCKinds ==
    LET K(r, t, c, n) == [role |-> r, text |-> t, call |-> c, tok |-> n]
    IN  {K("user", "x", NoCall, 2), K("assistant", NoText, "f", 1), K("assistant", "y", "f", 1),
         K("assistant", NoText, NoCall, 0), K("tool", "z", NoCall, 3)}

MCFadesAfter == [p \in {"x", "y", "z"} \X {"x", "y", "z"} |-> IF p[1] = p[2] THEN 4 ELSE 2]

MCSummaryTok == [t \in {"brief", "lengthy", "unavailable"} |-> IF t = "lengthy" THEN 3 ELSE 2]

MCPreamble == <<1>>

MCScore == [n \in 1..MaxWrites |-> n % 3]

MCPrefixed == {{<<k1>>}}

Init ==
    /\ part \in {"hooks", "router", "chain", "routing", "context", "memory", "runtime"}
    /\ HookInit /\ RouterInit /\ ChainInit /\ RoutingInit
    /\ ContextInit /\ MemoryInit /\ InMemoryInit

Work ==
    /\ UNCHANGED recallVars
    /\ \/ part = "hooks" /\ HookNext /\ UNCHANGED <<routerVars, chainVars, routingVars>>
       \/ part = "router" /\ RouterNext /\ UNCHANGED <<hookVars, chainVars, routingVars>>
       \/ part = "chain" /\ ChainNext /\ UNCHANGED <<hookVars, routerVars, routingVars>>
       \/ part = "routing" /\ RoutingNext /\ UNCHANGED <<hookVars, routerVars, chainVars>>

Recall ==
    /\ UNCHANGED workVars
    /\ \/ part = "context" /\ ContextNext /\ UNCHANGED <<memoryVars, inMemoryVars>>
       \/ part = "memory" /\ MemoryNext /\ UNCHANGED <<contextVars, inMemoryVars>>
       \/ part = "runtime" /\ InMemoryNext /\ UNCHANGED <<contextVars, memoryVars>>

Next == UNCHANGED part /\ (Work \/ Recall)

Spec == Init /\ [][Next]_vars

CoreTypeOK ==
    /\ HookTypeOK /\ RouterTypeOK /\ ChainTypeOK /\ RoutingTypeOK
    /\ ContextTypeOK /\ MemoryTypeOK /\ InMemoryTypeOK
=============================================================================
