----------------------------- MODULE MCAgentEdge -----------------------------
(* The parts of the system that face other services and the disk, side by   *)
(* side: a behaviour chooses one part, and the others, which share nothing  *)
(* with it, stay as they began.                                             *)
EXTENDS ConnectorRuntime, McpRegistry, ConnectorService, ChatBridge,
        ExtensionLoader, ProviderStream, ChatGates, TLC

CONSTANTS c1, c2, c3, oa, wh, ht    \* connectors

VARIABLE part

connectorSideVars == <<connectorVars, mcpVars, serviceVars>>
chatSideVars == <<bridgeVars, loaderVars, streamVars, gateVars>>
vars == <<part, connectorSideVars, chatSideVars>>

ServerSymmetry == Permutations(Servers)

MCKindOf == (c1 :> "oauth") @@ (c2 :> "http") @@ (c3 :> "oauth")

MCStoreTypes == (oa :> "oauth") @@ (wh :> "webhook") @@ (ht :> "http")

MCBundles ==
    LET B(n, m, a, c) == [name |-> n, manifest |-> m, agents |-> a, connectors |-> c]
    IN  <<B("p", "ok", "invalid", "ok"), B("p", "ok", "ok", "invalid"), B("q", "bad", "ok", "ok")>>

MCFragments ==
    LET F(i, d, n, a) == [index |-> i, id |-> d, name |-> n, args |-> a]
    IN  {F(0, "id0", <<"f">>, <<"a">>), F(0, Fresh, <<>>, <<"b">>),
         F(1, "id1", <<"g">>, <<>>), F(1, Fresh, <<>>, <<"b">>)}

MCWholeArgs == {<<"a", "b">>, <<"b">>}

MCKnownFinish ==
    [openai |-> [stop |-> "stop", length |-> "length", tool_calls |-> "tool_calls"],
     anthropic |-> [stop |-> "stop", length |-> "length"]]

\* Only the part that runs starts in all of its initial states.
Init ==
    /\ part \in {"connectors", "mcp", "service", "bridge", "loader", "stream", "gates"}
    /\ ConnectorInit /\ (part # "connectors" => \A c \in DOMAIN token : token[c] = "none")
    /\ McpInit
    /\ ServiceInit /\ (part # "service" => \A c \in Stored : endpoint[c] = "never")
    /\ BridgeInit /\ (part # "bridge" => running = {})
    /\ LoaderInit /\ (part # "loader" => \A p \in Paths : disk[p].kind = "absent")
    /\ StreamInit /\ (part # "stream" => vendor = "openai")
    /\ GateInit /\ (part # "gates" => /\ \A b \in {gate.enforce, gate.mock, gate.short, gate.upstream} : b
                                      /\ genuine = {} /\ \A a \in Accounts : asked[a] = 0)

ConnectorSide ==
    /\ UNCHANGED chatSideVars
    /\ \/ part = "connectors" /\ ConnectorNext /\ UNCHANGED <<mcpVars, serviceVars>>
       \/ part = "mcp" /\ McpNext /\ UNCHANGED <<connectorVars, serviceVars>>
       \/ part = "service" /\ ServiceNext /\ UNCHANGED <<connectorVars, mcpVars>>

ChatSide ==
    /\ UNCHANGED connectorSideVars
    /\ \/ part = "bridge" /\ BridgeNext /\ UNCHANGED <<loaderVars, streamVars, gateVars>>
       \/ part = "loader" /\ LoaderNext /\ UNCHANGED <<bridgeVars, streamVars, gateVars>>
       \/ part = "stream" /\ StreamNext /\ UNCHANGED <<bridgeVars, loaderVars, gateVars>>
       \/ part = "gates" /\ GateNext /\ UNCHANGED <<bridgeVars, loaderVars, streamVars>>

Next == UNCHANGED part /\ (ConnectorSide \/ ChatSide)

Spec == Init /\ [][Next]_vars

EdgeTypeOK ==
    /\ ConnectorTypeOK /\ McpTypeOK /\ ServiceTypeOK /\ BridgeTypeOK
    /\ LoaderTypeOK /\ StreamTypeOK /\ GateTypeOK
=============================================================================
