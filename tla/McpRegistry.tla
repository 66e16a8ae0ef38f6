----------------------------- MODULE McpRegistry -----------------------------
(***************************************************************************)
(* agentcook_core/mcp_adapter.py: clients of MCP servers, the tools they   *)
(* discovered, and the registry that connects and disconnects all of them. *)
(*                                                                         *)
(* connect, list_tools, disconnect and call_tool of a transport are        *)
(* awaited and may raise; an answer is given in one step and taken up by   *)
(* the task that waits for it in another.  One task connects, one          *)
(* disconnects, one calls tools.  A server may change its tools, and lose  *)
(* its connection, at any time.                                            *)
(***************************************************************************)
EXTENDS Naturals, Sequences, SequencesExt

CONSTANTS
    Servers,        \* names of MCP servers
    McpTools,       \* names of tools
    NoServer,       \* no server
    MaxManifests    \* bound: changes of what a server offers

ASSUME McpAssumption == NoServer \notin Servers /\ MaxManifests \in Nat

VARIABLES
    clients,        \* McpToolRegistry._clients, in insertion order
    manifest,       \* what each server would answer to tools/list
    linked,         \* servers whose transport is connected
    tools,          \* McpClient._tools
    connecting, disconnecting,  \* loops of connect_all and disconnect_all
    call,           \* a call_tool under way, or its result
    blemished,      \* servers whose link broke, whose disconnect raised or met a
                    \* connect, since their tools were cleared (history)
    manifests       \* counter behind the bound

mcpVars == <<clients, manifest, linked, tools, connecting, disconnecting, call, blemished, manifests>>

AtRest == [pc |-> "idle", at |-> 0, size |-> 0, answer |-> {}]
Loops == [pc : {"idle", "next", "linking", "listing", "listed", "unlinking", "unlinked"},
          at : Nat, size : Nat, answer : SUBSET McpTools]
Statuses == {"none", "waiting", "not_found", "success", "failure"}

McpInit ==
    /\ clients = <<>> /\ linked = {} /\ tools = [s \in Servers |-> {}]
    /\ manifest = [s \in Servers |-> McpTools]
    /\ connecting = AtRest /\ disconnecting = AtRest
    /\ call = [server |-> NoServer, tools |-> {}, status |-> "none"]
    /\ blemished = {} /\ manifests = 0

AddClient(s) ==
    /\ s \notin Range(clients) /\ clients' = Append(clients, s)
    /\ UNCHANGED <<manifest, linked, tools, connecting, disconnecting, call, blemished, manifests>>

-----------------------------------------------------------------------------
(* The servers *)

ChangeManifest(s, m) ==
    /\ m # manifest[s] /\ manifests < MaxManifests /\ manifests' = manifests + 1
    /\ manifest' = [manifest EXCEPT ![s] = m]
    /\ UNCHANGED <<clients, linked, tools, connecting, disconnecting, call, blemished>>

LoseLink(s) ==
    /\ s \in linked /\ linked' = linked \ {s} /\ blemished' = blemished \cup {s}
    /\ UNCHANGED <<clients, manifest, tools, connecting, disconnecting, call, manifests>>

-----------------------------------------------------------------------------
(* connect_all and disconnect_all.  A failed step is logged and the loop     *)
(* goes on; a dictionary that changed size ends it.                          *)

Started == [AtRest EXCEPT !.pc = "next", !.at = 1, !.size = Len(clients)]
GoesOn(loop) == [loop EXCEPT !.pc = "next", !.at = @ + 1, !.answer = {}]
Entering(loop, pc) ==
    IF Len(clients) # loop.size \/ loop.at > loop.size THEN AtRest ELSE [loop EXCEPT !.pc = pc]

\* The servers each loop is at.
Connected == IF connecting.pc \in {"idle", "next"} THEN {} ELSE {clients[connecting.at]}
Disconnected == IF disconnecting.pc \in {"idle", "next"} THEN {} ELSE {clients[disconnecting.at]}

ConnectAll ==
    /\ connecting.pc \in {"idle", "next"}
    /\ connecting' = IF connecting.pc = "idle" THEN Started ELSE Entering(connecting, "linking")
    /\ UNCHANGED <<clients, manifest, linked, tools, disconnecting, call, blemished, manifests>>

\* transport.connect and transport.list_tools: each answers, or raises.
TransportConnects(ok) ==
    /\ connecting.pc = "linking"
    /\ linked' = IF ok THEN linked \cup Connected ELSE linked
    /\ connecting' = IF ok THEN [connecting EXCEPT !.pc = "listing"] ELSE GoesOn(connecting)
    /\ blemished' = blemished \cup (Connected \cap Disconnected)
    /\ UNCHANGED <<clients, manifest, tools, disconnecting, call, manifests>>

TransportLists(ok) ==
    LET s == clients[connecting.at] IN
    /\ connecting.pc = "listing" /\ (ok => s \in linked)
    /\ connecting' = IF ok THEN [connecting EXCEPT !.pc = "listed", !.answer = manifest[s]]
                     ELSE GoesOn(connecting)
    /\ UNCHANGED <<clients, manifest, linked, tools, disconnecting, call, blemished, manifests>>

ToolsDiscovered ==
    LET s == clients[connecting.at] IN
    /\ connecting.pc = "listed"
    /\ tools' = [tools EXCEPT ![s] = connecting.answer]
    /\ connecting' = GoesOn(connecting)
    /\ blemished' = blemished \cup (Connected \cap Disconnected)
    /\ UNCHANGED <<clients, manifest, linked, disconnecting, call, manifests>>

DisconnectAll ==
    /\ disconnecting.pc \in {"idle", "next"}
    /\ disconnecting' = IF disconnecting.pc = "idle" THEN Started ELSE Entering(disconnecting, "unlinking")
    /\ UNCHANGED <<clients, manifest, linked, tools, connecting, call, blemished, manifests>>

\* transport.disconnect; when it raises, the tools stay.
TransportDisconnects(ok) ==
    /\ disconnecting.pc = "unlinking"
    /\ linked' = linked \ Disconnected
    /\ disconnecting' = IF ok THEN [disconnecting EXCEPT !.pc = "unlinked"] ELSE GoesOn(disconnecting)
    /\ blemished' = IF ok THEN blemished \cup (Connected \cap Disconnected)
                    ELSE blemished \cup Disconnected
    /\ UNCHANGED <<clients, manifest, tools, connecting, call, manifests>>

\* Slip: the tools of a disconnected client stay.
ToolsKept ==
    /\ disconnecting.pc = "unlinked"
    /\ disconnecting' = GoesOn(disconnecting)
    /\ blemished' = (blemished \ Disconnected) \cup (Connected \cap Disconnected)
    /\ UNCHANGED <<clients, manifest, linked, tools, connecting, call, manifests>>

ToolsCleared ==
    /\ disconnecting.pc = "unlinked"
    /\ tools' = [s \in Servers |-> IF s \in Disconnected THEN {} ELSE tools[s]]
    /\ disconnecting' = GoesOn(disconnecting)
    /\ blemished' = (blemished \ Disconnected) \cup (Connected \cap Disconnected)
    /\ UNCHANGED <<clients, manifest, linked, connecting, call, manifests>>

-----------------------------------------------------------------------------
\* call_tool: a name that was not discovered never reaches the transport.
CallTool(s, name) ==
    /\ s \in Range(clients) /\ call.status # "waiting"
    /\ call' = [server |-> s, tools |-> {name},
                status |-> IF name \in tools[s] THEN "waiting" ELSE "not_found"]
    /\ UNCHANGED <<clients, manifest, linked, tools, connecting, disconnecting, blemished, manifests>>

\* invoke: an answer is a success, an exception a failure.
CallAnswered(ok) ==
    /\ call.status = "waiting"
    /\ ok => call.server \in linked /\ call.tools \subseteq manifest[call.server]
    /\ call' = [call EXCEPT !.status = IF ok THEN "success" ELSE "failure"]
    /\ UNCHANGED <<clients, manifest, linked, tools, connecting, disconnecting, blemished, manifests>>

McpNext ==
    \/ \E s \in Servers :
         \/ AddClient(s) \/ LoseLink(s)
         \/ \E m \in SUBSET McpTools : ChangeManifest(s, m)
         \/ \E name \in McpTools : CallTool(s, name)
    \/ ConnectAll \/ ToolsDiscovered \/ DisconnectAll \/ ToolsCleared
    \/ \E ok \in BOOLEAN : \/ TransportConnects(ok) \/ TransportLists(ok)
                           \/ TransportDisconnects(ok) \/ CallAnswered(ok)

McpSpec == McpInit /\ [][McpNext]_mcpVars

-----------------------------------------------------------------------------
McpTypeOK ==
    /\ clients \in Seq(Servers) /\ IsInjective(clients) /\ linked \subseteq Range(clients)
    /\ manifest \in [Servers -> SUBSET McpTools] /\ tools \in [Servers -> SUBSET McpTools]
    /\ connecting \in Loops /\ disconnecting \in Loops
    /\ call.status \in Statuses /\ blemished \subseteq Servers

\* all_tools offers the tools of connected servers only ("all discovered tools
\* across all connected servers"), except of a server whose link broke by itself,
\* whose disconnect raised, or that was connected and disconnected at once; and
\* the next orderly disconnect makes up for those too.
ToolsOfConnected ==
    \A s \in Servers :
        tools[s] # {} /\ s \notin linked /\ s \notin Disconnected => s \in blemished
=============================================================================
