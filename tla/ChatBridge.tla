------------------------------ MODULE ChatBridge ------------------------------
(***************************************************************************)
(* A chat over gRPC: chat_bridge and AgentCoreClient of the connector      *)
(* service (agentcook-swarm/services/connector/main.py) against the        *)
(* servicer of agent-core (services/agent-core/grpc_server.py).            *)
(*                                                                         *)
(* The connector service looks up agent-core once, at startup.  The        *)
(* servicer turns the frames of the mock generator of the chat router,     *)
(* numbered from 1, into messages of a stream; the client collects them.   *)
(* Instances of agent-core die and come back.                              *)
(***************************************************************************)
EXTENDS Naturals, Sequences, SequencesExt

CONSTANTS
    Instances,      \* instances of agent-core
    Bridges,        \* tasks of the connector service
    PlainFrames,    \* frames of a reply, first and terminal frame included
    PluginFrames    \* the same for a request with plugins

ASSUME BridgeAssumption ==
    PlainFrames \in Nat \ {0, 1} /\ PluginFrames \in Nat \ {0, 1}

VARIABLES
    running,        \* instances that run
    target,         \* the instance the channel was opened to; <<>> without a stub
    bridge          \* what each chat_bridge call does, on both sides

bridgeVars == <<running, target, bridge>>

Lengths == {PlainFrames, PluginFrames}
NoBridge == [status |-> "idle", length |-> PlainFrames, sent |-> 0, wire |-> <<>>, frames |-> <<>>, stream |-> "none"]
BridgeState ==
    [status : {"idle", "waiting", "200", "502", "503"}, length : Lengths,
     sent : Nat,                \* frames the servicer has yielded
     wire : Seq(Nat),           \* frames on their way
     frames : Seq(Nat),         \* frames the client has collected
     stream : {"none", "open", "closed", "aborted", "broken"}]

BridgeInit ==
    /\ running \in SUBSET Instances /\ target = <<>>
    /\ bridge = [b \in Bridges |-> NoBridge]

Waiting(b) == bridge[b].status = "waiting"
Put(b, x) == bridge' = [bridge EXCEPT ![b] = x]

-----------------------------------------------------------------------------
(* Startup: discover_agent_core takes an instance etcd lists, dead or alive, *)
(* or the configured host; without grpcio there is no stub.                  *)

ConnectorStarts(found, grpc) ==
    /\ target' = IF grpc THEN <<found>> ELSE <<>>
    /\ bridge' = [b \in Bridges |-> NoBridge]
    /\ UNCHANGED running

InstanceStarts(i) ==
    /\ i \notin running /\ running' = running \cup {i}
    /\ UNCHANGED <<target, bridge>>

InstanceDies(i) ==
    /\ i \in running /\ running' = running \ {i}
    /\ bridge' = [b \in Bridges |->
                    IF target = <<i>> /\ bridge[b].stream = "open"
                    THEN [bridge[b] EXCEPT !.stream = "broken"] ELSE bridge[b]]
    /\ UNCHANGED target

-----------------------------------------------------------------------------
(* agent-core: StreamChat *)

ServicerYields(b) ==
    /\ bridge[b].stream = "open" /\ bridge[b].sent < bridge[b].length
    /\ Put(b, [bridge[b] EXCEPT !.sent = @ + 1, !.wire = Append(@, bridge[b].sent + 1)])
    /\ UNCHANGED <<running, target>>

ServicerReturns(b) ==
    /\ bridge[b].stream = "open" /\ bridge[b].sent = bridge[b].length
    /\ Put(b, [bridge[b] EXCEPT !.stream = "closed"])
    /\ UNCHANGED <<running, target>>

\* Slip: an exception ends the stream as if it were complete.
ServicerReturnsEarly(b) ==
    /\ bridge[b].stream = "open"
    /\ Put(b, [bridge[b] EXCEPT !.stream = "closed"])
    /\ UNCHANGED <<running, target>>

ServicerAborts(b) ==
    /\ bridge[b].stream = "open"
    /\ Put(b, [bridge[b] EXCEPT !.stream = "aborted"])
    /\ UNCHANGED <<running, target>>

-----------------------------------------------------------------------------
(* The connector service: chat_bridge and stream_chat *)

BridgeAsked(b, n) ==
    /\ ~Waiting(b)
    /\ Put(b, IF target = <<>> THEN [NoBridge EXCEPT !.status = "503"]
              ELSE [NoBridge EXCEPT !.status = "waiting", !.length = n,
                      !.stream = IF target[1] \in running THEN "open" ELSE "broken"])
    /\ UNCHANGED <<running, target>>

FrameCollected(b) ==
    LET x == bridge[b] IN
    /\ Waiting(b) /\ x.wire # <<>>
    /\ Put(b, [x EXCEPT !.frames = Append(@, Head(x.wire)), !.wire = Tail(@)])
    /\ UNCHANGED <<running, target>>

StreamEnds(b) ==
    /\ Waiting(b) /\ bridge[b].stream = "closed" /\ bridge[b].wire = <<>>
    /\ Put(b, [bridge[b] EXCEPT !.status = "200"])
    /\ UNCHANGED <<running, target>>

\* The status of a stream that failed may overtake its messages.
StreamRaises(b) ==
    /\ Waiting(b) /\ bridge[b].stream \in {"aborted", "broken"}
    /\ Put(b, [NoBridge EXCEPT !.status = "502"])
    /\ UNCHANGED <<running, target>>

BridgeNext ==
    \/ \E i \in Instances, g \in BOOLEAN : ConnectorStarts(i, g)
    \/ \E i \in Instances : InstanceStarts(i) \/ InstanceDies(i)
    \/ \E b \in Bridges :
         \/ ServicerYields(b) \/ ServicerReturns(b) \/ ServicerAborts(b)
         \/ FrameCollected(b) \/ StreamEnds(b) \/ StreamRaises(b)
         \/ \E n \in Lengths : BridgeAsked(b, n)

BridgeSpec == BridgeInit /\ [][BridgeNext]_bridgeVars

-----------------------------------------------------------------------------
BridgeTypeOK ==
    /\ running \subseteq Instances /\ target \in {<<>>} \cup {<<i>> : i \in Instances}
    /\ bridge \in [Bridges -> BridgeState]

\* A bridged chat is answered whole or not at all: with status 200 the frames are
\* all those of one reply, in order, the terminal one last, whatever dies on the
\* way; any other status comes without frames.
BridgeWhole ==
    \A b \in Bridges :
        /\ bridge[b].status = "200" => bridge[b].frames = [i \in 1..bridge[b].length |-> i]
        /\ bridge[b].status \in {"502", "503"} => bridge[b].frames = <<>>
=============================================================================
