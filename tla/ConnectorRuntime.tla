--------------------------- MODULE ConnectorRuntime ---------------------------
(***************************************************************************)
(* agentcook_core/connector.py: the adapters of connectors and the manager *)
(* that opens and closes them, run by several tasks of one event loop.     *)
(*                                                                         *)
(* Only an OAuth adapter awaits anything while it opens: the token store,  *)
(* then, when the token is expired, the token endpoint and the store       *)
(* again.  Every other adapter, close_all and all_tools run without a      *)
(* pause.  Tasks interleave at the awaits; any await may raise.            *)
(***************************************************************************)
EXTENDS Naturals, Sequences, FiniteSets, SequencesExt

CONSTANTS
    Connectors,     \* names of connectors
    KindOf,         \* connector -> "oauth" | "http" | "mcp" | "webhook" | "custom"
    CanRefresh,     \* OAuth connectors with a transport and a token_url
    HasTokenStore,  \* OAuth connectors with a token store
    Openers,        \* tasks that call open_all
    MaxOpens        \* bound: calls of open_all

ASSUME ConnectorAssumption ==
    /\ CanRefresh \subseteq Connectors /\ HasTokenStore \subseteq Connectors /\ MaxOpens \in Nat

VARIABLES
    added,          \* ConnectorManager._connectors, in insertion order
    opened,         \* connectors whose _opened is set
    token,          \* OAuthTokenStore: "none", "valid", "expired" or "empty" ({})
    opener,         \* what each task does
    opens           \* counter behind the bound

connectorVars == <<added, opened, token, opener, opens>>

\* create_connector: which adapter a kind gets.
IsOAuth(c) == KindOf[c] = "oauth"

Resting == [pc |-> "idle", at |-> 0, size |-> 0, tried |-> {}, new |-> "none"]
OpenerPcs == {"idle", "next", "reading", "refreshing", "saving", "done", "aborted"}
OpenerState == [pc : OpenerPcs, at : Nat, size : Nat, tried : SUBSET Connectors,
                new : {"none", "valid", "empty"}]

ConnectorInit ==
    /\ added = <<>> /\ opened = {} /\ opens = 0
    /\ token \in [{c \in Connectors : IsOAuth(c)} -> {"none", "valid", "expired"}]
    /\ opener = [t \in Openers |-> Resting]

\* Slip: a name that is taken is added again.
AddTwice(c) ==
    /\ Len(added) < Cardinality(Connectors) /\ added' = Append(added, c)
    /\ UNCHANGED <<opened, token, opener, opens>>

Add(c) ==
    /\ c \notin Range(added) /\ added' = Append(added, c)
    /\ UNCHANGED <<opened, token, opener, opens>>

Expire(c) ==
    /\ IsOAuth(c) /\ token[c] = "valid"
    /\ token' = [token EXCEPT ![c] = "expired"]
    /\ UNCHANGED <<added, opened, opener, opens>>

CloseAll ==
    /\ opened' = opened \ Range(added)
    /\ UNCHANGED <<added, token, opener, opens>>

-----------------------------------------------------------------------------
(* open_all, one connector after the other *)

Opening(t) == added[opener[t].at]

OpenAll(t) ==
    /\ opener[t].pc \in {"idle", "done", "aborted"} /\ opens < MaxOpens /\ opens' = opens + 1
    /\ opener' = [opener EXCEPT ![t] = [Resting EXCEPT !.pc = "next", !.at = 1, !.size = Len(added)]]
    /\ UNCHANGED <<added, opened, token>>

\* The open() under way ends, by return or by an exception that is logged.
Advance(t, new) ==
    opener' = [opener EXCEPT ![t] = [new EXCEPT !.pc = "next", !.at = @ + 1, !.new = "none"]]

\* The dictionary is iterated itself: one that changed size ends the loop.
Iterate(t) ==
    LET o == opener[t]  c == Opening(t)  tried == [o EXCEPT !.tried = @ \cup {c}] IN
    /\ o.pc = "next"
    /\ \/ /\ Len(added) # o.size
          /\ opener' = [opener EXCEPT ![t].pc = "aborted"]
          /\ UNCHANGED opened
       \/ /\ Len(added) = o.size /\ o.at > o.size
          /\ opener' = [opener EXCEPT ![t].pc = "done"]
          /\ UNCHANGED opened
       \/ /\ Len(added) = o.size /\ o.at <= o.size
          /\ IF IsOAuth(c) /\ c \notin opened /\ c \in HasTokenStore
             THEN opener' = [opener EXCEPT ![t] = [tried EXCEPT !.pc = "reading"]] /\ UNCHANGED opened
             ELSE /\ Advance(t, tried)
                  /\ opened' = IF IsOAuth(c) THEN opened ELSE opened \cup {c}
    /\ UNCHANGED <<added, token, opens>>

\* get_token answers; a token that is not there, or is empty, is not expired.
TokenRead(t) ==
    LET o == opener[t]  c == Opening(t) IN
    /\ o.pc = "reading"
    /\ IF token[c] # "expired" THEN Advance(t, o) /\ opened' = opened \cup {c}
       ELSE /\ UNCHANGED opened
            /\ IF c \in CanRefresh THEN opener' = [opener EXCEPT ![t].pc = "refreshing"]
               ELSE Advance(t, o)
    /\ UNCHANGED <<added, token, opens>>

\* The token endpoint answers; an answer that is no object counts as {}.
TokenRefreshed(t, new) ==
    /\ opener[t].pc = "refreshing"
    /\ opener' = [opener EXCEPT ![t] = [@ EXCEPT !.pc = "saving", !.new = new]]
    /\ UNCHANGED <<added, opened, token, opens>>

TokenSaved(t) ==
    LET o == opener[t]  c == Opening(t) IN
    /\ o.pc = "saving"
    /\ token' = [token EXCEPT ![c] = o.new]
    /\ opened' = opened \cup {c}
    /\ Advance(t, o)
    /\ UNCHANGED <<added, opens>>

\* Slip: the exception leaves open_all.
AwaitRaisesThrough(t) ==
    /\ opener[t].pc \in {"reading", "refreshing", "saving"}
    /\ opener' = [opener EXCEPT ![t].pc = "aborted"]
    /\ UNCHANGED <<added, opened, token, opens>>

AwaitRaises(t) ==
    /\ opener[t].pc \in {"reading", "refreshing", "saving"}
    /\ Advance(t, opener[t])
    /\ UNCHANGED <<added, opened, token, opens>>

ConnectorNext ==
    \/ \E c \in Connectors : Add(c) \/ Expire(c)
    \/ CloseAll
    \/ \E t \in Openers :
         \/ OpenAll(t) \/ Iterate(t) \/ TokenRead(t) \/ TokenSaved(t) \/ AwaitRaises(t)
         \/ \E new \in {"valid", "empty"} : TokenRefreshed(t, new)

ConnectorSpec == ConnectorInit /\ [][ConnectorNext]_connectorVars

-----------------------------------------------------------------------------
ConnectorTypeOK ==
    /\ added \in Seq(Connectors) /\ IsInjective(added) /\ opened \subseteq Range(added)
    /\ token \in [{c \in Connectors : IsOAuth(c)} -> {"none", "valid", "expired", "empty"}]
    /\ opener \in [Openers -> OpenerState]

\* One connector's failure is not another's: an open_all that ends has tried every
\* connector it knew, in order; it ends early only when a connector was added
\* under it, and until then it has tried exactly those before its position.
FailureIsolated ==
    \A t \in Openers :
        LET o == opener[t] IN
        /\ o.pc \in {"next", "done"} => o.tried = {added[i] : i \in 1..(o.at - 1)}
        /\ o.pc = "done" => Cardinality(o.tried) = o.size
        /\ o.pc = "aborted" => Len(added) > o.size
=============================================================================
