--------------------------- MODULE ConnectorService ---------------------------
(***************************************************************************)
(* agentcook-swarm/services/connector/main.py: POST /connectors/exec over  *)
(* the in-memory connector store, with the OAuth token endpoint it calls.  *)
(*                                                                         *)
(* Handlers run as tasks of one event loop; those that send a request wait *)
(* for its answer, the others run without a pause.  A token is the number  *)
(* of the grant it came from.  One endpoint always rotates: a new refresh  *)
(* token replaces the one presented, which is refused from then on.  One   *)
(* never does and sends none.  A fickle one does as it likes, answer by    *)
(* answer: it may keep older tokens for a while, and when a token is       *)
(* presented too late, revoke them all.                                    *)
(***************************************************************************)
EXTENDS Integers, Sequences

CONSTANTS
    StoreTypes,     \* connector_id -> connector_type, of the registered ones
    UnknownId,      \* a connector_id that is not registered
    Incomplete,     \* connectors whose config lacks what their handlers need
    Requests,       \* tasks
    EventTypes,     \* of webhook subscriptions
    MaxGrants,      \* bound: tokens granted to a connector
    MaxSubscribed   \* bound: subscriptions of a connector

Stored == DOMAIN StoreTypes

ASSUME ServiceAssumption ==
    /\ UnknownId \notin Stored /\ Incomplete \subseteq Stored
    /\ MaxGrants \in Nat \ {0} /\ MaxSubscribed \in Nat

VARIABLES
    access, refresh,    \* access_token and refresh_token of each config
    subscriptions,      \* event types subscribed to, in order
    endpoint,           \* how the token endpoint of each rotates refresh tokens
    accepted,           \* the refresh tokens each endpoint accepts
    granted,            \* grants each endpoint made
    request,            \* what each task does
    mislaid,            \* connectors of whom an answer was lost (history)
    overlapped          \* connectors refreshed while a refresh was under way (history)

serviceVars == <<access, refresh, subscriptions, endpoint, accepted, granted, request, mislaid, overlapped>>

ActionRegistry ==
    [mcp |-> {"invoke_tool", "list_tools", "describe_tool"},
     oauth |-> {"call_api", "refresh_token", "get_auth_url"},
     http |-> {"call_api", "health_check"},
     webhook |-> {"trigger", "subscribe", "unsubscribe", "list_subscriptions"}]
Actions == UNION {ActionRegistry[k] : k \in DOMAIN ActionRegistry}

\* Handlers that answer at once and change nothing, and those that send a request.
Immediate == {"invoke_tool", "list_tools", "describe_tool", "get_auth_url", "list_subscriptions"}
Sending == {"call_api", "health_check", "trigger"}

\* Handlers that raise on a missing configuration, or on parameters.
NeedsConfig == {"call_api", "refresh_token", "get_auth_url", "trigger"}
NeedsParams == {"invoke_tool", "describe_tool", "subscribe"}

\* _dispatch_action reaches the handler, and it finds its configuration.
Dispatched(c, action) ==
    /\ action \in ActionRegistry[StoreTypes[c]]
    /\ c \in Incomplete => action \notin NeedsConfig

EndpointKinds == {"always", "never", "fickle"}

NoGrant == [access |-> 0, refresh |-> 0]
RequestState == [pc : {"idle", "sent", "probed", "posted", "answered", "404", "error", "success"},
                 id : Stored \cup {UnknownId}, presented : Nat, token : [access : Nat, refresh : Nat]]

\* Only the endpoint of an oauth connector matters.
ServiceInit ==
    /\ endpoint \in [Stored -> EndpointKinds]
    /\ \A c \in Stored : StoreTypes[c] # "oauth" => endpoint[c] = "never"
    /\ access = [c \in Stored |-> 1] /\ refresh = [c \in Stored |-> 1]
    /\ accepted = [c \in Stored |-> {1}] /\ granted = [c \in Stored |-> 1]
    /\ subscriptions = [c \in Stored |-> <<>>] /\ mislaid = {} /\ overlapped = {}
    /\ request = [r \in Requests |-> [pc |-> "idle", id |-> UnknownId, presented |-> 0, token |-> NoGrant]]

Pending(r) == request[r].pc \in {"sent", "probed", "posted", "answered"}
Becomes(r, pc) == request' = [request EXCEPT ![r] = [@ EXCEPT !.pc = pc]]
NewRequest(r, id, pc, presented) ==
    /\ ~Pending(r)
    /\ request' = [request EXCEPT ![r] = [pc |-> pc, id |-> id, presented |-> presented, token |-> NoGrant]]

-----------------------------------------------------------------------------
(* execute_connector *)

NotFound(r) ==
    /\ NewRequest(r, UnknownId, "404", 0)
    /\ UNCHANGED <<access, refresh, subscriptions, accepted, granted, mislaid, overlapped>>

\* An exception of the dispatch or of a handler is an answer with status "error".
Refused(r, c) ==
    /\ {a \in Actions : ~Dispatched(c, a) \/ a \in NeedsParams} # {}
    /\ NewRequest(r, c, "error", 0)
    /\ UNCHANGED <<access, refresh, subscriptions, accepted, granted, mislaid, overlapped>>

\* The health of a connector without base_url is an answer too.
AnsweredAtOnce(r, c) ==
    /\ \/ {a \in Immediate : Dispatched(c, a)} # {}
       \/ c \in Incomplete /\ Dispatched(c, "health_check")
    /\ NewRequest(r, c, "success", 0)
    /\ UNCHANGED <<access, refresh, subscriptions, accepted, granted, mislaid, overlapped>>

Sent(r, c, action) ==
    /\ Dispatched(c, action) /\ c \notin Incomplete
    /\ NewRequest(r, c, IF action = "health_check" THEN "probed" ELSE "sent", access[c])
    /\ UNCHANGED <<access, refresh, subscriptions, accepted, granted, mislaid, overlapped>>

\* Whatever the other side answers is a result; an exception is an error, except
\* that health_check reports it.
SendingEnds(r, pc) ==
    /\ request[r].pc = "sent" \/ (request[r].pc = "probed" /\ pc = "success")
    /\ Becomes(r, pc)
    /\ UNCHANGED <<access, refresh, subscriptions, accepted, granted, mislaid, overlapped>>

Subscribe(r, c, e) ==
    /\ Dispatched(c, "subscribe") /\ Len(subscriptions[c]) < MaxSubscribed
    /\ subscriptions' = [subscriptions EXCEPT ![c] = Append(@, e)]
    /\ NewRequest(r, c, "success", 0)
    /\ UNCHANGED <<access, refresh, accepted, granted, mislaid, overlapped>>

Without(s, e) ==
    LET kept[i \in 0..Len(s)] ==
          IF i = 0 THEN <<>>
          ELSE IF s[i] # e THEN Append(kept[i - 1], s[i]) ELSE kept[i - 1]
    IN  kept[Len(s)]

Unsubscribe(r, c, e) ==
    /\ Dispatched(c, "unsubscribe")
    /\ subscriptions' = [subscriptions EXCEPT ![c] = Without(@, e)]
    /\ NewRequest(r, c, "success", 0)
    /\ UNCHANGED <<access, refresh, accepted, granted, mislaid, overlapped>>

-----------------------------------------------------------------------------
(* _handle_oauth_refresh_token reads the refresh token, posts it, and stores *)
(* the answer; the endpoint and other requests move in between.              *)

Refreshing(r, c) == request[r].id = c /\ request[r].pc \in {"posted", "answered"}

RefreshPosted(r, c) ==
    /\ Dispatched(c, "refresh_token") /\ refresh[c] # 0
    /\ NewRequest(r, c, "posted", refresh[c])
    /\ overlapped' = overlapped \cup {d \in {c} : \E u \in Requests \ {r} : Refreshing(u, d)}
    /\ UNCHANGED <<access, refresh, subscriptions, accepted, granted, mislaid>>

\* What an endpoint accepts after grant n, with a refresh token of it or without.
Rotated(c, n) ==
    CASE endpoint[c] = "always" -> {{n}}
      [] endpoint[c] = "never" -> {}
      [] OTHER -> {{n}, accepted[c] \cup {n}}
NotRotated(c) == IF endpoint[c] = "always" THEN {} ELSE {accepted[c]}

EndpointGrants(r) ==
    LET c == request[r].id  n == granted[c] + 1 IN
    /\ request[r].pc = "posted" /\ request[r].presented \in accepted[c] /\ n <= MaxGrants
    /\ granted' = [granted EXCEPT ![c] = n]
    /\ \E next \in {n, 0} : \E tokens \in IF next = n THEN Rotated(c, n) ELSE NotRotated(c) :
          /\ accepted' = [accepted EXCEPT ![c] = tokens]
          /\ request' = [request EXCEPT ![r] =
                [@ EXCEPT !.pc = "answered", !.token = [access |-> n, refresh |-> next]]]
    /\ UNCHANGED <<access, refresh, subscriptions, mislaid, overlapped>>

\* The grace of a token that has a successor is over.
GraceEnds(c, old) ==
    /\ old \in accepted[c] /\ \E next \in accepted[c] : old < next
    /\ accepted' = [accepted EXCEPT ![c] = @ \ {old}]
    /\ UNCHANGED <<access, refresh, subscriptions, granted, request, mislaid, overlapped>>

\* A status other than 200 is a RuntimeError.  A fickle endpoint that is shown a token
\* it no longer accepts may revoke those it does.
EndpointRefuses(r) ==
    LET c == request[r].id IN
    /\ request[r].pc = "posted" /\ Becomes(r, "error")
    /\ \/ UNCHANGED accepted
       \/ /\ endpoint[c] = "fickle" /\ request[r].presented \notin accepted[c]
          /\ accepted' = [accepted EXCEPT ![c] = {}]
    /\ UNCHANGED <<access, refresh, subscriptions, granted, mislaid, overlapped>>

\* Slip: an answer without a refresh token blanks the one there is.
TokensBlanked(r) ==
    LET c == request[r].id  t == request[r].token IN
    /\ request[r].pc = "answered" /\ Becomes(r, "success")
    /\ access' = [access EXCEPT ![c] = t.access]
    /\ refresh' = [refresh EXCEPT ![c] = t.refresh]
    /\ UNCHANGED <<subscriptions, accepted, granted, mislaid, overlapped>>

\* The refresh token is kept as it was presented when the answer has none.
TokensStored(r) ==
    LET c == request[r].id  t == request[r].token IN
    /\ request[r].pc = "answered" /\ Becomes(r, "success")
    /\ access' = [access EXCEPT ![c] = t.access]
    /\ refresh' = [refresh EXCEPT ![c] = IF t.refresh = 0 THEN request[r].presented ELSE t.refresh]
    /\ UNCHANGED <<subscriptions, accepted, granted, mislaid, overlapped>>

\* The answer comes too late, not at all, or is no JSON.
AnswerLost(r) ==
    /\ request[r].pc \in {"posted", "answered"} /\ Becomes(r, "error")
    /\ mislaid' = mislaid \cup {request[r].id}
    /\ UNCHANGED <<access, refresh, subscriptions, accepted, granted, overlapped>>

Handlers ==
    \E r \in Requests :
        \/ NotFound(r) \/ EndpointGrants(r) \/ EndpointRefuses(r) \/ TokensStored(r) \/ AnswerLost(r)
        \/ \E pc \in {"success", "error"} : SendingEnds(r, pc)
        \/ \E c \in Stored :
             \/ RefreshPosted(r, c) \/ Refused(r, c) \/ AnsweredAtOnce(r, c)
             \/ \E a \in Sending : Sent(r, c, a)
             \/ \E e \in EventTypes : Subscribe(r, c, e) \/ Unsubscribe(r, c, e)

\* An endpoint stays what it is.
ServiceNext ==
    /\ Handlers \/ \E c \in Stored : \E old \in accepted[c] : GraceEnds(c, old)
    /\ UNCHANGED endpoint

ServiceSpec == ServiceInit /\ [][ServiceNext]_serviceVars

-----------------------------------------------------------------------------
ServiceTypeOK ==
    /\ access \in [Stored -> Nat] /\ refresh \in [Stored -> Nat] /\ accepted \in [Stored -> SUBSET Nat]
    /\ granted \in [Stored -> 1..MaxGrants] /\ request \in [Requests -> RequestState]
    /\ subscriptions \in [Stored -> Seq(EventTypes)]
    /\ endpoint \in [Stored -> EndpointKinds] /\ mislaid \subseteq Stored /\ overlapped \subseteq Stored

\* Once no refresh of a connector is under way, the refresh token in its config is one
\* its endpoint accepts, unless an answer was lost.  Refreshes may overlap as they like
\* when the endpoint always rotates or never does.  Of a fickle endpoint, the refreshes
\* must have come one after the other: the handler takes no lock, so answers stored out
\* of order, a grace that ends or a revocation after an overlap leave a dead token.
RefreshTokenLive ==
    \A c \in Stored \ mislaid :
        (\A r \in Requests : ~Refreshing(r, c)) =>
            refresh[c] \in accepted[c] \/ (endpoint[c] = "fickle" /\ c \in overlapped)
=============================================================================
