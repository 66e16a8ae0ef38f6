------------------------------ MODULE ChatTurn ------------------------------
(***************************************************************************)
(* One chat page talking to the streaming endpoint: ChatPage.tsx with its  *)
(* hook useSseChat.ts and the auth store of agentcook-app on one side, and *)
(* POST /api/v1/chat/stream of agentcook (routers/chat.py) on the other.   *)
(*                                                                         *)
(* A turn is one call of send(): a coroutine that fetches, reads frames,   *)
(* refreshes a token, backs off and retries.  A new send aborts the one    *)
(* before it, but an aborted coroutine only notices at its next await on   *)
(* fetch or read: a backoff sleep or a token refresh goes on.  All turns   *)
(* share one heartbeat timer.  An abort that interrupts a fetch or a read  *)
(* runs its catch block before any other event of the page, so it is part  *)
(* of the aborting step.                                                   *)
(*                                                                         *)
(* The text of a reply is the number of chunks read from the attempt now   *)
(* served, and whether text of an abandoned attempt stands before them.    *)
(* parseSseLines looks for a [DONE] line, which this endpoint never sends; *)
(* the "done" and "error" fields of a frame are not looked at.             *)
(***************************************************************************)
EXTENDS Naturals, FiniteSets

CONSTANTS
    Turn,           \* calls of send()
    NoTurn,         \* no such call
    MaxRetries,     \* the hook's maxRetries
    ReplyLen,       \* bound: chunks of the longest reply
    MaxRefresh,     \* bound: token refreshes of one turn
    RefreshToken    \* the refresh tokens the session may have, see Init

ASSUME TurnAssumption == NoTurn \notin Turn
ASSUME BoundAssumption ==
    MaxRetries \in Nat /\ ReplyLen \in Nat /\ MaxRefresh \in Nat
ASSUME RefreshTokenAssumption == RefreshToken \subseteq {"absent", "dead", "live"}

VARIABLES
    page,       \* state of the ChatPage component and of the auth store
    bubble,     \* bubble[t]: the assistant message created for turn t
    turn,       \* turn[t]: the coroutine send() of turn t
    current,    \* abortRef.current: the turn the next abort() hits
    watchdog,   \* heartbeatTimerRef.current: the turn whose timer runs
    net         \* net[t]: server and connection of t's latest request

vars == <<page, bubble, turn, current, watchdog, net>>

PageState ==
    [signedIn : BOOLEAN, refreshToken : {"absent", "dead", "live"},
     session : BOOLEAN, streaming : BOOLEAN, connError : BOOLEAN,
     active : Turn \cup {NoTurn}]

BubbleState ==
    [shows : {"none", "empty", "text", "error"}, from : Turn \cup {NoTurn}]

TurnState ==
    [pc : {"idle", "creating", "fetch", "refresh", "backoff", "read", "over"},
     valid : BOOLEAN, aborted : BOOLEAN, attempt : 0..MaxRetries,
     refreshes : 0..MaxRefresh, stale : BOOLEAN, upTo : 0..ReplyLen]

\* wire is what the next reader.read() finds.
NetState ==
    [srv : {"off", "request", "first", "provider", "stream", "closing", "closed"},
     sent : 0..ReplyLen, terminals : 0..2,
     wire : {"none", "first", "chunk", "done", "error", "eof", "broken"}]

TypeOK ==
    /\ page \in PageState
    /\ bubble \in [Turn -> BubbleState]
    /\ turn \in [Turn -> TurnState]
    /\ current \in Turn \cup {NoTurn}
    /\ watchdog \in Turn \cup {NoTurn}
    /\ net \in [Turn -> NetState]

NoBubble == [shows |-> "none", from |-> NoTurn]
FreshTurn ==
    [pc |-> "idle", valid |-> TRUE, aborted |-> FALSE, attempt |-> 0,
     refreshes |-> 0, stale |-> FALSE, upTo |-> 0]
Net(srv) == [srv |-> srv, sent |-> 0, terminals |-> 0, wire |-> "none"]

\* The Java login answers without a refresh token: until the page is reloaded
\* there is none ("absent"); then localStorage yields the text "undefined",
\* which /auth/refresh refuses ("dead").  "live" is a deployment with such an
\* endpoint in front.
Init ==
    /\ \E token \in RefreshToken, session \in BOOLEAN :
        page = [signedIn |-> TRUE, refreshToken |-> token, session |-> session,
                streaming |-> FALSE, connError |-> FALSE, active |-> NoTurn]
    /\ bubble = [t \in Turn |-> NoBubble]
    /\ turn = [t \in Turn |-> FreshTurn]
    /\ current = NoTurn
    /\ watchdog = NoTurn
    /\ net = [t \in Turn |-> Net("off")]

-----------------------------------------------------------------------------
(* The callbacks ChatPage hands to the hook.  They write to the bubble that
   is active when they run, if it is still on the page. *)

Show(t, shows) ==
    bubble' = [b \in Turn |->
                 IF b = page.active /\ bubble[b].shows # "none"
                 THEN [shows |-> shows, from |-> t] ELSE bubble[b]]

OnChunk(t) ==
    /\ Show(t, "text")
    /\ page' = [page EXCEPT !.connError = FALSE]

OnDone(t) ==
    /\ Show(t, "text")
    /\ page' = [page EXCEPT !.streaming = FALSE]

OnError(t) ==
    /\ Show(t, "error")
    /\ page' = [page EXCEPT !.streaming = FALSE, !.connError = TRUE]

\* clearAuth(): the page redirects to /login and its state is gone.
LeavePage ==
    /\ page' = [page EXCEPT !.signedIn = FALSE, !.streaming = FALSE,
                            !.connError = FALSE, !.active = NoTurn]
    /\ bubble' = [t \in Turn |-> NoBubble]

-----------------------------------------------------------------------------
(* send() *)

\* send() has returned: only what its reply was is remembered.
Over(t) ==
    [turn[t] EXCEPT !.pc = "over", !.valid = TRUE, !.aborted = FALSE,
                    !.attempt = 0, !.refreshes = 0]

\* abort() of a turn: a fetch or a read rejects and the turn is over at once.
Aborted(u) ==
    IF turn[u].pc \in {"fetch", "read"} THEN Over(u)
    ELSE IF turn[u].pc = "over" THEN turn[u]
    ELSE [turn[u] EXCEPT !.aborted = TRUE]

\* Slip: the send before is not aborted.
StartSendNoAbort(t, valid, session, shown) ==
    /\ page' = [page EXCEPT !.active = t, !.streaming = TRUE,
                            !.connError = FALSE, !.session = session]
    /\ bubble' = [shown EXCEPT ![t] = [shows |-> "empty", from |-> NoTurn]]
    /\ turn' = [turn EXCEPT ![t] = [FreshTurn EXCEPT !.pc = "fetch", !.valid = valid]]
    /\ current' = t
    /\ net' = [net EXCEPT ![t] = Net("request")]
    /\ UNCHANGED watchdog

\* handleSend and handleRetry put an empty assistant message on the page and
\* call send(), whose first line aborts the turn before.
StartSend(t, valid, session, shown) ==
    /\ page' = [page EXCEPT !.active = t, !.streaming = TRUE,
                            !.connError = FALSE, !.session = session]
    /\ bubble' = [shown EXCEPT ![t] = [shows |-> "empty", from |-> NoTurn]]
    /\ turn' = [u \in Turn |->
                  IF u = t THEN [FreshTurn EXCEPT !.pc = "fetch", !.valid = valid]
                  ELSE IF u = current THEN Aborted(u) ELSE turn[u]]
    /\ watchdog' = IF current # NoTurn /\ turn[current].pc \in {"fetch", "read"}
                   THEN NoTurn ELSE watchdog
    /\ current' = t
    /\ net' = [u \in Turn |->
                 IF u = t THEN Net("request")
                 ELSE IF u = current THEN Net("off") ELSE net[u]]

\* The first send of a chat creates the session and waits for its id, with
\* the input still enabled.  The endpoint's schema forbids the "plugins"
\* field that the page adds when plugins are selected.
Submit(t, plugins) ==
    /\ turn[t].pc = "idle" /\ page.signedIn /\ ~page.streaming
    /\ IF page.session
       THEN StartSend(t, ~plugins, TRUE, bubble)
       ELSE /\ page' = [page EXCEPT !.connError = FALSE]
            /\ turn' = [turn EXCEPT ![t] = [@ EXCEPT !.pc = "creating",
                                                     !.valid = ~plugins]]
            /\ UNCHANGED <<bubble, current, watchdog, net>>

\* createSession answers with the new id, or makes up a local one.
SessionCreated(t) ==
    /\ turn[t].pc = "creating" /\ page.signedIn
    /\ StartSend(t, turn[t].valid, TRUE, bubble)

\* handleRetry drops the failed message and sends again with the session of
\* the page, which a page at /chat has not got.
Retry(t, plugins) ==
    /\ turn[t].pc = "idle" /\ page.signedIn
    /\ page.connError /\ ~page.streaming
    /\ StartSend(t, ~plugins /\ page.session, page.session,
                 [b \in Turn |-> IF b = page.active /\ bubble[b].shows = "error"
                                 THEN NoBubble ELSE bubble[b]])

\* The turn ends with a callback; its timer is cleared and it hangs up.
Finish(t) ==
    /\ turn' = [turn EXCEPT ![t] = Over(t)]
    /\ watchdog' = NoTurn
    /\ net' = [net EXCEPT ![t] = Net("off")]
    /\ UNCHANGED current

\* Slip: the timer starts with the first frame only.
FetchAcceptedNoTimer(t) ==
    /\ turn[t].pc = "fetch" /\ turn[t].valid
    /\ turn' = [turn EXCEPT ![t] = [@ EXCEPT !.pc = "read"]]
    /\ net' = [net EXCEPT ![t] = Net("first")]
    /\ UNCHANGED <<page, bubble, current, watchdog>>

\* The endpoint answers 200 with its headers; the heartbeat timer starts.
FetchAccepted(t) ==
    /\ turn[t].pc = "fetch" /\ turn[t].valid
    /\ turn' = [turn EXCEPT ![t] = [@ EXCEPT !.pc = "read"]]
    /\ net' = [net EXCEPT ![t] = Net("first")]
    /\ watchdog' = t
    /\ UNCHANGED <<page, bubble, current>>

\* A status below 500 other than 401: 400 and 422 for a request the schema
\* refuses, 429 and the like from what stands in front.
FetchRefused(t) ==
    /\ turn[t].pc = "fetch"
    /\ OnError(t)
    /\ turn' = [turn EXCEPT ![t] = Over(t)]
    /\ net' = [net EXCEPT ![t] = Net("off")]
    /\ UNCHANGED <<current, watchdog>>

\* 401: the Turnstile token is missing or rejected.  Without a refresh token
\* refreshAccessToken answers false at once.
FetchUnauthorized(t) ==
    /\ turn[t].pc = "fetch"
    /\ net' = [net EXCEPT ![t] = Net("off")]
    /\ IF page.refreshToken = "absent"
       THEN /\ OnError(t)
            /\ turn' = [turn EXCEPT ![t] = Over(t)]
       ELSE /\ turn[t].refreshes < MaxRefresh
            /\ turn' = [turn EXCEPT ![t] = [@ EXCEPT !.pc = "refresh",
                                           !.refreshes = turn[t].refreshes + 1]]
            /\ UNCHANGED <<page, bubble>>
    /\ UNCHANGED <<current, watchdog>>

\* Slip: the catch block reports an aborted fetch like any other.
FetchAgainReportsAbort(t) ==
    /\ IF turn[t].aborted
       THEN /\ turn' = [turn EXCEPT ![t] = Over(t)]
            /\ watchdog' = NoTurn
            /\ OnError(t)
            /\ UNCHANGED net
       ELSE /\ turn' = [turn EXCEPT ![t] = [@ EXCEPT !.pc = "fetch", !.upTo = 0]]
            /\ net' = [net EXCEPT ![t] = Net("request")]
            /\ UNCHANGED <<page, bubble, watchdog>>
    /\ UNCHANGED current

\* A new fetch of turn t; on an aborted signal it rejects, the catch block
\* clears the heartbeat timer, whoever's it is, and the turn returns.
FetchAgain(t) ==
    /\ IF turn[t].aborted
       THEN /\ turn' = [turn EXCEPT ![t] = Over(t)]
            /\ watchdog' = NoTurn
            /\ UNCHANGED net
       ELSE /\ turn' = [turn EXCEPT ![t] =
                  [@ EXCEPT !.pc = "fetch", !.upTo = 0,
                            !.stale = turn[t].stale \/ turn[t].upTo > 0]]
            /\ net' = [net EXCEPT ![t] = Net("request")]
            /\ UNCHANGED watchdog
    /\ UNCHANGED <<page, bubble, current>>

RefreshGranted(t) ==
    /\ turn[t].pc = "refresh" /\ page.refreshToken = "live"
    /\ FetchAgain(t)

RefreshDenied(t) ==
    /\ turn[t].pc = "refresh"
    /\ LeavePage
    /\ turn' = [turn EXCEPT ![t] = Over(t)]
    /\ UNCHANGED <<current, watchdog, net>>

BackoffEnds(t) == turn[t].pc = "backoff" /\ FetchAgain(t)

\* Slip: attempts are not counted against maxRetries.
FailedAttemptForever(t) ==
    /\ watchdog' = NoTurn
    /\ net' = [net EXCEPT ![t] = Net("off")]
    /\ turn' = [turn EXCEPT ![t] = [@ EXCEPT !.pc = "backoff", !.attempt = @ + 1]]
    /\ UNCHANGED <<page, bubble, current>>

\* An attempt has failed: back off, or give up.
FailedAttempt(t) ==
    /\ watchdog' = NoTurn
    /\ net' = [net EXCEPT ![t] = Net("off")]
    /\ IF turn[t].attempt < MaxRetries
       THEN /\ turn' = [turn EXCEPT ![t] = [@ EXCEPT !.pc = "backoff",
                                               !.attempt = turn[t].attempt + 1]]
            /\ UNCHANGED <<page, bubble>>
       ELSE /\ turn' = [turn EXCEPT ![t] = Over(t)]
            /\ OnError(t)
    /\ UNCHANGED current

\* fetch rejects; 5xx is handled alike.
FetchFails(t) == turn[t].pc = "fetch" /\ FailedAttempt(t)

\* The connection breaks under a read.
ReadBroken(t) ==
    /\ turn[t].pc = "read" /\ net[t].wire = "broken"
    /\ FailedAttempt(t)

\* 45 s without a frame: the reader is cancelled.
WatchdogFires(t) ==
    /\ turn[t].pc = "read" /\ watchdog = t
    /\ FailedAttempt(t)

\* The timer starts over; a chunk is appended and shown.
ReadFrame(t) ==
    /\ turn[t].pc = "read"
    /\ net[t].wire \in {"first", "chunk", "done", "error"}
    /\ watchdog' = t
    /\ net' = [net EXCEPT ![t] = [@ EXCEPT !.wire = "none"]]
    /\ IF net[t].wire = "chunk"
       THEN /\ turn' = [turn EXCEPT ![t] = [@ EXCEPT !.upTo = net[t].sent]]
            /\ OnChunk(t)
       ELSE UNCHANGED <<turn, page, bubble>>
    /\ UNCHANGED current

\* The stream has ended: with text it is a reply, without it is an error.
ReadEnd(t) ==
    /\ turn[t].pc = "read" /\ net[t].wire = "eof"
    /\ IF turn[t].stale \/ turn[t].upTo > 0 THEN OnDone(t) ELSE OnError(t)
    /\ Finish(t)

-----------------------------------------------------------------------------
(* The rest of the page *)

\* handleLogout: cancel() and clearAuth().
Logout ==
    /\ page.signedIn
    /\ LeavePage
    /\ turn' = [u \in Turn |-> IF u = current THEN Aborted(u) ELSE turn[u]]
    /\ net' = [u \in Turn |-> IF u = current THEN Net("off") ELSE net[u]]
    /\ watchdog' = NoTurn
    /\ UNCHANGED current

\* handleNewChat clears the messages and leaves the stream alone.
NewChat ==
    /\ page.signedIn
    /\ bubble' = [t \in Turn |-> NoBubble]
    /\ page' = [page EXCEPT !.session = FALSE]
    /\ UNCHANGED <<turn, current, watchdog, net>>

-----------------------------------------------------------------------------
(* chat_stream and its generators: a first frame, chunks, one terminal frame,
   the end.  One frame is under way at a time. *)

Yield(t, wire, srv) ==
    /\ net' = [net EXCEPT ![t] =
          [@ EXCEPT !.srv = srv, !.wire = wire,
                    !.sent = net[t].sent + (IF wire = "chunk" THEN 1 ELSE 0),
                    !.terminals = net[t].terminals +
                                    (IF wire \in {"done", "error"} THEN 1 ELSE 0)]]
    /\ UNCHANGED <<page, bubble, turn, current, watchdog>>

Serving(t, srv) == net[t].srv = srv /\ net[t].wire = "none"

FirstFrame(t) == Serving(t, "first") /\ Yield(t, "first", "provider")

ProviderReady(t) ==
    /\ net[t].srv = "provider"
    /\ net' = [net EXCEPT ![t] = [@ EXCEPT !.srv = "stream"]]
    /\ UNCHANGED <<page, bubble, turn, current, watchdog>>

Chunk(t) ==
    /\ Serving(t, "stream") /\ net[t].sent < ReplyLen
    /\ Yield(t, "chunk", "stream")

\* Slip: no return after the error frame.
ProviderRaisesGoesOn(t) ==
    /\ Serving(t, "provider") \/ Serving(t, "stream")
    /\ Yield(t, "error", "stream")

\* The provider cannot be made, or raises under way.
ProviderRaises(t) ==
    /\ Serving(t, "provider") \/ Serving(t, "stream")
    /\ Yield(t, "error", "closing")

FinalFrame(t) == Serving(t, "stream") /\ Yield(t, "done", "closing")

EndOfStream(t) == Serving(t, "closing") /\ Yield(t, "eof", "closed")

\* The connection is lost, with the frame under way.
ConnectionBreaks(t) ==
    /\ net[t].srv \in {"first", "provider", "stream", "closing"}
    /\ Yield(t, "broken", "closed")

-----------------------------------------------------------------------------
Client(t) ==
    \/ SessionCreated(t)
    \/ FetchAccepted(t) \/ FetchRefused(t) \/ FetchUnauthorized(t) \/ FetchFails(t)
    \/ RefreshGranted(t) \/ RefreshDenied(t) \/ BackoffEnds(t)
    \/ ReadFrame(t) \/ ReadEnd(t) \/ ReadBroken(t) \/ WatchdogFires(t)

User ==
    \/ \E t \in Turn, plugins \in BOOLEAN : Submit(t, plugins) \/ Retry(t, plugins)
    \/ Logout \/ NewChat

Server(t) ==
    \/ FirstFrame(t) \/ ProviderReady(t) \/ Chunk(t) \/ ProviderRaises(t)
    \/ FinalFrame(t) \/ EndOfStream(t) \/ ConnectionBreaks(t)

Next == User \/ \E t \in Turn : Client(t) \/ Server(t)

Spec == Init /\ [][Next]_vars

\* A fetch is answered or rejects, timers run out, pending promises settle.
\* Nothing is assumed of the server once its headers are out, nor of the user.
FairSpec == Spec /\ \A t \in Turn : WF_vars(Client(t))

-----------------------------------------------------------------------------
(* Properties *)

Live(t) == turn[t].pc \in {"fetch", "refresh", "backoff", "read"} /\ ~turn[t].aborted

\* The input is locked exactly while the turn of the last send is running: a
\* callback of an aborted turn never unlocks it, and no path out of send()
\* leaves it locked for good.
InputLockedIffLive ==
    page.signedIn =>
        \A t \in Turn : Live(t) <=> (page.streaming /\ t = current)

\* A turn writes to its own message only, however late the callbacks of a
\* turn that was aborted in its backoff or its token refresh come.
OwnBubbleOnly ==
    \A b \in Turn : bubble[b].shows \in {"text", "error"} => bubble[b].from = b

\* The endpoint never sends a second terminal frame, and never ends a stream
\* without one.
OneTerminalFrame ==
    \A t \in Turn :
        /\ net[t].terminals <= 1
        /\ net[t].wire = "eof" => net[t].terminals = 1

\* Every turn comes to an end, whatever the server does after its headers:
\* with a stalled stream it is the heartbeat timer that ends it.
TurnEnds == \A t \in Turn : (turn[t].pc = "fetch") ~> (turn[t].pc = "over")
=============================================================================
