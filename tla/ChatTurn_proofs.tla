--------------------------- MODULE ChatTurn_proofs ---------------------------
(***************************************************************************)
(* Proofs about ChatTurn, for any number of turns, retries and refreshes   *)
(* and replies of any length.                                              *)
(***************************************************************************)
EXTENDS ChatTurn, TLAPS

-----------------------------------------------------------------------------
(* Types, with what the endpoint has sent on each connection *)

\* A connection that can still send has sent no terminal frame; one that is
\* about to end its stream has sent exactly one.
SoundNet ==
    {n \in NetState :
        /\ n.terminals <= 1
        /\ n.srv \in {"off", "request", "first", "provider", "stream"} =>
               n.terminals = 0 /\ n.wire # "eof"
        /\ n.srv = "closing" => n.terminals = 1
        /\ n.wire = "eof" => n.terminals = 1}

TypeInv == TypeOK /\ net \in [Turn -> SoundNet]

LEMMA RestTypes ==
    /\ NoBubble \in BubbleState
    /\ FreshTurn \in TurnState
    /\ \A srv \in {"off", "request", "first"} : Net(srv) \in SoundNet
    /\ SoundNet \subseteq NetState
<1>1. 0 \in 0..MaxRetries /\ 0 \in 0..MaxRefresh /\ 0 \in 0..ReplyLen /\ 0 \in 0..2
  BY BoundAssumption
<1>2. NoBubble \in BubbleState
  BY DEF NoBubble, BubbleState
<1>3. FreshTurn \in TurnState
  BY <1>1 DEF FreshTurn, TurnState
<1>4. ASSUME NEW srv \in {"off", "request", "first"} PROVE Net(srv) \in SoundNet
  BY <1>1 DEF Net, NetState, SoundNet
<1> QED BY <1>2, <1>3, <1>4 DEF SoundNet

LEMMA TurnType ==
    ASSUME TypeInv, NEW t \in Turn
    PROVE  turn[t] \in TurnState /\ net[t] \in SoundNet /\ bubble[t] \in BubbleState
           /\ page \in PageState
  BY DEF TypeInv, TypeOK

LEMMA OverType ==
    ASSUME TypeInv, NEW t \in Turn
    PROVE  /\ Over(t) \in TurnState
           /\ Over(t).pc = "over" /\ ~Over(t).aborted
<1>1. 0 \in 0..MaxRetries /\ 0 \in 0..MaxRefresh
  BY BoundAssumption
<1> QED BY <1>1, TurnType DEF Over, TurnState

LEMMA AbortedType ==
    ASSUME TypeInv, NEW u \in Turn
    PROVE  /\ Aborted(u) \in TurnState
           /\ Aborted(u).pc \notin {"fetch", "read"}
           /\ Aborted(u).pc # "over" => Aborted(u).aborted
<1>1. CASE turn[u].pc \in {"fetch", "read"}
  BY <1>1, OverType DEF Aborted
<1>2. CASE turn[u].pc \notin {"fetch", "read"}
  BY <1>2, TurnType DEF Aborted, TurnState
<1> QED BY <1>1, <1>2

\* The effect of moving one turn and one connection.
LEMMA TurnMoves ==
    ASSUME TypeInv, NEW t \in Turn, NEW s \in TurnState, turn' = [turn EXCEPT ![t] = s]
    PROVE  /\ turn' \in [Turn -> TurnState] /\ turn'[t] = s
           /\ \A u \in Turn \ {t} : turn'[u] = turn[u]
  BY DEF TypeInv, TypeOK

LEMMA NetMoves ==
    ASSUME TypeInv, NEW t \in Turn, NEW n \in SoundNet, net' = [net EXCEPT ![t] = n]
    PROVE  net' \in [Turn -> SoundNet]
  BY DEF TypeInv

\* The effect of a callback of turn t on the page and on its bubbles.
LEMMA CallbackEffect ==
    ASSUME TypeInv, NEW t \in Turn, OnChunk(t) \/ OnDone(t) \/ OnError(t)
    PROVE  /\ page' \in PageState /\ bubble' \in [Turn -> BubbleState]
           /\ page'.signedIn = page.signedIn /\ page'.active = page.active
           /\ OnChunk(t) => page'.streaming = page.streaming
           /\ OnDone(t) \/ OnError(t) => ~page'.streaming
           /\ \A b \in Turn :
                bubble'[b] = bubble[b] \/ (b = page.active /\ bubble'[b].from = t)
<1>0. page \in PageState /\ bubble \in [Turn -> BubbleState]
  BY DEF TypeInv, TypeOK
<1>1. ASSUME NEW shows \in {"text", "error"}, Show(t, shows)
      PROVE  /\ bubble' \in [Turn -> BubbleState]
             /\ \A b \in Turn :
                  bubble'[b] = bubble[b] \/ (b = page.active /\ bubble'[b].from = t)
  <2>1. [shows |-> shows, from |-> t] \in BubbleState
        /\ [shows |-> shows, from |-> t].from = t
    BY DEF BubbleState
  <2> QED BY <1>0, <1>1, <2>1 DEF Show
<1>2. CASE OnChunk(t)
  <2>1. page' = [page EXCEPT !.connError = FALSE] /\ Show(t, "text")
    BY <1>2 DEF OnChunk
  <2>2. /\ page' \in PageState /\ page'.signedIn = page.signedIn
        /\ page'.active = page.active /\ page'.streaming = page.streaming
    BY <1>0, <2>1 DEF PageState
  <2>3. ~(OnDone(t) \/ OnError(t)) \/ ~page'.streaming
    BY <1>0 DEF OnDone, OnError, PageState
  <2> QED BY <1>1, <2>1, <2>2, <2>3
<1>3. CASE OnDone(t)
  <2>1. page' = [page EXCEPT !.streaming = FALSE] /\ Show(t, "text")
    BY <1>3 DEF OnDone
  <2>2. /\ page' \in PageState /\ page'.signedIn = page.signedIn
        /\ page'.active = page.active /\ ~page'.streaming
    BY <1>0, <2>1 DEF PageState
  <2>3. OnChunk(t) => page'.streaming = page.streaming
    BY <1>0 DEF OnChunk, PageState
  <2> QED BY <1>1, <2>1, <2>2, <2>3
<1>4. CASE OnError(t)
  <2>1. page' = [page EXCEPT !.streaming = FALSE, !.connError = TRUE] /\ Show(t, "error")
    BY <1>4 DEF OnError
  <2>2. /\ page' \in PageState /\ page'.signedIn = page.signedIn
        /\ page'.active = page.active /\ ~page'.streaming
    BY <1>0, <2>1 DEF PageState
  <2>3. OnChunk(t) => page'.streaming = page.streaming
    BY <1>0 DEF OnChunk, PageState
  <2> QED BY <1>1, <2>1, <2>2, <2>3
<1> QED BY <1>2, <1>3, <1>4

LEMMA LeavePageEffect ==
    ASSUME TypeInv, LeavePage
    PROVE  /\ page' \in PageState /\ ~page'.signedIn /\ page'.active = NoTurn
           /\ bubble' \in [Turn -> BubbleState]
           /\ \A b \in Turn : bubble'[b] = NoBubble
<1>1. page \in PageState
  BY DEF TypeInv, TypeOK
<1>2. page' \in PageState /\ ~page'.signedIn /\ page'.active = NoTurn
  BY <1>1 DEF LeavePage, PageState
<1> QED BY <1>2, RestTypes DEF LeavePage

\* What a send makes of the page and of the other turns.
Sent(t, shown) ==
    /\ page'.active = t /\ page'.streaming /\ page'.signedIn = page.signedIn
    /\ current' = t
    /\ \A b \in Turn : bubble'[b] = shown[b] \/ bubble'[b].shows = "empty"
    /\ turn'[t].pc = "fetch" /\ ~turn'[t].aborted
    /\ \A u \in Turn \ {t} : turn'[u] = IF u = current THEN Aborted(u) ELSE turn[u]

LEMMA SendEffect ==
    ASSUME TypeInv, NEW t \in Turn, NEW valid \in BOOLEAN, NEW session \in BOOLEAN,
           NEW shown \in [Turn -> BubbleState], StartSend(t, valid, session, shown)
    PROVE  TypeInv' /\ Sent(t, shown)
<1> DEFINE fresh == [FreshTurn EXCEPT !.pc = "fetch", !.valid = valid]
           empty == [shows |-> "empty", from |-> NoTurn]
<1>1. fresh \in TurnState /\ fresh.pc = "fetch" /\ ~fresh.aborted
  BY RestTypes DEF TurnState, FreshTurn
<1>2. turn' \in [Turn -> TurnState]
      /\ turn'[t] = fresh
      /\ \A u \in Turn \ {t} : turn'[u] = IF u = current THEN Aborted(u) ELSE turn[u]
  <2>1. turn' = [u \in Turn |-> IF u = t THEN fresh
                                ELSE IF u = current THEN Aborted(u) ELSE turn[u]]
    BY DEF StartSend
  <2> HIDE DEF fresh
  <2> QED BY <1>1, <2>1, AbortedType, TurnType
<1>3. empty \in BubbleState /\ empty.shows = "empty"
  BY DEF BubbleState
<1>4. bubble' \in [Turn -> BubbleState]
      /\ \A b \in Turn : bubble'[b] = shown[b] \/ bubble'[b].shows = "empty"
  <2>1. bubble' = [shown EXCEPT ![t] = empty]
    BY DEF StartSend
  <2> HIDE DEF empty
  <2> QED BY <1>3, <2>1
<1>5. /\ page' \in PageState /\ page'.active = t /\ page'.streaming
      /\ page'.signedIn = page.signedIn
  BY DEF StartSend, TypeInv, TypeOK, PageState
<1>6. net' \in [Turn -> SoundNet]
  BY RestTypes, TurnType DEF StartSend
<1>7. current' = t /\ watchdog' \in Turn \cup {NoTurn}
  BY DEF StartSend, TypeInv, TypeOK
<1>8. net' \in [Turn -> NetState]
  BY <1>6, RestTypes
<1>9. TypeInv'
  BY <1>2, <1>4, <1>5, <1>6, <1>7, <1>8 DEF TypeInv, TypeOK
<1> QED BY <1>1, <1>2, <1>4, <1>5, <1>7, <1>9 DEF Sent

-----------------------------------------------------------------------------
(* The page: which turn may write, and where *)

\* abort() leaves no turn in a fetch or a read: those reject at once.
CallInv == \A t \in Turn : turn[t].pc \in {"fetch", "read"} => ~turn[t].aborted

\* The bubble that callbacks write to is the one of the last send, and none
\* once the page has been left.
ActiveInv == page.active = IF page.signedIn THEN current ELSE NoTurn

\* Inductive strengthening of InputLockedIffLive and OwnBubbleOnly.
PageInv == CallInv /\ ActiveInv /\ InputLockedIffLive /\ OwnBubbleOnly

\* A live turn writes to its own bubble, or to none.
LEMMA LiveWritesOwn ==
    ASSUME TypeInv, PageInv, NEW t \in Turn, Live(t), NEW b \in Turn, b = page.active
    PROVE  b = t /\ page.signedIn /\ current = t
  BY TurnAssumption DEF PageInv, ActiveInv, InputLockedIffLive

\* A turn that moves without a callback, alive before and after or neither.
LEMMA MoveKeeps ==
    ASSUME TypeInv, PageInv, NEW t \in Turn,
           UNCHANGED <<page, bubble, current>>,
           \A u \in Turn \ {t} : turn'[u] = turn[u],
           turn'[t].pc \in {"fetch", "read"} => ~turn'[t].aborted,
           Live(t)' <=> Live(t)
    PROVE  PageInv'
<1>1. CallInv' /\ ActiveInv' /\ OwnBubbleOnly'
  BY DEF PageInv, CallInv, ActiveInv, OwnBubbleOnly
<1>2. \A u \in Turn \ {t} : Live(u)' <=> Live(u)
  BY DEF Live
<1>3. InputLockedIffLive'
  BY <1>2 DEF PageInv, InputLockedIffLive
<1> QED BY <1>1, <1>3 DEF PageInv

\* A live turn that runs a callback: it goes on after a chunk, and is over
\* after the other two.
LEMMA CallbackKeeps ==
    ASSUME TypeInv, PageInv, NEW t \in Turn, Live(t), UNCHANGED current,
           \A u \in Turn \ {t} : turn'[u] = turn[u],
           turn'[t].pc \in {"fetch", "read"} => ~turn'[t].aborted,
           \/ OnChunk(t) /\ Live(t)'
           \/ (OnDone(t) \/ OnError(t)) /\ ~Live(t)'
    PROVE  PageInv' /\ page' \in PageState /\ bubble' \in [Turn -> BubbleState]
<1>1. /\ page' \in PageState /\ bubble' \in [Turn -> BubbleState]
      /\ page'.signedIn = page.signedIn /\ page'.active = page.active
      /\ \A b \in Turn :
           bubble'[b] = bubble[b] \/ (b = page.active /\ bubble'[b].from = t)
      /\ \/ Live(t)' /\ page'.streaming = page.streaming
         \/ ~Live(t)' /\ ~page'.streaming
  BY CallbackEffect
<1>2. CallInv' /\ ActiveInv'
  BY <1>1 DEF PageInv, CallInv, ActiveInv
<1>3. OwnBubbleOnly'
  BY <1>1, LiveWritesOwn DEF PageInv, OwnBubbleOnly
<1>4. \A u \in Turn \ {t} : Live(u)' <=> Live(u)
  BY DEF Live
<1>5. InputLockedIffLive'
  BY <1>1, <1>4 DEF PageInv, InputLockedIffLive
<1> QED BY <1>1, <1>2, <1>3, <1>5 DEF PageInv

\* The messages a send starts from: those of the page, some of them dropped.
Shown(shown) ==
    /\ shown \in [Turn -> BubbleState]
    /\ \A b \in Turn : shown[b] = bubble[b] \/ shown[b] = NoBubble

\* A send takes the page over from every other turn.
LEMMA SendKeeps ==
    ASSUME TypeInv, PageInv, NEW t \in Turn, NEW valid \in BOOLEAN,
           NEW session \in BOOLEAN, NEW shown, Shown(shown), page.signedIn, StartSend(t, valid, session, shown)
    PROVE  TypeInv' /\ PageInv'
<1>0. shown \in [Turn -> BubbleState]
  BY DEF Shown
<1>1. TypeInv' /\ Sent(t, shown)
  BY <1>0, SendEffect
<1> USE DEF Sent
<1>2. CallInv'
  BY <1>1, AbortedType DEF PageInv, CallInv
<1>3. ActiveInv'
  BY <1>1 DEF ActiveInv
<1>4. OwnBubbleOnly'
  BY <1>1 DEF PageInv, OwnBubbleOnly, NoBubble, Shown
<1>5. Live(t)'
  BY <1>1 DEF Live
<1>6. \A u \in Turn \ {t} : ~Live(u)'
  <2> SUFFICES ASSUME NEW u \in Turn \ {t} PROVE ~Live(u)'
    OBVIOUS
  <2>1. CASE u = current
    BY <1>1, <2>1, AbortedType DEF Live
  <2>2. CASE u # current
    BY <1>1, <2>2 DEF Live, PageInv, InputLockedIffLive
  <2> QED BY <2>1, <2>2
<1>7. InputLockedIffLive'
  BY <1>1, <1>5, <1>6 DEF InputLockedIffLive
<1> QED BY <1>1, <1>2, <1>3, <1>4, <1>7 DEF PageInv

\* The page is left: nothing of it is shown any more.
LEMMA LeaveKeeps ==
    ASSUME TypeInv, PageInv, LeavePage,
           \A u \in Turn : turn'[u].pc \in {"fetch", "read"} => ~turn'[u].aborted
    PROVE  PageInv' /\ page' \in PageState /\ bubble' \in [Turn -> BubbleState]
<1>1. /\ page' \in PageState /\ ~page'.signedIn /\ page'.active = NoTurn
      /\ bubble' \in [Turn -> BubbleState] /\ \A b \in Turn : bubble'[b] = NoBubble
  BY LeavePageEffect
<1> QED BY <1>1 DEF PageInv, CallInv, ActiveInv, InputLockedIffLive, OwnBubbleOnly,
                    NoBubble

-----------------------------------------------------------------------------
(* The steps *)

LEMMA ChatInit == Init => TypeInv /\ PageInv
<1> SUFFICES ASSUME Init PROVE TypeInv /\ PageInv
  OBVIOUS
<1>1. PICK token \in RefreshToken, session \in BOOLEAN :
        page = [signedIn |-> TRUE, refreshToken |-> token, session |-> session,
                streaming |-> FALSE, connError |-> FALSE, active |-> NoTurn]
  BY DEF Init
<1>2. page \in PageState /\ page.active = NoTurn /\ page.signedIn /\ ~page.streaming
  BY <1>1, RefreshTokenAssumption DEF PageState
<1>3. bubble = [t \in Turn |-> NoBubble] /\ turn = [t \in Turn |-> FreshTurn]
      /\ current = NoTurn /\ watchdog = NoTurn /\ net = [t \in Turn |-> Net("off")]
  BY DEF Init
<1>4. TypeInv
  BY <1>2, <1>3, RestTypes DEF TypeInv, TypeOK
<1>5. PageInv
  BY <1>2, <1>3 DEF PageInv, CallInv, ActiveInv, InputLockedIffLive, OwnBubbleOnly,
                    Live, FreshTurn, NoBubble
<1> QED BY <1>4, <1>5

\* The types after a step that moves one turn, given those of the other parts.
LEMMA TypeMove ==
    ASSUME TypeInv, NEW t \in Turn, NEW s \in TurnState, turn' = [turn EXCEPT ![t] = s],
           page' \in PageState, bubble' \in [Turn -> BubbleState], UNCHANGED current,
           watchdog' \in {watchdog, t, NoTurn}, net' \in [Turn -> SoundNet]
    PROVE  TypeInv'
<1>1. turn' \in [Turn -> TurnState]
  BY TurnMoves
<1>2. net' \in [Turn -> NetState]
  BY RestTypes
<1> QED BY <1>1, <1>2 DEF TypeInv, TypeOK

LEMMA FetchAgainKeeps ==
    ASSUME TypeInv, PageInv, NEW t \in Turn, turn[t].pc \in {"refresh", "backoff"},
           FetchAgain(t)
    PROVE  TypeInv' /\ PageInv'
<1> DEFINE s == [turn[t] EXCEPT !.pc = "fetch", !.upTo = 0,
                                !.stale = turn[t].stale \/ turn[t].upTo > 0]
<1>0. page \in PageState /\ bubble \in [Turn -> BubbleState]
      /\ net \in [Turn -> SoundNet] /\ UNCHANGED <<page, bubble, current>>
  BY DEF TypeInv, TypeOK, FetchAgain
<1>1. CASE turn[t].aborted
  <2>1. turn' = [turn EXCEPT ![t] = Over(t)] /\ watchdog' = NoTurn /\ UNCHANGED net
    BY <1>1 DEF FetchAgain
  <2>2. turn'[t] = Over(t) /\ \A u \in Turn \ {t} : turn'[u] = turn[u]
    BY <2>1, OverType, TurnMoves
  <2>3. Live(t)' <=> Live(t)
    BY <1>1, <2>2, OverType DEF Live
  <2>4. PageInv'
    BY <1>0, <2>2, <2>3, OverType, MoveKeeps
  <2> QED BY <1>0, <2>1, <2>4, OverType, TypeMove
<1>2. CASE ~turn[t].aborted
  <2>1. 0 \in 0..ReplyLen /\ (turn[t].stale \/ turn[t].upTo > 0) \in BOOLEAN
    BY BoundAssumption
  <2>2. s \in TurnState /\ s.pc = "fetch" /\ s.aborted = turn[t].aborted
    BY <2>1, TurnType DEF TurnState
  <2>3. turn' = [turn EXCEPT ![t] = s] /\ UNCHANGED watchdog
        /\ net' = [net EXCEPT ![t] = Net("request")]
    BY <1>2 DEF FetchAgain
  <2> HIDE DEF s
  <2>4. turn'[t] = s /\ \A u \in Turn \ {t} : turn'[u] = turn[u]
    BY <2>2, <2>3, TurnMoves
  <2>5. net' \in [Turn -> SoundNet]
    BY <2>3, RestTypes, NetMoves
  <2>6. Live(t)' <=> Live(t)
    BY <1>2, <2>2, <2>4 DEF Live
  <2>7. PageInv'
    BY <1>0, <1>2, <2>2, <2>4, <2>6, MoveKeeps
  <2> QED BY <1>0, <2>2, <2>3, <2>5, <2>7, TypeMove
<1> QED BY <1>1, <1>2

LEMMA FailedAttemptKeeps ==
    ASSUME TypeInv, PageInv, NEW t \in Turn, turn[t].pc \in {"fetch", "read"},
           FailedAttempt(t)
    PROVE  TypeInv' /\ PageInv'
<1> DEFINE s == [turn[t] EXCEPT !.pc = "backoff", !.attempt = @ + 1]
<1>0. Live(t) /\ ~turn[t].aborted
  BY DEF Live, PageInv, CallInv
<1>1. watchdog' = NoTurn /\ net' \in [Turn -> SoundNet] /\ UNCHANGED current
  BY RestTypes, NetMoves DEF FailedAttempt
<1>2. CASE turn[t].attempt < MaxRetries
  <2>1. turn[t].attempt + 1 \in 0..MaxRetries
    BY <1>2, TurnType, BoundAssumption DEF TurnState
  <2>2. s \in TurnState /\ s.pc = "backoff" /\ s.aborted = turn[t].aborted
    BY <2>1, TurnType DEF TurnState
  <2>3. turn' = [turn EXCEPT ![t] = s] /\ UNCHANGED <<page, bubble>>
    BY <1>2 DEF FailedAttempt
  <2> HIDE DEF s
  <2>4. turn'[t] = s /\ \A u \in Turn \ {t} : turn'[u] = turn[u]
    BY <2>2, <2>3, TurnMoves
  <2>5. Live(t)'
    BY <1>0, <2>2, <2>4 DEF Live
  <2>6. page' \in PageState /\ bubble' \in [Turn -> BubbleState]
    BY <2>3 DEF TypeInv, TypeOK
  <2>7. PageInv'
    BY <1>0, <1>1, <2>2, <2>3, <2>4, <2>5, MoveKeeps
  <2> QED BY <1>1, <2>2, <2>3, <2>6, <2>7, TypeMove
<1>3. CASE ~(turn[t].attempt < MaxRetries)
  <2>1. turn' = [turn EXCEPT ![t] = Over(t)] /\ OnError(t)
    BY <1>3 DEF FailedAttempt
  <2>2. turn'[t] = Over(t) /\ \A u \in Turn \ {t} : turn'[u] = turn[u]
    BY <2>1, OverType, TurnMoves
  <2>3. ~Live(t)'
    BY <2>2, OverType DEF Live
  <2>4. PageInv' /\ page' \in PageState /\ bubble' \in [Turn -> BubbleState]
    BY <1>0, <1>1, <2>1, <2>2, <2>3, OverType, CallbackKeeps
  <2> QED BY <1>1, <2>1, <2>4, OverType, TypeMove
<1> QED BY <1>2, <1>3

\* A fetch or a read that ends in a callback ends the turn.
LEMMA EndKeeps ==
    ASSUME TypeInv, PageInv, NEW t \in Turn, turn[t].pc \in {"fetch", "read"},
           OnDone(t) \/ OnError(t), turn' = [turn EXCEPT ![t] = Over(t)],
           UNCHANGED current, watchdog' \in {watchdog, NoTurn},
           net' = [net EXCEPT ![t] = Net("off")]
    PROVE  TypeInv' /\ PageInv'
<1>1. Live(t)
  BY DEF Live, PageInv, CallInv
<1>2. turn'[t] = Over(t) /\ \A u \in Turn \ {t} : turn'[u] = turn[u]
  BY OverType, TurnMoves
<1>3. ~Live(t)'
  BY <1>2, OverType DEF Live
<1>4. PageInv' /\ page' \in PageState /\ bubble' \in [Turn -> BubbleState]
  BY <1>1, <1>2, <1>3, OverType, CallbackKeeps
<1>5. net' \in [Turn -> SoundNet]
  BY RestTypes, NetMoves
<1> QED BY <1>4, <1>5, OverType, TypeMove

LEMMA UserKeeps == ASSUME TypeInv, PageInv, User PROVE TypeInv' /\ PageInv'
<1>0. page \in PageState /\ bubble \in [Turn -> BubbleState] /\ Shown(bubble)
  BY DEF TypeInv, TypeOK, Shown
<1>1. ASSUME NEW t \in Turn, NEW plugins \in BOOLEAN, Submit(t, plugins)
      PROVE  TypeInv' /\ PageInv'
  <2>1. CASE page.session
    <3>1. StartSend(t, ~plugins, TRUE, bubble) /\ page.signedIn /\ (~plugins) \in BOOLEAN
      BY <1>1, <2>1 DEF Submit
    <3> QED BY <1>0, <3>1, SendKeeps
  <2>2. CASE ~page.session
    <3> DEFINE s == [turn[t] EXCEPT !.pc = "creating", !.valid = ~plugins]
    <3>1. /\ turn[t].pc = "idle" /\ page' = [page EXCEPT !.connError = FALSE]
          /\ turn' = [turn EXCEPT ![t] = s]
          /\ UNCHANGED <<bubble, current, watchdog, net>>
      BY <1>1, <2>2 DEF Submit
    <3>2. s \in TurnState /\ s.pc = "creating"
      BY TurnType DEF TurnState
    <3> HIDE DEF s
    <3>3. turn'[t] = s /\ \A u \in Turn \ {t} : turn'[u] = turn[u]
      BY <3>1, <3>2, TurnMoves
    <3>4. /\ page' \in PageState /\ page'.signedIn = page.signedIn
          /\ page'.active = page.active /\ page'.streaming = page.streaming
      BY <1>0, <3>1 DEF PageState
    <3>5. \A u \in Turn : Live(u)' <=> Live(u)
      BY <3>1, <3>2, <3>3 DEF Live
    <3>6. PageInv'
      BY <3>1, <3>2, <3>3, <3>4, <3>5
         DEF PageInv, CallInv, ActiveInv, InputLockedIffLive, OwnBubbleOnly
    <3>7. TypeInv'
      BY <1>0, <3>1, <3>2, <3>4, TypeMove DEF TypeInv
    <3> QED BY <3>6, <3>7
  <2> QED BY <2>1, <2>2
<1>2. ASSUME NEW t \in Turn, NEW plugins \in BOOLEAN, Retry(t, plugins)
      PROVE  TypeInv' /\ PageInv'
  <2> DEFINE shown == [b \in Turn |-> IF b = page.active /\ bubble[b].shows = "error"
                                      THEN NoBubble ELSE bubble[b]]
  <2>1. Shown(shown)
    BY <1>0, RestTypes DEF Shown
  <2>2. StartSend(t, ~plugins /\ page.session, page.session, shown) /\ page.signedIn
    BY <1>2 DEF Retry
  <2>3. page.session \in BOOLEAN /\ (~plugins /\ page.session) \in BOOLEAN
    BY <1>0 DEF PageState
  <2> HIDE DEF shown
  <2> QED BY <2>1, <2>2, <2>3, SendKeeps
<1>3. CASE Logout
  <2>1. LeavePage /\ UNCHANGED current /\ watchdog' = NoTurn
    BY <1>3 DEF Logout
  <2>2. turn' = [u \in Turn |-> IF u = current THEN Aborted(u) ELSE turn[u]]
    BY <1>3 DEF Logout
  <2>3. /\ turn' \in [Turn -> TurnState]
        /\ \A u \in Turn : turn'[u] = IF u = current THEN Aborted(u) ELSE turn[u]
    BY <2>2, AbortedType, TurnType
  <2>4. \A u \in Turn : turn'[u].pc \in {"fetch", "read"} => ~turn'[u].aborted
    BY <2>3, AbortedType DEF PageInv, CallInv
  <2>5. PageInv' /\ page' \in PageState /\ bubble' \in [Turn -> BubbleState]
    BY <2>1, <2>4, LeaveKeeps
  <2>6. net' \in [Turn -> SoundNet]
    BY <1>3, RestTypes, TurnType DEF Logout
  <2>7. net' \in [Turn -> NetState]
    BY <2>6, RestTypes
  <2> QED BY <2>1, <2>3, <2>5, <2>6, <2>7 DEF TypeInv, TypeOK
<1>4. CASE NewChat
  <2>1. /\ bubble' = [t \in Turn |-> NoBubble] /\ page' = [page EXCEPT !.session = FALSE]
        /\ UNCHANGED <<turn, current, watchdog, net>>
    BY <1>4 DEF NewChat
  <2>2. /\ page' \in PageState /\ page'.signedIn = page.signedIn
        /\ page'.active = page.active /\ page'.streaming = page.streaming
    BY <1>0, <2>1 DEF PageState
  <2>3. TypeInv'
    BY <2>1, <2>2, RestTypes DEF TypeInv, TypeOK
  <2>4. \A u \in Turn : Live(u)' <=> Live(u)
    BY <2>1 DEF Live
  <2>5. PageInv'
    BY <2>1, <2>2, <2>4 DEF PageInv, CallInv, ActiveInv, InputLockedIffLive,
                            OwnBubbleOnly, NoBubble
  <2> QED BY <2>3, <2>5
<1> QED BY <1>1, <1>2, <1>3, <1>4 DEF User

LEMMA ClientKeeps ==
    ASSUME TypeInv, PageInv, NEW t \in Turn, Client(t) PROVE TypeInv' /\ PageInv'
<1>0. page \in PageState /\ bubble \in [Turn -> BubbleState] /\ Shown(bubble)
      /\ net \in [Turn -> SoundNet]
  BY DEF TypeInv, TypeOK, Shown
<1>1. CASE SessionCreated(t)
  <2>1. turn[t].valid \in BOOLEAN /\ StartSend(t, turn[t].valid, TRUE, bubble)
        /\ page.signedIn
    BY <1>1, TurnType DEF SessionCreated, TurnState
  <2> QED BY <1>0, <2>1, SendKeeps
<1>2. CASE FetchAccepted(t)
  <2> DEFINE s == [turn[t] EXCEPT !.pc = "read"]
  <2>1. /\ turn[t].pc = "fetch" /\ turn' = [turn EXCEPT ![t] = s]
        /\ net' = [net EXCEPT ![t] = Net("first")] /\ watchdog' = t
        /\ UNCHANGED <<page, bubble, current>>
    BY <1>2 DEF FetchAccepted
  <2>2. s \in TurnState /\ s.pc = "read" /\ s.aborted = turn[t].aborted
    BY TurnType DEF TurnState
  <2> HIDE DEF s
  <2>3. turn'[t] = s /\ \A u \in Turn \ {t} : turn'[u] = turn[u]
    BY <2>1, <2>2, TurnMoves
  <2>4. ~turn[t].aborted
    BY <2>1 DEF PageInv, CallInv
  <2>5. Live(t)' <=> Live(t)
    BY <2>1, <2>2, <2>3 DEF Live
  <2>6. PageInv'
    BY <2>1, <2>2, <2>3, <2>4, <2>5, MoveKeeps
  <2>7. net' \in [Turn -> SoundNet]
    BY <2>1, RestTypes, NetMoves
  <2> QED BY <1>0, <2>1, <2>2, <2>6, <2>7, TypeMove
<1>3. CASE FetchRefused(t)
  BY <1>3, EndKeeps DEF FetchRefused
<1>4. CASE FetchUnauthorized(t)
  <2>1. CASE page.refreshToken = "absent"
    BY <1>4, <2>1, EndKeeps DEF FetchUnauthorized
  <2>2. CASE page.refreshToken # "absent"
    <3> DEFINE s == [turn[t] EXCEPT !.pc = "refresh",
                                    !.refreshes = turn[t].refreshes + 1]
    <3>1. /\ turn[t].pc = "fetch" /\ turn[t].refreshes < MaxRefresh
          /\ turn' = [turn EXCEPT ![t] = s]
          /\ net' = [net EXCEPT ![t] = Net("off")]
          /\ UNCHANGED <<page, bubble, current, watchdog>>
      BY <1>4, <2>2 DEF FetchUnauthorized
    <3>2. turn[t].refreshes + 1 \in 0..MaxRefresh
      BY <3>1, TurnType, BoundAssumption DEF TurnState
    <3>3. s \in TurnState /\ s.pc = "refresh" /\ s.aborted = turn[t].aborted
      BY <3>2, TurnType DEF TurnState
    <3> HIDE DEF s
    <3>4. turn'[t] = s /\ \A u \in Turn \ {t} : turn'[u] = turn[u]
      BY <3>1, <3>3, TurnMoves
    <3>5. Live(t)' <=> Live(t)
      BY <3>1, <3>3, <3>4 DEF Live
    <3>6. PageInv'
      BY <3>1, <3>3, <3>4, <3>5, MoveKeeps
    <3>7. net' \in [Turn -> SoundNet]
      BY <3>1, RestTypes, NetMoves
    <3> QED BY <1>0, <3>1, <3>3, <3>6, <3>7, TypeMove
  <2> QED BY <2>1, <2>2
<1>5. CASE FetchFails(t) \/ ReadBroken(t) \/ WatchdogFires(t)
  BY <1>5, FailedAttemptKeeps DEF FetchFails, ReadBroken, WatchdogFires
<1>6. CASE RefreshGranted(t) \/ BackoffEnds(t)
  BY <1>6, FetchAgainKeeps DEF RefreshGranted, BackoffEnds
<1>7. CASE RefreshDenied(t)
  <2>1. /\ LeavePage /\ turn' = [turn EXCEPT ![t] = Over(t)]
        /\ UNCHANGED <<current, watchdog, net>>
    BY <1>7 DEF RefreshDenied
  <2>2. turn'[t] = Over(t) /\ \A u \in Turn \ {t} : turn'[u] = turn[u]
    BY <2>1, OverType, TurnMoves
  <2>3. \A u \in Turn : turn'[u].pc \in {"fetch", "read"} => ~turn'[u].aborted
    BY <2>2, OverType DEF PageInv, CallInv
  <2>4. PageInv' /\ page' \in PageState /\ bubble' \in [Turn -> BubbleState]
    BY <2>1, <2>3, LeaveKeeps
  <2> QED BY <1>0, <2>1, <2>4, OverType, TypeMove
<1>8. CASE ReadFrame(t)
  <2> DEFINE n == [net[t] EXCEPT !.wire = "none"]
             s == [turn[t] EXCEPT !.upTo = net[t].sent]
  <2>1. /\ turn[t].pc = "read" /\ net' = [net EXCEPT ![t] = n]
        /\ watchdog' = t /\ UNCHANGED current
    BY <1>8 DEF ReadFrame
  <2>2. n \in SoundNet
    BY TurnType DEF SoundNet, NetState
  <2>3. net' \in [Turn -> SoundNet]
    BY <2>1, <2>2, NetMoves
  <2>4. ~turn[t].aborted
    BY <2>1 DEF PageInv, CallInv
  <2>5. Live(t)
    BY <2>1, <2>4 DEF Live
  <2>6. CASE net[t].wire = "chunk"
    <3>1. turn' = [turn EXCEPT ![t] = s] /\ OnChunk(t)
      BY <1>8, <2>6 DEF ReadFrame
    <3>2. s \in TurnState /\ s.pc = turn[t].pc /\ s.aborted = turn[t].aborted
      BY TurnType, RestTypes DEF TurnState, NetState
    <3> HIDE DEF s
    <3>3. turn'[t] = s /\ \A u \in Turn \ {t} : turn'[u] = turn[u]
      BY <3>1, <3>2, TurnMoves
    <3>4. Live(t)'
      BY <2>1, <2>4, <3>2, <3>3 DEF Live
    <3>5. PageInv' /\ page' \in PageState /\ bubble' \in [Turn -> BubbleState]
      BY <2>1, <2>4, <2>5, <3>1, <3>2, <3>3, <3>4, CallbackKeeps
    <3> QED BY <2>1, <2>3, <3>1, <3>2, <3>5, TypeMove
  <2>7. CASE net[t].wire # "chunk"
    <3>1. UNCHANGED <<turn, page, bubble>>
      BY <1>8, <2>7 DEF ReadFrame
    <3>2. Live(t)' <=> Live(t)
      BY <3>1 DEF Live
    <3>3. PageInv'
      BY <2>1, <2>4, <3>1, <3>2, MoveKeeps
    <3>4. net' \in [Turn -> NetState]
      BY <2>3, RestTypes
    <3>5. TypeInv'
      BY <2>1, <2>3, <3>1, <3>4 DEF TypeInv, TypeOK
    <3> QED BY <3>3, <3>5
  <2> QED BY <2>6, <2>7
<1>9. CASE ReadEnd(t)
  <2>1. OnDone(t) \/ OnError(t)
    BY <1>9 DEF ReadEnd
  <2> QED BY <1>9, <2>1, EndKeeps DEF ReadEnd, Finish
<1> QED BY <1>1, <1>2, <1>3, <1>4, <1>5, <1>6, <1>7, <1>8, <1>9 DEF Client

\* The endpoint yields a frame, ends or loses its stream.
LEMMA YieldKeeps ==
    ASSUME TypeInv, NEW t \in Turn, NEW srv, NEW wire, Yield(t, wire, srv),
           \/ srv = "provider" /\ wire = "first" /\ net[t].srv = "first"
           \/ srv = "stream" /\ wire = "chunk" /\ net[t].srv = "stream"
                /\ net[t].sent < ReplyLen
           \/ srv = "closing" /\ wire \in {"done", "error"}
                /\ net[t].srv \in {"provider", "stream"}
           \/ srv = "closed" /\ wire = "eof" /\ net[t].srv = "closing"
           \/ srv = "closed" /\ wire = "broken"
    PROVE  net' \in [Turn -> SoundNet]
<1> DEFINE sent == net[t].sent + (IF wire = "chunk" THEN 1 ELSE 0)
           terminals == net[t].terminals + (IF wire \in {"done", "error"} THEN 1 ELSE 0)
           n == [net[t] EXCEPT !.srv = srv, !.wire = wire, !.sent = sent,
                               !.terminals = terminals]
<1>1. net' = [net EXCEPT ![t] = n]
  BY DEF Yield
<1>2. net[t] \in SoundNet /\ net[t] \in NetState /\ net[t].sent \in 0..ReplyLen
      /\ net[t].terminals \in 0..2
  BY TurnType, RestTypes DEF NetState
<1>3. sent \in 0..ReplyLen
  BY <1>2, BoundAssumption
<1>4. /\ terminals \in 0..2 /\ terminals <= 1
      /\ srv \in {"provider", "stream"} => terminals = 0
      /\ srv = "closing" \/ wire = "eof" => terminals = 1
  BY <1>2 DEF SoundNet
<1> HIDE DEF sent, terminals
<1>5. srv \in {"provider", "stream", "closing", "closed"}
      /\ wire \in {"first", "chunk", "done", "error", "eof", "broken"}
      /\ (srv \in {"provider", "stream"} => wire # "eof")
  OBVIOUS
<1>6. n \in NetState /\ n.srv = srv /\ n.wire = wire /\ n.terminals = terminals
  <2>1. srv \in {"off", "request", "first", "provider", "stream", "closing", "closed"}
        /\ wire \in {"none", "first", "chunk", "done", "error", "eof", "broken"}
    BY <1>5
  <2> QED BY <1>2, <1>3, <1>4, <2>1 DEF NetState
<1> HIDE DEF n
<1>7. n \in SoundNet
  BY <1>4, <1>5, <1>6 DEF SoundNet
<1> QED BY <1>1, <1>7, NetMoves

LEMMA ServerKeeps ==
    ASSUME TypeInv, PageInv, NEW t \in Turn, Server(t) PROVE TypeInv' /\ PageInv'
<1>1. ASSUME UNCHANGED <<page, bubble, turn, current, watchdog>>,
             net' \in [Turn -> SoundNet]
      PROVE  TypeInv' /\ PageInv'
  <2>1. net' \in [Turn -> NetState]
    BY <1>1, RestTypes
  <2>2. TypeInv'
    BY <1>1, <2>1 DEF TypeInv, TypeOK
  <2>3. \A u \in Turn : Live(u)' <=> Live(u)
    BY <1>1 DEF Live
  <2>4. PageInv'
    BY <1>1, <2>3 DEF PageInv, CallInv, ActiveInv, InputLockedIffLive, OwnBubbleOnly
  <2> QED BY <2>2, <2>4
<1>2. ASSUME NEW srv, NEW wire, Yield(t, wire, srv), net' \in [Turn -> SoundNet]
      PROVE  TypeInv' /\ PageInv'
  BY <1>1, <1>2 DEF Yield
<1>3. CASE ProviderReady(t)
  <2> DEFINE n == [net[t] EXCEPT !.srv = "stream"]
  <2>1. net[t].srv = "provider" /\ net' = [net EXCEPT ![t] = n]
        /\ UNCHANGED <<page, bubble, turn, current, watchdog>>
    BY <1>3 DEF ProviderReady
  <2>2. n \in SoundNet
    BY <2>1, TurnType DEF SoundNet, NetState
  <2> QED BY <1>1, <2>1, <2>2, NetMoves
<1>4. CASE FirstFrame(t)
  <2>1. Yield(t, "first", "provider") /\ net[t].srv = "first"
    BY <1>4 DEF FirstFrame, Serving
  <2> QED BY <1>2, <2>1, YieldKeeps
<1>5. CASE Chunk(t)
  <2>1. Yield(t, "chunk", "stream") /\ net[t].srv = "stream" /\ net[t].sent < ReplyLen
    BY <1>5 DEF Chunk, Serving
  <2> QED BY <1>2, <2>1, YieldKeeps
<1>6. CASE ProviderRaises(t)
  <2>1. Yield(t, "error", "closing") /\ net[t].srv \in {"provider", "stream"}
    BY <1>6 DEF ProviderRaises, Serving
  <2> QED BY <1>2, <2>1, YieldKeeps
<1>7. CASE FinalFrame(t)
  <2>1. Yield(t, "done", "closing") /\ net[t].srv = "stream"
    BY <1>7 DEF FinalFrame, Serving
  <2> QED BY <1>2, <2>1, YieldKeeps
<1>8. CASE EndOfStream(t)
  <2>1. Yield(t, "eof", "closed") /\ net[t].srv = "closing"
    BY <1>8 DEF EndOfStream, Serving
  <2> QED BY <1>2, <2>1, YieldKeeps
<1>9. CASE ConnectionBreaks(t)
  <2>1. Yield(t, "broken", "closed")
    BY <1>9 DEF ConnectionBreaks
  <2> QED BY <1>2, <2>1, YieldKeeps
<1> QED BY <1>3, <1>4, <1>5, <1>6, <1>7, <1>8, <1>9 DEF Server

LEMMA ChatStep == TypeInv /\ PageInv /\ [Next]_vars => TypeInv' /\ PageInv'
<1> SUFFICES ASSUME TypeInv, PageInv, [Next]_vars PROVE TypeInv' /\ PageInv'
  OBVIOUS
<1>1. CASE UNCHANGED vars
  <2>1. TypeInv'
    BY <1>1 DEF vars, TypeInv, TypeOK
  <2>2. PageInv'
    BY <1>1 DEF vars, PageInv, CallInv, ActiveInv, InputLockedIffLive, OwnBubbleOnly, Live
  <2> QED BY <2>1, <2>2
<1> QED BY <1>1, UserKeeps, ClientKeeps, ServerKeeps DEF Next

LEMMA ChatInvariant == Spec => [](TypeInv /\ PageInv)
  BY ChatInit, ChatStep, PTL DEF Spec

-----------------------------------------------------------------------------
(* The theorems *)

\* Every variable keeps its type: no more than maxRetries attempts are made.
THEOREM TypeCorrect == Spec => []TypeOK
<1>1. TypeInv => TypeOK
  BY DEF TypeInv
<1> QED BY <1>1, ChatInvariant, PTL

\* The endpoint ends a stream with exactly one terminal frame, however late
\* its provider fails and wherever the connection breaks.
THEOREM OneTerminalFrameSent == Spec => []OneTerminalFrame
<1>1. TypeInv => OneTerminalFrame
  BY DEF TypeInv, SoundNet, OneTerminalFrame
<1> QED BY <1>1, ChatInvariant, PTL

\* Whatever the order of answers, aborts, refreshes and backoffs, the input is
\* locked exactly while the turn of the last send is running.
THEOREM InputLockFollowsTurn == Spec => []InputLockedIffLive
<1>1. PageInv => InputLockedIffLive
  BY DEF PageInv
<1> QED BY <1>1, ChatInvariant, PTL

\* No callback of a turn that a later send has taken over reaches the message
\* of that later send.
THEOREM TurnsKeepToTheirBubble == Spec => []OwnBubbleOnly
<1>1. PageInv => OwnBubbleOnly
  BY DEF PageInv
<1> QED BY <1>1, ChatInvariant, PTL
==============================================================================
