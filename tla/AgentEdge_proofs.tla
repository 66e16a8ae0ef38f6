--------------------------- MODULE AgentEdge_proofs ---------------------------
(***************************************************************************)
(* Proofs about the parts that face other services and the disk: the gates *)
(* of a chat turn, the gRPC bridge, the connector manager, the MCP         *)
(* registry, the token store of the connector service, the vendor streams  *)
(* and the extension loader.  Each is proved about its own specification,  *)
(* for any constants; the last section is about all of them side by side.  *)
(***************************************************************************)
EXTENDS MCAgentEdge, Recursion_proofs, FiniteSetTheorems, FunctionTheorems

-----------------------------------------------------------------------------
(* ChatGates: no failure opens the gate *)

\* Cloudflare vouched for the request of v, and for no other, with v's token.
Vouched(v) ==
    /\ visit[v].token \in genuine /\ visit[v].token \in VisitTokens
    /\ redeemed[visit[v].token] = {v}

\* Inductive strengthening of GateFailsClosed: what a request that is still
\* being verified has been told.
GateInv ==
    /\ GateTypeOK
    /\ GateFailsClosed
    /\ \A v \in Visits :
        /\ visit[v].at \in {"verifying", "told"} => visit[v].token \in VisitTokens
        /\ visit[v].at = "told" /\ visit[v].success => Vouched(v)
        /\ visit[v].at # "over" => visit[v].answer = "none"

LEMMA FreshVisitType == FreshVisit \in VisitState
  BY DEF FreshVisit, VisitState

LEMMA VisitType == ASSUME GateInv, NEW v \in Visits PROVE visit[v] \in VisitState
  BY DEF GateInv, GateTypeOK

\* A request that moves keeps GateInv when it is admitted, or told "success",
\* only with a token Cloudflare has vouched for.
LEMMA VisitMoves ==
    ASSUME GateInv, NEW v \in Visits, NEW s \in VisitState,
           visit' = [visit EXCEPT ![v] = s], UNCHANGED <<gate, genuine, redeemed, asked>>,
           s.at \in {"verifying", "told"} => s.token \in VisitTokens,
           s.at # "over" => s.answer = "none",
           s.at = "told" => ~s.success,
           (s.answer = "admitted" /\ Enforced /\ ~AsksNobody) =>
                s.token \in genuine /\ redeemed[s.token] = {v}
    PROVE  GateInv'
<1>1. /\ visit' \in [Visits -> VisitState] /\ visit'[v] = s
      /\ \A u \in Visits \ {v} : visit'[u] = visit[u]
  BY DEF GateInv, GateTypeOK
<1>2. GateTypeOK'
  BY <1>1 DEF GateInv, GateTypeOK
<1>3. Enforced' = Enforced /\ AsksNobody' = AsksNobody
  BY DEF Enforced, AsksNobody
<1>4. GateFailsClosed'
  BY <1>1, <1>3 DEF GateInv, GateFailsClosed
<1> QED BY <1>1, <1>2, <1>4 DEF GateInv, Vouched

LEMMA GateStarts == GateInit => GateInv
<1> SUFFICES ASSUME GateInit PROVE GateInv
  OBVIOUS
<1>1. visit \in [Visits -> VisitState] /\ \A v \in Visits : visit[v] = FreshVisit
  BY FreshVisitType DEF GateInit
<1>2. GateTypeOK
  BY <1>1 DEF GateInit, GateTypeOK
<1> QED BY <1>1, <1>2 DEF GateInv, GateFailsClosed, FreshVisit

LEMMA ArriveKeeps ==
    ASSUME GateInv, NEW v \in Visits, NEW b \in BOOLEAN,
           NEW t \in VisitTokens \cup {NoVisitToken}, Arrive(v, b, t)
    PROVE  GateInv'
<1> DEFINE over(answer) == [FreshVisit EXCEPT !.at = "over", !.token = t, !.answer = answer]
           verifying == [FreshVisit EXCEPT !.at = "verifying", !.token = t]
<1>1. \A answer \in {"bad_request", "admitted", "rejected"} :
         /\ over(answer) \in VisitState /\ over(answer).at = "over"
         /\ over(answer).answer = answer /\ over(answer).token = t
  BY FreshVisitType DEF VisitState
<1>2. /\ verifying \in VisitState /\ verifying.at = "verifying"
      /\ verifying.token = t /\ verifying.answer = "none"
  BY FreshVisitType DEF VisitState, FreshVisit
<1>3. UNCHANGED <<gate, genuine, redeemed, asked>>
  BY DEF Arrive
<1>4. CASE b
  <2>1. visit' = [visit EXCEPT ![v] = over("bad_request")]
    BY <1>4 DEF Arrive
  <2> HIDE DEF over
  <2> QED BY <1>1, <1>3, <2>1, VisitMoves
<1>5. CASE ~b /\ (~Enforced \/ AsksNobody)
  <2>1. visit' = [visit EXCEPT ![v] = over("admitted")]
    BY <1>5 DEF Arrive
  <2> HIDE DEF over
  <2> QED BY <1>1, <1>3, <1>5, <2>1, VisitMoves
<1>6. CASE ~b /\ Enforced /\ ~AsksNobody /\ t = NoVisitToken
  <2>1. visit' = [visit EXCEPT ![v] = over("rejected")]
    BY <1>6 DEF Arrive
  <2> HIDE DEF over
  <2> QED BY <1>1, <1>3, <2>1, VisitMoves
<1>7. CASE ~b /\ Enforced /\ ~AsksNobody /\ t # NoVisitToken
  <2>1. visit' = [visit EXCEPT ![v] = verifying]
    BY <1>7 DEF Arrive
  <2> HIDE DEF verifying
  <2> QED BY <1>2, <1>3, <1>7, <2>1, VisitMoves
<1> QED BY <1>4, <1>5, <1>6, <1>7

\* A token is redeemed once: the request it is redeemed for stays the only one.
LEMMA RedeemKeeps ==
    ASSUME GateInv, NEW v \in Visits, Redeem(v) PROVE GateInv'
<1> DEFINE t == visit[v].token
           good == t \in genuine /\ redeemed[t] = {}
           s == [visit[v] EXCEPT !.at = "told", !.success = good]
<1>1. /\ visit[v].at = "verifying" /\ visit' = [visit EXCEPT ![v] = s]
      /\ redeemed' = IF good THEN [redeemed EXCEPT ![t] = {v}] ELSE redeemed
      /\ UNCHANGED <<gate, genuine, asked>>
  BY DEF Redeem
<1>2. t \in VisitTokens
  BY <1>1 DEF GateInv
<1>3. /\ s \in VisitState /\ s.at = "told" /\ s.success = good /\ s.token = t
      /\ s.answer = visit[v].answer /\ visit[v].answer = "none"
  <2>1. good \in BOOLEAN
    OBVIOUS
  <2> HIDE DEF good
  <2> QED BY <1>1, <2>1, VisitType DEF VisitState, GateInv
<1>4. redeemed' \in [VisitTokens -> SUBSET Visits]
      /\ (good => redeemed'[t] = {v})
      /\ \A x \in VisitTokens : redeemed[x] # {} => redeemed'[x] = redeemed[x]
  BY <1>1, <1>2 DEF GateInv, GateTypeOK
<1> HIDE DEF s
<1>5. /\ visit' \in [Visits -> VisitState] /\ visit'[v] = s
      /\ \A u \in Visits \ {v} : visit'[u] = visit[u]
  BY <1>1, <1>3 DEF GateInv, GateTypeOK
<1>6. GateTypeOK'
  BY <1>1, <1>4, <1>5 DEF GateInv, GateTypeOK
<1>7. ASSUME NEW u \in Visits, Vouched(u), u # v PROVE Vouched(u)'
  BY <1>1, <1>4, <1>5, <1>7 DEF Vouched
<1>8. GateFailsClosed'
  <2>1. Enforced' = Enforced /\ AsksNobody' = AsksNobody
    BY <1>1 DEF Enforced, AsksNobody
  <2> SUFFICES ASSUME Enforced /\ ~AsksNobody, NEW u \in Visits,
                      visit'[u].answer = "admitted"
               PROVE  visit'[u].token \in genuine' /\ redeemed'[visit'[u].token] = {u}
    BY <2>1 DEF GateFailsClosed
  <2>2. u # v
    BY <1>3, <1>5
  <2>3. visit[u].token \in genuine /\ redeemed[visit[u].token] = {u}
    BY <1>5, <2>2 DEF GateInv, GateFailsClosed
  <2>4. visit[u].token \in VisitTokens
    BY <2>3 DEF GateInv, GateTypeOK
  <2> QED BY <1>1, <1>4, <1>5, <2>2, <2>3, <2>4
<1>9. s.success => Vouched(v)'
  BY <1>1, <1>2, <1>3, <1>4, <1>5 DEF Vouched
<1> QED BY <1>2, <1>3, <1>5, <1>6, <1>7, <1>8, <1>9 DEF GateInv

LEMMA DecideKeeps ==
    ASSUME GateInv, NEW v \in Visits,
           NEW outcome \in {"answered", "unreachable", "status5xx", "garbled", "odd"},
           Decide(v, outcome)
    PROVE  GateInv'
<1> DEFINE s == [visit[v] EXCEPT !.at = "over", !.answer = Verdict(outcome, visit[v].success)]
<1>1. /\ visit[v].at \in {"verifying", "told"}
      /\ outcome = "answered" => visit[v].at = "told"
      /\ visit' = [visit EXCEPT ![v] = s] /\ UNCHANGED <<gate, genuine, redeemed, asked>>
  BY DEF Decide
<1>2. /\ Verdict(outcome, visit[v].success) \in {"admitted", "raised", "rejected"}
      /\ Verdict(outcome, visit[v].success) = "admitted" =>
            outcome = "answered" /\ visit[v].success
  BY DEF Verdict
<1>3. /\ s \in VisitState /\ s.at = "over" /\ s.token = visit[v].token
      /\ s.answer = Verdict(outcome, visit[v].success)
  BY <1>2, VisitType DEF VisitState
<1>4. s.answer = "admitted" => Vouched(v)
  BY <1>1, <1>2, <1>3 DEF GateInv
<1> HIDE DEF s
<1> QED BY <1>1, <1>3, <1>4, VisitMoves DEF Vouched

LEMMA QuotaKeeps ==
    ASSUME GateInv, NEW v \in Visits,
           \/ \E account \in Accounts \cup {Anonymous}, b \in BOOLEAN : Resolve(v, account, b)
           \/ \E b \in BOOLEAN : Choose(v, b)
    PROVE  GateInv'
<1>1. ASSUME NEW answer \in {"override", "fallback", "primary"}, NEW w \in VisitState,
             visit' = [visit EXCEPT ![v] = [w EXCEPT !.at = "over", !.answer = answer]],
             UNCHANGED <<gate, genuine, redeemed, asked>>
      PROVE  GateInv'
  <2> DEFINE s == [w EXCEPT !.at = "over", !.answer = answer]
  <2>1. s \in VisitState /\ s.at = "over" /\ s.answer = answer
    BY DEF VisitState
  <2>2. visit' = [visit EXCEPT ![v] = s]
    BY <1>1
  <2> HIDE DEF s
  <2> QED BY <1>1, <2>1, <2>2, VisitMoves
<1>2. ASSUME NEW account \in Accounts \cup {Anonymous}, NEW b \in BOOLEAN,
             Resolve(v, account, b)
      PROVE  GateInv'
  <2> DEFINE s == [FreshVisit EXCEPT !.at = "looking", !.account = account]
  <2>1. CASE b
    BY <1>1, <1>2, <2>1, FreshVisitType DEF Resolve
  <2>2. CASE ~b /\ account = Anonymous
    BY <1>1, <1>2, <2>2, FreshVisitType DEF Resolve
  <2>3. CASE ~b /\ account # Anonymous
    <3>1. s \in VisitState /\ s.at = "looking" /\ s.answer = "none"
      BY FreshVisitType DEF VisitState, FreshVisit
    <3>2. visit' = [visit EXCEPT ![v] = s] /\ UNCHANGED <<gate, genuine, redeemed, asked>>
      BY <1>2, <2>3 DEF Resolve
    <3> HIDE DEF s
    <3> QED BY <3>1, <3>2, VisitMoves
  <2> QED BY <2>1, <2>2, <2>3
<1>3. ASSUME NEW b \in BOOLEAN, Choose(v, b) PROVE GateInv'
  <2>1. \E answer \in {"primary", "fallback"} :
          visit' = [visit EXCEPT ![v] = [visit[v] EXCEPT !.at = "over", !.answer = answer]]
    BY <1>3 DEF Choose
  <2> QED BY <1>1, <1>3, <2>1, VisitType DEF Choose
<1> QED BY <1>2, <1>3

\* The inductive invariant holds.
LEMMA GateInvHolds == GateSpec => []GateInv
<1>1. GateInv /\ [GateNext]_gateVars => GateInv'
  <2> SUFFICES ASSUME GateInv, [GateNext]_gateVars PROVE GateInv'
    OBVIOUS
  <2>1. CASE UNCHANGED gateVars
    <3>1. UNCHANGED <<gate, genuine, redeemed, asked, visit>>
      BY <2>1 DEF gateVars
    <3>2. GateTypeOK' /\ GateFailsClosed'
      BY <3>1 DEF GateInv, GateTypeOK, GateFailsClosed, Enforced, AsksNobody
    <3> QED BY <3>1, <3>2 DEF GateInv, Vouched
  <2> QED BY <2>1, ArriveKeeps, RedeemKeeps, DecideKeeps, QuotaKeeps DEF GateNext
<1> QED BY <1>1, GateStarts, PTL DEF GateSpec

\* Where tokens are enforced, a turn is let in only with a genuine token that
\* Cloudflare redeemed for that very request.
THEOREM GateNeverFailsOpen == GateSpec => []GateFailsClosed
<1>1. GateInv => GateFailsClosed
  BY DEF GateInv
<1> QED BY <1>1, GateInvHolds, PTL

-----------------------------------------------------------------------------
(* ChatBridge: a bridged chat is whole or fails *)

\* What holds of a bridge between two steps: what has been collected and what is
\* on its way are the frames yielded so far, in order.
Intact(x) ==
    /\ Len(x.frames) + Len(x.wire) = x.sent /\ x.sent <= x.length
    /\ \A i \in 1..Len(x.frames) : x.frames[i] = i
    /\ \A i \in 1..Len(x.wire) : x.wire[i] = Len(x.frames) + i
    /\ x.stream = "closed" => x.sent = x.length
    /\ x.status = "200" => x.stream = "closed" /\ x.wire = <<>>
    /\ x.status \in {"502", "503"} => x.frames = <<>>

\* Inductive strengthening of BridgeWhole.
BridgeInv == BridgeTypeOK /\ \A b \in Bridges : Intact(bridge[b])

\* A bridge at its first frame.
LEMMA BridgeAtStart ==
    ASSUME NEW x \in BridgeState, x.sent = 0, x.wire = <<>>, x.frames = <<>>,
           x.stream # "closed", x.status # "200"
    PROVE  Intact(x)
<1>1. x.length \in Nat
  BY BridgeAssumption DEF BridgeState, Lengths
<1>2. Len(<<>>) = 0
  BY EmptySeq
<1> QED BY <1>1, <1>2 DEF Intact

LEMMA NoBridgeIntact ==
    /\ NoBridge \in BridgeState /\ Intact(NoBridge)
    /\ NoBridge.sent = 0 /\ NoBridge.wire = <<>> /\ NoBridge.frames = <<>>
<1>1. <<>> \in Seq(Nat)
  BY EmptySeq
<1>2. NoBridge \in BridgeState
  BY <1>1 DEF NoBridge, BridgeState, Lengths
<1>3. /\ NoBridge.sent = 0 /\ NoBridge.wire = <<>> /\ NoBridge.frames = <<>>
      /\ NoBridge.stream # "closed" /\ NoBridge.status # "200"
  BY DEF NoBridge
<1> QED BY <1>2, <1>3, BridgeAtStart

\* chat_bridge begins, or fails, with nothing collected.
LEMMA FreshBridge ==
    ASSUME NEW status \in {"waiting", "502", "503"}, NEW n \in Lengths,
           NEW wire \in {"none", "open", "broken"}
    PROVE  LET x == [NoBridge EXCEPT !.status = status, !.length = n, !.stream = wire]
               y == [NoBridge EXCEPT !.status = status]
           IN  x \in BridgeState /\ Intact(x) /\ y \in BridgeState /\ Intact(y)
<1> DEFINE x == [NoBridge EXCEPT !.status = status, !.length = n, !.stream = wire]
           y == [NoBridge EXCEPT !.status = status]
<1>1. x \in BridgeState /\ y \in BridgeState
  BY NoBridgeIntact DEF BridgeState
<1>2. /\ x.sent = 0 /\ x.wire = <<>> /\ x.frames = <<>> /\ x.stream = wire /\ x.status = status
      /\ y.sent = 0 /\ y.wire = <<>> /\ y.frames = <<>> /\ y.stream = "none" /\ y.status = status
  BY NoBridgeIntact DEF BridgeState, NoBridge
<1> HIDE DEF x, y
<1>3. Intact(x) /\ Intact(y)
  BY <1>1, <1>2, BridgeAtStart
<1> QED BY <1>1, <1>3 DEF x, y

LEMMA BridgeMoves ==
    ASSUME BridgeInv, NEW b \in Bridges, NEW x \in BridgeState, Intact(x),
           Put(b, x), UNCHANGED <<running, target>>
    PROVE  BridgeInv'
<1>1. bridge' \in [Bridges -> BridgeState] /\ bridge'[b] = x
      /\ \A a \in Bridges \ {b} : bridge'[a] = bridge[a]
  BY DEF BridgeInv, BridgeTypeOK, Put
<1>2. BridgeTypeOK'
  BY <1>1 DEF BridgeInv, BridgeTypeOK
<1>3. \A a \in Bridges : Intact(bridge'[a])
  BY <1>1 DEF BridgeInv
<1> QED BY <1>2, <1>3 DEF BridgeInv

LEMMA BridgeStarts == BridgeInit => BridgeInv
  BY NoBridgeIntact DEF BridgeInit, BridgeInv, BridgeTypeOK

\* Instances and the connector service start and end: the streams break.
LEMMA HostsKeep ==
    ASSUME BridgeInv, NEW i \in Instances,
           (\E g \in BOOLEAN : ConnectorStarts(i, g)) \/ InstanceStarts(i) \/ InstanceDies(i)
    PROVE  BridgeInv'
<1>1. CASE \E g \in BOOLEAN : ConnectorStarts(i, g)
  BY <1>1, NoBridgeIntact DEF ConnectorStarts, BridgeInv, BridgeTypeOK
<1>2. CASE InstanceStarts(i)
  BY <1>2 DEF InstanceStarts, BridgeInv, BridgeTypeOK
<1>3. CASE InstanceDies(i)
  <2>1. \A b \in Bridges :
           /\ bridge[b] \in BridgeState /\ Intact(bridge[b])
           /\ bridge'[b] \in {bridge[b]} \cup
                {[bridge[b] EXCEPT !.stream = "broken"] : c \in {d \in {b} : bridge[d].stream = "open"}}
    BY <1>3 DEF InstanceDies, BridgeInv, BridgeTypeOK
  <2>2. ASSUME NEW x \in BridgeState, Intact(x), x.stream = "open"
        PROVE  [x EXCEPT !.stream = "broken"] \in BridgeState /\ Intact([x EXCEPT !.stream = "broken"])
    BY <2>2 DEF BridgeState, Intact
  <2>3. \A b \in Bridges : bridge'[b] \in BridgeState /\ Intact(bridge'[b])
    BY <2>1, <2>2
  <2>4. bridge' \in [Bridges -> BridgeState] /\ UNCHANGED target /\ running' \subseteq Instances
    BY <1>3, <2>3 DEF InstanceDies, BridgeInv, BridgeTypeOK
  <2> QED BY <2>3, <2>4 DEF BridgeInv, BridgeTypeOK
<1> QED BY <1>1, <1>2, <1>3

\* The servicer yields a frame: it is the last on its way.
LEMMA YieldIntact ==
    ASSUME NEW x \in BridgeState, Intact(x), x.stream = "open", x.sent < x.length
    PROVE  LET y == [x EXCEPT !.sent = x.sent + 1, !.wire = Append(x.wire, x.sent + 1)]
           IN  y \in BridgeState /\ Intact(y)
<1> DEFINE n == x.sent + 1
           w == Append(x.wire, n)
           y == [x EXCEPT !.sent = n, !.wire = w]
<1>1. x.sent \in Nat /\ n \in Nat /\ x.length \in Nat /\ x.wire \in Seq(Nat) /\ x.frames \in Seq(Nat)
  BY BridgeAssumption DEF BridgeState, Lengths
<1>2. /\ w \in Seq(Nat) /\ Len(w) = Len(x.wire) + 1
      /\ \A i \in 1..Len(x.wire) : w[i] = x.wire[i]
      /\ w[Len(x.wire) + 1] = n
  BY <1>1, AppendProperties
<1>3. Len(x.wire) \in Nat /\ Len(x.frames) \in Nat
  BY <1>1, LenProperties
<1>4. /\ Len(x.frames) + Len(x.wire) = x.sent
      /\ \A i \in 1..Len(x.wire) : x.wire[i] = Len(x.frames) + i
  BY DEF Intact
<1>5. Len(x.frames) + Len(w) = n /\ n <= x.length
  BY <1>1, <1>2, <1>3, <1>4 DEF BridgeState
<1>6. ASSUME NEW i \in 1..Len(w) PROVE w[i] = Len(x.frames) + i
  <2>1. CASE i = Len(x.wire) + 1
    BY <1>1, <1>2, <1>3, <1>4, <2>1 DEF BridgeState
  <2>2. CASE i # Len(x.wire) + 1
    <3>1. Len(w) = Len(x.wire) + 1 /\ Len(x.wire) \in Nat
      BY <1>2, <1>3
    <3>2. i \in 1..Len(x.wire)
      <4> HIDE DEF w
      <4> QED BY <2>2, <3>1
    <3> QED BY <1>2, <1>4, <3>2
  <2> QED BY <2>1, <2>2
<1>7. y \in BridgeState
  BY <1>1, <1>2 DEF BridgeState
<1>8. /\ y.sent = n /\ y.wire = w /\ y.frames = x.frames
      /\ y.length = x.length /\ y.stream = "open" /\ y.status = x.status
  BY DEF BridgeState
<1>9. x.status # "200" /\ (x.status \in {"502", "503"} => x.frames = <<>>)
      /\ \A i \in 1..Len(x.frames) : x.frames[i] = i
  BY DEF Intact
<1> HIDE DEF w, y, n
<1>10. Intact(y)
  BY <1>5, <1>6, <1>8, <1>9 DEF Intact
<1> QED BY <1>7, <1>10 DEF y, w, n

\* The client collects a frame: it is the next it has not got.
LEMMA CollectIntact ==
    ASSUME NEW x \in BridgeState, Intact(x), x.status = "waiting", x.wire # <<>>
    PROVE  LET y == [x EXCEPT !.frames = Append(x.frames, Head(x.wire)), !.wire = Tail(x.wire)]
           IN  y \in BridgeState /\ Intact(y)
<1> DEFINE f == Append(x.frames, Head(x.wire))
           w == Tail(x.wire)
           y == [x EXCEPT !.frames = f, !.wire = w]
<1>1. x.sent \in Nat /\ x.length \in Nat /\ x.wire \in Seq(Nat) /\ x.frames \in Seq(Nat)
  BY BridgeAssumption DEF BridgeState, Lengths
<1>2. /\ Head(x.wire) \in Nat /\ w \in Seq(Nat) /\ Len(w) = Len(x.wire) - 1
      /\ \A i \in 1..Len(w) : w[i] = x.wire[i + 1]
  BY <1>1, HeadTailProperties
<1>3. /\ f \in Seq(Nat) /\ Len(f) = Len(x.frames) + 1
      /\ \A i \in 1..Len(x.frames) : f[i] = x.frames[i]
      /\ f[Len(x.frames) + 1] = Head(x.wire)
  BY <1>1, <1>2, AppendProperties
<1>4. Len(x.wire) \in Nat \ {0} /\ Len(x.frames) \in Nat /\ Head(x.wire) = x.wire[1]
  BY <1>1, LenProperties, EmptySeq
<1>5. /\ Len(x.frames) + Len(x.wire) = x.sent
      /\ \A i \in 1..Len(x.frames) : x.frames[i] = i
      /\ \A i \in 1..Len(x.wire) : x.wire[i] = Len(x.frames) + i
  BY DEF Intact
<1>6. Len(f) + Len(w) = x.sent
  BY <1>1, <1>2, <1>3, <1>4, <1>5 DEF BridgeState
<1>7. \A i \in 1..Len(f) : f[i] = i
  BY <1>3, <1>4, <1>5, SMTT(30)
<1>8. ASSUME NEW i \in 1..Len(w) PROVE w[i] = Len(f) + i
  <2>1. i + 1 \in 1..Len(x.wire) /\ w[i] = x.wire[i + 1]
    BY <1>2, <1>4 DEF BridgeState
  <2>2. w[i] = Len(x.frames) + (i + 1)
    BY <1>5, <2>1
  <2> QED BY <1>3, <1>4, <2>2 DEF BridgeState
<1>9. y \in BridgeState
  BY <1>2, <1>3 DEF BridgeState
<1>10. /\ y.sent = x.sent /\ y.wire = w /\ y.frames = f
       /\ y.length = x.length /\ y.stream = x.stream /\ y.status = "waiting"
  BY DEF BridgeState
<1>11. x.sent <= x.length /\ (x.stream = "closed" => x.sent = x.length)
  BY DEF Intact
<1> HIDE DEF f, w, y
<1>12. Intact(y)
  BY <1>6, <1>7, <1>8, <1>10, <1>11 DEF Intact
<1> QED BY <1>9, <1>12 DEF y, f, w

LEMMA ServicerKeeps ==
    ASSUME BridgeInv, NEW b \in Bridges,
           ServicerYields(b) \/ ServicerReturns(b) \/ ServicerAborts(b)
    PROVE  BridgeInv'
<1>1. bridge[b] \in BridgeState /\ Intact(bridge[b])
  BY DEF BridgeInv, BridgeTypeOK
<1>2. CASE ServicerYields(b)
  <2>1. Put(b, [bridge[b] EXCEPT !.sent = bridge[b].sent + 1,
                                 !.wire = Append(bridge[b].wire, bridge[b].sent + 1)])
    BY <1>2 DEF ServicerYields, Put
  <2> QED BY <1>1, <1>2, <2>1, YieldIntact, BridgeMoves DEF ServicerYields
<1>3. CASE ServicerReturns(b)
  <2>1. [bridge[b] EXCEPT !.stream = "closed"] \in BridgeState
        /\ Intact([bridge[b] EXCEPT !.stream = "closed"])
    BY <1>1, <1>3 DEF ServicerReturns, BridgeState, Intact
  <2> QED BY <1>3, <2>1, BridgeMoves DEF ServicerReturns
<1>4. CASE ServicerAborts(b)
  <2>1. [bridge[b] EXCEPT !.stream = "aborted"] \in BridgeState
        /\ Intact([bridge[b] EXCEPT !.stream = "aborted"])
    BY <1>1, <1>4 DEF ServicerAborts, BridgeState, Intact
  <2> QED BY <1>4, <2>1, BridgeMoves DEF ServicerAborts
<1> QED BY <1>2, <1>3, <1>4

LEMMA ClientKeeps ==
    ASSUME BridgeInv, NEW b \in Bridges,
           FrameCollected(b) \/ StreamEnds(b) \/ StreamRaises(b) \/ \E n \in Lengths : BridgeAsked(b, n)
    PROVE  BridgeInv'
<1>1. bridge[b] \in BridgeState /\ Intact(bridge[b])
  BY DEF BridgeInv, BridgeTypeOK
<1>2. CASE FrameCollected(b)
  <2>1. Put(b, [bridge[b] EXCEPT !.frames = Append(bridge[b].frames, Head(bridge[b].wire)),
                                 !.wire = Tail(bridge[b].wire)])
    BY <1>2 DEF FrameCollected, Put
  <2> QED BY <1>1, <1>2, <2>1, CollectIntact, BridgeMoves DEF FrameCollected, Waiting
<1>3. CASE StreamEnds(b)
  <2>1. [bridge[b] EXCEPT !.status = "200"] \in BridgeState
        /\ Intact([bridge[b] EXCEPT !.status = "200"])
    BY <1>1, <1>3 DEF StreamEnds, Waiting, BridgeState, Intact
  <2> QED BY <1>3, <2>1, BridgeMoves DEF StreamEnds
<1>4. CASE StreamRaises(b)
  <2>1. PlainFrames \in Lengths
    BY DEF Lengths
  <2> QED BY <1>4, <2>1, FreshBridge, BridgeMoves DEF StreamRaises
<1>5. CASE \E n \in Lengths : BridgeAsked(b, n)
  <2>1. PICK n \in Lengths : BridgeAsked(b, n)
    BY <1>5
  <2>2. /\ UNCHANGED <<running, target>>
        /\ \/ Put(b, [NoBridge EXCEPT !.status = "503"])
           \/ \E wire \in {"open", "broken"} :
                Put(b, [NoBridge EXCEPT !.status = "waiting", !.length = n, !.stream = wire])
    BY <2>1 DEF BridgeAsked
  <2> QED BY <2>2, FreshBridge, BridgeMoves
<1> QED BY <1>2, <1>3, <1>4, <1>5

\* The inductive invariant holds.
LEMMA BridgeInvHolds == BridgeSpec => []BridgeInv
<1>1. BridgeInv /\ [BridgeNext]_bridgeVars => BridgeInv'
  <2> SUFFICES ASSUME BridgeInv, [BridgeNext]_bridgeVars PROVE BridgeInv'
    OBVIOUS
  <2>1. CASE UNCHANGED bridgeVars
    BY <2>1 DEF bridgeVars, BridgeInv, BridgeTypeOK
  <2> QED BY <2>1, HostsKeep, ServicerKeeps, ClientKeeps DEF BridgeNext
<1> QED BY <1>1, BridgeStarts, PTL DEF BridgeSpec

\* A bridged chat that answers 200 has every frame of one reply, in order; one that
\* answers 502 or 503 has none, however many frames and instances there are.
THEOREM BridgedRepliesWhole == BridgeSpec => []BridgeWhole
<1>1. BridgeInv => BridgeWhole
  <2> SUFFICES ASSUME BridgeInv, NEW b \in Bridges, bridge[b].status = "200"
               PROVE  bridge[b].frames = [i \in 1..bridge[b].length |-> i]
    BY DEF BridgeWhole, BridgeInv, Intact
  <2> DEFINE x == bridge[b]
  <2>1. x \in BridgeState /\ Intact(x)
    BY DEF BridgeInv, BridgeTypeOK
  <2>2. x.frames \in Seq(Nat) /\ Len(x.wire) = 0 /\ Len(x.frames) \in Nat
    BY <2>1, EmptySeq DEF BridgeState, Intact
  <2>3. Len(x.frames) = x.length
    BY <2>1, <2>2 DEF Intact
  <2>4. x.frames \in [1..x.length -> Nat] /\ \A i \in 1..x.length : x.frames[i] = i
    BY <2>1, <2>2, <2>3, LenProperties DEF Intact
  <2> HIDE DEF x
  <2>5. x.frames = [i \in 1..x.length |-> i]
    BY <2>4
  <2> QED BY <2>5 DEF x
<1> QED BY <1>1, BridgeInvHolds, PTL

-----------------------------------------------------------------------------
(* ConnectorRuntime: one connector's failure is not another's *)

InFlight == {"reading", "refreshing", "saving"}
TriedOf(s, n) == {s[i] : i \in 1..n}

\* What an open_all that is at o has tried of the connectors s.
Tracked(o, s) ==
    /\ o.size <= Len(s)
    /\ o.pc \notin {"idle", "aborted"} => o.at \in 1..(o.size + 1)
    /\ o.pc \in InFlight => o.at <= o.size /\ o.tried = TriedOf(s, o.at)
    /\ o.pc \in {"next", "done"} => o.tried = TriedOf(s, o.at - 1)
    /\ o.pc = "done" => o.at = o.size + 1
    /\ o.pc = "aborted" => Len(s) > o.size

\* Inductive strengthening of FailureIsolated: the position of an open_all is
\* meaningful at each of its awaits, whatever was added meanwhile.
ConnectorInv == ConnectorTypeOK /\ \A t \in Openers : Tracked(opener[t], added)

LEMMA FirstOfGrows ==
    ASSUME NEW s \in Seq(Connectors), NEW n \in Nat, n < Len(s)
    PROVE  TriedOf(s, n + 1) = TriedOf(s, n) \cup {s[n + 1]}
  BY DEF TriedOf

\* The first n of a sequence without repetition are n.
LEMMA FirstOfSize ==
    ASSUME NEW s \in Seq(Connectors), IsInjective(s), NEW n \in Nat, n <= Len(s)
    PROVE  Cardinality(TriedOf(s, n)) = n
<1> DEFINE f == [i \in 1..n |-> s[i]]
<1>1. 1..n \subseteq DOMAIN s /\ DOMAIN s = 1..Len(s)
  BY LenProperties
<1>2. f \in [1..n -> TriedOf(s, n)]
  BY DEF TriedOf
<1>3. \A i, j \in 1..n : f[i] = f[j] => i = j
  BY <1>1 DEF IsInjective
<1>4. \A x \in TriedOf(s, n) : \E i \in 1..n : f[i] = x
  BY DEF TriedOf
<1>5. f \in Bijection(1..n, TriedOf(s, n))
  BY <1>2, <1>3, <1>4, Fun_IsBij
<1> QED BY <1>5, FS_CountingElements DEF ExistsBijection

LEMMA OpenerMoves ==
    ASSUME ConnectorInv, NEW t \in Openers, NEW o \in OpenerState, Tracked(o, added),
           opener' = [opener EXCEPT ![t] = o], UNCHANGED added, opened' \subseteq Range(added),
           token' \in [{c \in Connectors : IsOAuth(c)} -> {"none", "valid", "expired", "empty"}]
    PROVE  ConnectorInv'
<1>1. /\ opener' \in [Openers -> OpenerState] /\ opener'[t] = o
      /\ \A u \in Openers \ {t} : opener'[u] = opener[u]
  BY DEF ConnectorInv, ConnectorTypeOK
<1>2. ConnectorTypeOK'
  BY <1>1 DEF ConnectorInv, ConnectorTypeOK, IsOAuth
<1>3. \A u \in Openers : Tracked(opener'[u], added')
  BY <1>1 DEF ConnectorInv
<1> QED BY <1>2, <1>3 DEF ConnectorInv

LEMMA ConnectorBegins == ConnectorInit => ConnectorInv
<1> SUFFICES ASSUME ConnectorInit PROVE ConnectorInv
  OBVIOUS
<1>1. <<>> \in Seq(Connectors) /\ Len(<<>>) = 0 /\ IsInjective(<<>>)
  BY EmptySeq, LenProperties DEF IsInjective
<1>2. Resting \in OpenerState /\ Resting.pc = "idle" /\ Resting.size = 0
  BY DEF Resting, OpenerState, OpenerPcs
<1>3. \A t \in Openers : opener[t] = Resting
  BY DEF ConnectorInit
<1>4. ConnectorTypeOK
  BY <1>1, <1>2 DEF ConnectorInit, ConnectorTypeOK
<1> HIDE DEF ConnectorInit
<1>5. Tracked(Resting, <<>>)
  BY <1>1, <1>2 DEF Tracked, InFlight
<1> QED BY <1>3, <1>4, <1>5 DEF ConnectorInv, ConnectorInit

\* A connector that is added goes behind those an open_all has tried.
LEMMA AddKeeps ==
    ASSUME ConnectorInv, NEW c \in Connectors, Add(c)
    PROVE  ConnectorInv'
<1>1. added \in Seq(Connectors) /\ Len(added) \in Nat /\ DOMAIN added = 1..Len(added)
  BY LenProperties DEF ConnectorInv, ConnectorTypeOK
<1>2. /\ added' \in Seq(Connectors) /\ Len(added') = Len(added) + 1
      /\ \A i \in 1..Len(added) : added'[i] = added[i]
      /\ added'[Len(added) + 1] = c
  BY <1>1, AppendProperties DEF Add
<1>3. DOMAIN added' = 1..(Len(added) + 1)
  BY <1>1, <1>2, LenProperties
<1>4. IsInjective(added') /\ Range(added) \subseteq Range(added')
  <2>1. \A i \in 1..Len(added) : added[i] # c
    BY <1>1 DEF Add, Range
  <2>2. IsInjective(added)
    BY DEF ConnectorInv, ConnectorTypeOK
  <2> QED BY <1>1, <1>2, <1>3, <2>1, <2>2 DEF IsInjective, Range
<1>5. UNCHANGED <<opened, token, opener>>
  BY DEF Add
<1>6. ConnectorTypeOK'
  BY <1>2, <1>4, <1>5 DEF ConnectorInv, ConnectorTypeOK, IsOAuth
<1>7. ASSUME NEW n \in Nat, n <= Len(added) PROVE TriedOf(added', n) = TriedOf(added, n)
  BY <1>1, <1>2, <1>7 DEF TriedOf
<1>8. ASSUME NEW t \in Openers PROVE Tracked(opener[t], added')
  <2>1. opener[t] \in OpenerState /\ Tracked(opener[t], added)
    BY DEF ConnectorInv, ConnectorTypeOK
  <2> DEFINE o == opener[t]
  <2>2. o.size \in Nat /\ o.at \in Nat
    BY <2>1 DEF OpenerState
  <2>3. CASE o.pc \in InFlight
    BY <1>1, <1>2, <1>7, <2>1, <2>2, <2>3 DEF Tracked, InFlight, OpenerState
  <2>4. CASE o.pc \in {"next", "done"}
    <3>1. o.at - 1 \in Nat /\ o.at - 1 <= Len(added)
      BY <1>1, <2>1, <2>2, <2>4 DEF Tracked, OpenerState
    <3> QED BY <1>1, <1>2, <1>7, <2>1, <2>2, <2>4, <3>1 DEF Tracked, InFlight, OpenerState
  <2>5. CASE o.pc \in {"idle", "aborted"}
    BY <1>1, <1>2, <2>1, <2>2, <2>5 DEF Tracked, InFlight, OpenerState
  <2> QED BY <2>1, <2>3, <2>4, <2>5 DEF OpenerState, OpenerPcs, InFlight
<1> QED BY <1>5, <1>6, <1>8 DEF ConnectorInv

LEMMA AdvanceKeeps ==
    ASSUME ConnectorInv, NEW t \in Openers, NEW o \in OpenerState,
           o.at \in 1..o.size, o.size <= Len(added), o.tried = TriedOf(added, o.at),
           Advance(t, o), UNCHANGED added, opened' \subseteq Range(added),
           token' \in [{c \in Connectors : IsOAuth(c)} -> {"none", "valid", "expired", "empty"}]
    PROVE  ConnectorInv'
<1> DEFINE s == [o EXCEPT !.pc = "next", !.at = o.at + 1, !.new = "none"]
<1>0. o.at \in Nat /\ o.at + 1 \in Nat
  BY DEF OpenerState
<1>1. s \in OpenerState
  BY <1>0 DEF OpenerState, OpenerPcs
<1>2. s.pc = "next" /\ s.at = o.at + 1 /\ s.size = o.size /\ s.tried = o.tried
  BY DEF OpenerState
<1>3. opener' = [opener EXCEPT ![t] = s]
  BY DEF Advance
<1>4. o.at \in Nat /\ o.size \in Nat
  BY DEF OpenerState
<1>5. Tracked(s, added)
  <2>1. s.at \in 1..(s.size + 1) /\ s.at - 1 = o.at
    BY <1>2, <1>4 DEF OpenerState
  <2> HIDE DEF s
  <2> QED BY <1>2, <2>1 DEF Tracked, InFlight
<1> HIDE DEF s
<1> QED BY <1>1, <1>3, <1>5, OpenerMoves

\* One connector is opened without a pause, or its open() is awaited, or the loop ends.
LEMMA IterateKeeps ==
    ASSUME ConnectorInv, NEW t \in Openers, Iterate(t)
    PROVE  ConnectorInv'
<1> DEFINE o == opener[t]
           c == Opening(t)
           tried == [o EXCEPT !.tried = o.tried \cup {c}]
<1>1. /\ o \in OpenerState /\ Tracked(o, added) /\ opened \subseteq Range(added)
      /\ token \in [{d \in Connectors : IsOAuth(d)} -> {"none", "valid", "expired", "empty"}]
      /\ added \in Seq(Connectors)
  BY DEF ConnectorInv, ConnectorTypeOK
<1>2. o.pc = "next" /\ UNCHANGED <<added, token>>
  BY DEF Iterate
<1>3. o.at \in Nat /\ o.size \in Nat /\ Len(added) \in Nat /\ DOMAIN added = 1..Len(added)
  BY <1>1, LenProperties DEF OpenerState
<1>4. o.at \in 1..(o.size + 1) /\ o.size <= Len(added) /\ o.tried = TriedOf(added, o.at - 1)
  BY <1>1, <1>2 DEF Tracked
<1>5. CASE Len(added) # o.size /\ opener' = [opener EXCEPT ![t].pc = "aborted"] /\ UNCHANGED opened
  <2> DEFINE s == [o EXCEPT !.pc = "aborted"]
  <2>1. s \in OpenerState /\ s.pc = "aborted" /\ s.size = o.size
    BY <1>1 DEF OpenerState, OpenerPcs
  <2>2. opener' = [opener EXCEPT ![t] = s]
    BY <1>5
  <2>3. o.size < Len(added)
    BY <1>1, <1>3, <1>4, <1>5 DEF OpenerState
  <2> HIDE DEF s
  <2>4. Tracked(s, added)
    BY <2>1, <2>3, <1>4 DEF Tracked, InFlight
  <2> QED BY <1>1, <1>2, <1>5, <2>1, <2>2, <2>4, OpenerMoves
<1>6. CASE o.at > o.size /\ opener' = [opener EXCEPT ![t].pc = "done"] /\ UNCHANGED opened
  <2> DEFINE s == [o EXCEPT !.pc = "done"]
  <2>1. s \in OpenerState /\ s.pc = "done" /\ s.size = o.size /\ s.at = o.at /\ s.tried = o.tried
    BY <1>1 DEF OpenerState, OpenerPcs
  <2>2. opener' = [opener EXCEPT ![t] = s]
    BY <1>6
  <2>3. o.at = o.size + 1
    BY <1>1, <1>3, <1>4, <1>6 DEF OpenerState
  <2> HIDE DEF s
  <2>4. Tracked(s, added)
    BY <2>1, <2>3, <1>4 DEF Tracked, InFlight
  <2> QED BY <1>1, <1>2, <1>6, <2>1, <2>2, <2>4, OpenerMoves
<1>7. CASE o.at <= o.size /\ ~(Len(added) # o.size)
  <2>1. o.at \in 1..o.size /\ o.at \in 1..Len(added) /\ o.at - 1 \in Nat /\ o.at - 1 < Len(added)
    BY <1>1, <1>3, <1>4, <1>7 DEF OpenerState
  <2>2. c \in Connectors /\ c \in Range(added)
    BY <1>1, <1>3, <2>1, ElementOfSeq DEF Opening, Range
  <2>3. o.tried \cup {c} = TriedOf(added, o.at)
    <3>1. (o.at - 1) + 1 = o.at
      BY <1>3, <1>1 DEF OpenerState
    <3> QED BY <1>1, <1>4, <2>1, <3>1, FirstOfGrows DEF Opening
  <2>4. /\ tried \in OpenerState /\ tried.at = o.at /\ tried.size = o.size
        /\ tried.tried = TriedOf(added, o.at)
    BY <1>1, <2>2, <2>3 DEF OpenerState
  <2>5. CASE opener' = [opener EXCEPT ![t] = [tried EXCEPT !.pc = "reading"]] /\ UNCHANGED opened
    <3> DEFINE s == [tried EXCEPT !.pc = "reading"]
    <3>1. /\ s \in OpenerState /\ s.pc = "reading" /\ s.size = o.size /\ s.at = o.at
          /\ s.tried = TriedOf(added, o.at)
      BY <2>4 DEF OpenerState, OpenerPcs
    <3> HIDE DEF s
    <3>2. Tracked(s, added)
      BY <1>4, <1>7, <3>1 DEF Tracked, InFlight
    <3>3. opener' = [opener EXCEPT ![t] = s]
      BY <2>5 DEF s
    <3> QED BY <1>1, <1>2, <2>5, <3>1, <3>2, <3>3, OpenerMoves
  <2>6. CASE Advance(t, tried) /\ opened' \subseteq opened \cup {c}
    <3> HIDE DEF tried
    <3> QED BY <1>1, <1>2, <1>4, <2>1, <2>2, <2>4, <2>6, AdvanceKeeps
  <2> QED BY <1>3, <1>7, <2>5, <2>6 DEF Iterate
<1> QED BY <1>3, <1>5, <1>6, <1>7 DEF Iterate

\* An await of an open() answers or raises.
LEMMA AwaitKeeps ==
    ASSUME ConnectorInv, NEW t \in Openers,
           \/ TokenRead(t) \/ TokenSaved(t) \/ AwaitRaises(t)
           \/ \E new \in {"valid", "empty"} : TokenRefreshed(t, new)
    PROVE  ConnectorInv'
<1> DEFINE o == opener[t]
           c == Opening(t)
<1>1. /\ o \in OpenerState /\ Tracked(o, added) /\ opened \subseteq Range(added)
      /\ token \in [{d \in Connectors : IsOAuth(d)} -> {"none", "valid", "expired", "empty"}]
      /\ added \in Seq(Connectors)
  BY DEF ConnectorInv, ConnectorTypeOK
<1>2. o.pc \in InFlight /\ UNCHANGED added
  BY DEF TokenRead, TokenSaved, AwaitRaises, TokenRefreshed, InFlight
<1>3. o.at \in Nat /\ o.size \in Nat /\ Len(added) \in Nat /\ DOMAIN added = 1..Len(added)
  BY <1>1, LenProperties DEF OpenerState
<1>4. o.at \in 1..(o.size + 1) /\ o.at <= o.size /\ o.size <= Len(added) /\ o.tried = TriedOf(added, o.at)
  BY <1>1, <1>2 DEF Tracked, InFlight
<1>5. o.at \in 1..o.size /\ o.at \in 1..Len(added)
  BY <1>1, <1>3, <1>4 DEF OpenerState
<1>6. c \in Range(added)
  BY <1>3, <1>5 DEF Opening, Range
<1>7. /\ opened' \subseteq opened \cup {c}
      /\ token' \in [{d \in Connectors : IsOAuth(d)} -> {"none", "valid", "expired", "empty"}]
  BY <1>1 DEF TokenRead, TokenSaved, AwaitRaises, TokenRefreshed, OpenerState
<1>8. CASE Advance(t, o)
  <2> HIDE DEF o
  <2> QED BY <1>1, <1>2, <1>4, <1>5, <1>6, <1>7, <1>8, AdvanceKeeps
<1>9. ASSUME NEW pc \in InFlight, NEW new \in {"none", "valid", "empty"},
             opener' = [opener EXCEPT ![t] = [o EXCEPT !.pc = pc, !.new = new]]
      PROVE  ConnectorInv'
  <2> DEFINE s == [o EXCEPT !.pc = pc, !.new = new]
  <2>1. /\ s \in OpenerState /\ s.pc = pc /\ s.size = o.size /\ s.at = o.at
        /\ s.tried = TriedOf(added, o.at)
    BY <1>1, <1>4 DEF OpenerState, OpenerPcs, InFlight
  <2> HIDE DEF s
  <2>2. Tracked(s, added)
    BY <1>4, <2>1 DEF Tracked, InFlight
  <2>3. opener' = [opener EXCEPT ![t] = s]
    BY <1>9 DEF s
  <2> QED BY <1>1, <1>2, <1>6, <1>7, <2>1, <2>2, <2>3, OpenerMoves
<1>10. \/ Advance(t, o)
       \/ opener' = [opener EXCEPT ![t].pc = "refreshing"]
       \/ \E new \in {"valid", "empty"} :
            opener' = [opener EXCEPT ![t] = [o EXCEPT !.pc = "saving", !.new = new]]
  BY DEF TokenRead, TokenSaved, AwaitRaises, TokenRefreshed
<1>11. CASE opener' = [opener EXCEPT ![t].pc = "refreshing"]
  <2>1. [o EXCEPT !.pc = "refreshing"] = [o EXCEPT !.pc = "refreshing", !.new = o.new]
    BY <1>1 DEF OpenerState
  <2>2. o.new \in {"none", "valid", "empty"} /\ "refreshing" \in InFlight
    BY <1>1 DEF OpenerState, InFlight
  <2> QED BY <1>9, <1>11, <2>1, <2>2
<1>12. "saving" \in InFlight
  BY DEF InFlight
<1> QED BY <1>8, <1>9, <1>10, <1>11, <1>12

LEMMA ConnectorStep == ConnectorInv /\ [ConnectorNext]_connectorVars => ConnectorInv'
<1> SUFFICES ASSUME ConnectorInv, [ConnectorNext]_connectorVars PROVE ConnectorInv'
  OBVIOUS
<1>1. CASE UNCHANGED connectorVars
  BY <1>1 DEF connectorVars, ConnectorInv, ConnectorTypeOK, IsOAuth
<1>2. CASE CloseAll \/ \E c \in Connectors : Expire(c)
  <2>1. UNCHANGED <<added, opener>> /\ opened' \subseteq opened
    BY <1>2 DEF CloseAll, Expire
  <2>2. token' \in [{d \in Connectors : IsOAuth(d)} -> {"none", "valid", "expired", "empty"}]
    BY <1>2 DEF CloseAll, Expire, ConnectorInv, ConnectorTypeOK
  <2>3. ConnectorTypeOK'
    BY <2>1, <2>2 DEF ConnectorInv, ConnectorTypeOK, IsOAuth
  <2> QED BY <2>1, <2>3 DEF ConnectorInv
<1>3. ASSUME NEW t \in Openers, OpenAll(t) PROVE ConnectorInv'
  <2> DEFINE s == [Resting EXCEPT !.pc = "next", !.at = 1, !.size = Len(added)]
  <2>1. Len(added) \in Nat
    BY LenProperties DEF ConnectorInv, ConnectorTypeOK
  <2>2. s \in OpenerState /\ s.pc = "next" /\ s.at = 1 /\ s.size = Len(added) /\ s.tried = {}
    BY <2>1 DEF Resting, OpenerState, OpenerPcs
  <2>3. opener' = [opener EXCEPT ![t] = s] /\ UNCHANGED <<added, opened, token>>
    BY <1>3 DEF OpenAll
  <2> HIDE DEF s
  <2>4. TriedOf(added, 1 - 1) = {}
    BY DEF TriedOf
  <2>5. Tracked(s, added)
    BY <2>1, <2>2, <2>4 DEF Tracked, InFlight
  <2>6. /\ opened \subseteq Range(added)
        /\ token \in [{d \in Connectors : IsOAuth(d)} -> {"none", "valid", "expired", "empty"}]
    BY DEF ConnectorInv, ConnectorTypeOK
  <2> QED BY <2>2, <2>3, <2>5, <2>6, OpenerMoves
<1> QED BY <1>1, <1>2, <1>3, AddKeeps, IterateKeeps, AwaitKeeps DEF ConnectorNext

\* Every open_all that ends has tried every connector it knew, each once; only a
\* connector added under it ends it early.
THEOREM ConnectorFailuresIsolated == ConnectorSpec => []FailureIsolated
<1>1. ConnectorInv => FailureIsolated
  <2> SUFFICES ASSUME ConnectorInv, NEW t \in Openers
               PROVE  LET o == opener[t] IN
                      /\ o.pc \in {"next", "done"} => o.tried = {added[i] : i \in 1..(o.at - 1)}
                      /\ o.pc = "done" => Cardinality(o.tried) = o.size
                      /\ o.pc = "aborted" => Len(added) > o.size
    BY DEF FailureIsolated
  <2> DEFINE o == opener[t]
  <2>1. o \in OpenerState /\ Tracked(o, added) /\ added \in Seq(Connectors) /\ IsInjective(added)
    BY DEF ConnectorInv, ConnectorTypeOK
  <2>2. o.pc = "done" => Cardinality(o.tried) = o.size
    <3> SUFFICES ASSUME o.pc = "done" PROVE Cardinality(o.tried) = o.size
      OBVIOUS
    <3>1. o.size \in Nat /\ o.size <= Len(added)
      BY <2>1 DEF Tracked, OpenerState
    <3>2. o.tried = TriedOf(added, o.at - 1) /\ o.at = o.size + 1
      BY <2>1 DEF Tracked
    <3>3. o.at - 1 = o.size
      BY <3>1, <3>2, <2>1 DEF OpenerState
    <3> QED BY <2>1, <3>1, <3>2, <3>3, FirstOfSize
  <2>3. o.pc \in {"next", "done"} => o.tried = {added[i] : i \in 1..(o.at - 1)}
    BY <2>1 DEF Tracked, TriedOf
  <2>4. o.pc = "aborted" => Len(added) > o.size
    BY <2>1 DEF Tracked
  <2> QED BY <2>2, <2>3, <2>4
<1> QED BY <1>1, ConnectorBegins, ConnectorStep, PTL DEF ConnectorSpec

-----------------------------------------------------------------------------
(* McpRegistry: tools are those of connected servers *)

\* A loop over n clients is within them while it is at one.
Placed(loop, n) ==
    /\ loop.size <= n
    /\ loop.pc # "idle" => loop.at >= 1
    /\ loop.pc \notin {"idle", "next"} => loop.at <= loop.size

\* A client that waits for tools/list, or for its turn to store the answer, is
\* linked, unless its link broke or was cut meanwhile.
ListsWhatIsLinked ==
    connecting.pc \in {"listing", "listed"} => Connected \subseteq linked \cup blemished

\* Inductive strengthening of ToolsOfConnected.
McpInv ==
    /\ McpTypeOK
    /\ Placed(connecting, Len(clients)) /\ Placed(disconnecting, Len(clients))
    /\ ListsWhatIsLinked /\ ToolsOfConnected

LoopSteps == {"linking", "listing", "listed", "unlinking", "unlinked"}

LEMMA LoopGoesOn ==
    ASSUME NEW loop \in Loops, NEW n \in Nat, Placed(loop, n), loop.pc \in LoopSteps
    PROVE  GoesOn(loop) \in Loops /\ Placed(GoesOn(loop), n) /\ GoesOn(loop).pc = "next"
<1>1. loop.at \in Nat /\ loop.at + 1 \in Nat
  BY DEF Loops
<1>2. GoesOn(loop) \in Loops
  BY <1>1 DEF GoesOn, Loops
<1>3. /\ GoesOn(loop).pc = "next" /\ GoesOn(loop).at = loop.at + 1
      /\ GoesOn(loop).size = loop.size
  BY DEF GoesOn, Loops
<1>4. loop.size <= n /\ loop.at + 1 >= 1
  BY <1>1 DEF Placed
<1> QED BY <1>2, <1>3, <1>4 DEF Placed

LEMMA LoopTakesStep ==
    ASSUME NEW loop \in Loops, NEW n \in Nat, Placed(loop, n), loop.pc \in LoopSteps, NEW pc \in LoopSteps,
           NEW answer \in SUBSET McpTools
    PROVE  LET next == [loop EXCEPT !.pc = pc, !.answer = answer]
           IN  next \in Loops /\ Placed(next, n) /\ next.pc = pc /\ next.at = loop.at
<1> DEFINE next == [loop EXCEPT !.pc = pc, !.answer = answer]
<1>1. next \in Loops /\ next.pc = pc /\ next.at = loop.at /\ next.size = loop.size
  BY DEF Loops, LoopSteps
<1> HIDE DEF next
<1>2. Placed(next, n)
  BY <1>1 DEF Placed, LoopSteps
<1> QED BY <1>1, <1>2 DEF next

\* connect_all and disconnect_all start, go to their next client, or end.
LEMMA LoopEnters ==
    ASSUME NEW loop \in Loops, clients \in Seq(Servers), Placed(loop, Len(clients)),
           loop.pc \in {"idle", "next"}, NEW pc \in LoopSteps
    PROVE  LET next == IF loop.pc = "idle" THEN Started ELSE Entering(loop, pc)
           IN  next \in Loops /\ Placed(next, Len(clients)) /\ next.pc \in {"idle", "next", pc}
<1> DEFINE next == IF loop.pc = "idle" THEN Started ELSE Entering(loop, pc)
<1>1. Len(clients) \in Nat /\ loop.at \in Nat /\ loop.size \in Nat
  BY LenProperties DEF Loops
<1>2. CASE loop.pc = "idle"
  <2>1. Started \in Loops /\ Started.pc = "next" /\ Started.at = 1 /\ Started.size = Len(clients)
    BY <1>1 DEF Started, AtRest, Loops
  <2> QED BY <1>1, <1>2, <2>1 DEF Placed
<1>3. CASE loop.pc = "next" /\ (Len(clients) # loop.size \/ loop.at > loop.size)
  <2>1. AtRest \in Loops /\ AtRest.pc = "idle" /\ AtRest.size = 0
    BY DEF AtRest, Loops
  <2> QED BY <1>1, <1>3, <2>1 DEF Placed, Entering
<1>4. CASE loop.pc = "next" /\ ~(Len(clients) # loop.size \/ loop.at > loop.size)
  <2> DEFINE s == [loop EXCEPT !.pc = pc]
  <2>1. s \in Loops /\ s.pc = pc /\ s.at = loop.at /\ s.size = loop.size
    BY DEF Loops, LoopSteps
  <2>2. loop.at <= loop.size /\ loop.at >= 1 /\ loop.size <= Len(clients)
    BY <1>1, <1>4 DEF Placed, Loops
  <2>3. next = s
    BY <1>4 DEF Entering
  <2> HIDE DEF s, next
  <2>4. Placed(s, Len(clients))
    BY <2>1, <2>2 DEF Placed
  <2> QED BY <2>1, <2>3, <2>4 DEF next
<1> QED BY <1>2, <1>3, <1>4

\* The client a loop is at is one of the registry.
LEMMA AtAClient ==
    ASSUME clients \in Seq(Servers), NEW loop \in Loops, Placed(loop, Len(clients)), loop.pc \in LoopSteps
    PROVE  clients[loop.at] \in Servers /\ clients[loop.at] \in Range(clients)
<1>1. Len(clients) \in Nat /\ DOMAIN clients = 1..Len(clients)
  BY LenProperties
<1>2. loop.at \in 1..Len(clients)
  BY <1>1 DEF Placed, LoopSteps, Loops
<1> QED BY <1>1, <1>2, ElementOfSeq DEF Range

LEMMA McpBegins == McpInit => McpInv
<1> SUFFICES ASSUME McpInit PROVE McpInv
  OBVIOUS
<1>1. <<>> \in Seq(Servers) /\ Len(<<>>) = 0 /\ IsInjective(<<>>)
  BY EmptySeq, LenProperties DEF IsInjective
<1>2. AtRest \in Loops /\ AtRest.pc = "idle" /\ AtRest.size = 0
  BY DEF AtRest, Loops
<1>3. McpTypeOK
  BY <1>1, <1>2 DEF McpInit, McpTypeOK, Statuses
<1>4. Placed(AtRest, 0)
  BY <1>2 DEF Placed
<1> QED BY <1>1, <1>2, <1>3, <1>4 DEF McpInit, McpInv, ListsWhatIsLinked, ToolsOfConnected

LEMMA McpAddKeeps ==
    ASSUME McpInv, NEW s \in Servers, AddClient(s)
    PROVE  McpInv'
<1>1. clients \in Seq(Servers) /\ Len(clients) \in Nat /\ DOMAIN clients = 1..Len(clients)
  BY LenProperties DEF McpInv, McpTypeOK
<1>2. /\ clients' \in Seq(Servers) /\ Len(clients') = Len(clients) + 1
      /\ \A i \in 1..Len(clients) : clients'[i] = clients[i]
      /\ clients'[Len(clients) + 1] = s
  BY <1>1, AppendProperties DEF AddClient
<1>3. DOMAIN clients' = 1..(Len(clients) + 1)
  BY <1>1, <1>2, LenProperties
<1>4. IsInjective(clients') /\ Range(clients) \subseteq Range(clients')
  <2>1. \A i \in 1..Len(clients) : clients[i] # s
    BY <1>1 DEF AddClient, Range
  <2>2. IsInjective(clients)
    BY DEF McpInv, McpTypeOK
  <2> QED BY <1>1, <1>2, <1>3, <2>1, <2>2 DEF IsInjective, Range
<1>5. UNCHANGED <<manifest, linked, tools, connecting, disconnecting, call, blemished>>
  BY DEF AddClient
<1>6. McpTypeOK'
  BY <1>2, <1>4, <1>5 DEF McpInv, McpTypeOK
<1>7. connecting \in Loops /\ disconnecting \in Loops
  BY DEF McpInv, McpTypeOK
<1>8. Placed(connecting, Len(clients')) /\ Placed(disconnecting, Len(clients'))
  <2>1. ASSUME NEW loop \in Loops, Placed(loop, Len(clients)) PROVE Placed(loop, Len(clients'))
    BY <1>1, <1>2, <2>1 DEF Placed, Loops
  <2> QED BY <1>7, <2>1 DEF McpInv
<1>9. Connected' = Connected /\ Disconnected' = Disconnected
  <2>1. ASSUME NEW loop \in Loops, Placed(loop, Len(clients)), loop.pc \notin {"idle", "next"}
        PROVE  clients'[loop.at] = clients[loop.at]
    <3>1. loop.at \in 1..Len(clients)
      BY <1>1, <2>1 DEF Placed, Loops
    <3> QED BY <1>2, <3>1
  <2> QED BY <1>5, <1>7, <2>1 DEF McpInv, Connected, Disconnected
<1> QED BY <1>5, <1>6, <1>8, <1>9 DEF McpInv, ListsWhatIsLinked, ToolsOfConnected

\* Servers change, links break and tools are called without the loops.
LEMMA ServersKeep ==
    ASSUME McpInv,
           \/ \E s \in Servers : \/ LoseLink(s)
                                 \/ \E m \in SUBSET McpTools : ChangeManifest(s, m)
                                 \/ \E name \in McpTools : CallTool(s, name)
           \/ \E ok \in BOOLEAN : CallAnswered(ok)
    PROVE  McpInv'
<1>1. UNCHANGED <<clients, tools, connecting, disconnecting>>
  BY DEF LoseLink, ChangeManifest, CallTool, CallAnswered
<1>2. /\ linked' \subseteq linked /\ linked \subseteq linked' \cup blemished'
      /\ blemished \subseteq blemished' /\ blemished' \subseteq blemished \cup Servers
  BY DEF LoseLink, ChangeManifest, CallTool, CallAnswered
<1>3. manifest' \in [Servers -> SUBSET McpTools]
  BY DEF LoseLink, ChangeManifest, CallTool, CallAnswered, McpInv, McpTypeOK
<1>4. call'.status \in Statuses
  <2>1. CASE \E ok \in BOOLEAN : CallAnswered(ok)
    <3> PICK ok \in BOOLEAN : CallAnswered(ok)
      BY <2>1
    <3>1. call.status = "waiting" /\ call' = [call EXCEPT !.status = IF ok THEN "success" ELSE "failure"]
      BY DEF CallAnswered
    <3> QED BY <3>1 DEF Statuses, McpInv, McpTypeOK
  <2> QED BY <2>1 DEF LoseLink, ChangeManifest, CallTool, Statuses, McpInv, McpTypeOK
<1>5. McpTypeOK'
  BY <1>1, <1>2, <1>3, <1>4 DEF McpInv, McpTypeOK
<1>6. Connected' = Connected /\ Disconnected' = Disconnected
  BY <1>1 DEF Connected, Disconnected
<1> QED BY <1>1, <1>2, <1>5, <1>6 DEF McpInv, ListsWhatIsLinked, ToolsOfConnected

\* connect_all moves on.
LEMMA ConnectingKeeps ==
    ASSUME McpInv, ConnectAll
    PROVE  McpInv'
<1>1. /\ connecting \in Loops /\ clients \in Seq(Servers) /\ Placed(connecting, Len(clients))
      /\ connecting.pc \in {"idle", "next"}
  BY DEF McpInv, McpTypeOK, ConnectAll
<1>2. /\ connecting' \in Loops /\ Placed(connecting', Len(clients))
      /\ connecting'.pc \in {"idle", "next", "linking"}
  BY <1>1, LoopEnters DEF ConnectAll, LoopSteps
<1>3. UNCHANGED <<clients, manifest, linked, tools, disconnecting, call, blemished>>
  BY DEF ConnectAll
<1>4. Disconnected' = Disconnected
  BY <1>3 DEF Disconnected
<1> QED BY <1>2, <1>3, <1>4 DEF McpInv, McpTypeOK, ListsWhatIsLinked, ToolsOfConnected

LEMMA DisconnectingKeeps ==
    ASSUME McpInv, DisconnectAll
    PROVE  McpInv'
<1>1. /\ disconnecting \in Loops /\ clients \in Seq(Servers) /\ Placed(disconnecting, Len(clients))
      /\ disconnecting.pc \in {"idle", "next"}
  BY DEF McpInv, McpTypeOK, DisconnectAll
<1>2. disconnecting' \in Loops /\ Placed(disconnecting', Len(clients))
  BY <1>1, LoopEnters DEF DisconnectAll, LoopSteps
<1>3. UNCHANGED <<clients, manifest, linked, tools, connecting, call, blemished>>
  BY DEF DisconnectAll
<1>4. Connected' = Connected /\ Disconnected = {}
  BY <1>1, <1>3 DEF Connected, Disconnected
<1> QED BY <1>2, <1>3, <1>4 DEF McpInv, McpTypeOK, ListsWhatIsLinked, ToolsOfConnected

\* transport.connect answers or raises.
LEMMA TransportConnectsKeeps ==
    ASSUME McpInv, NEW ok \in BOOLEAN, TransportConnects(ok)
    PROVE  McpInv'
<1> DEFINE s == clients[connecting.at]
<1>1. /\ connecting \in Loops /\ clients \in Seq(Servers) /\ Placed(connecting, Len(clients))
      /\ connecting.pc = "linking" /\ connecting.pc \in LoopSteps /\ connecting.answer \in SUBSET McpTools
  BY DEF McpInv, McpTypeOK, TransportConnects, LoopSteps, Loops
<1>2. Len(clients) \in Nat /\ s \in Servers /\ s \in Range(clients)
  BY <1>1, AtAClient, LenProperties
<1>3. Connected = {s}
  BY <1>1 DEF Connected
<1>4. UNCHANGED <<clients, manifest, tools, disconnecting, call>> /\ Disconnected' = Disconnected
  BY DEF TransportConnects, Disconnected
<1>5. /\ blemished' = blemished \cup ({s} \cap Disconnected) /\ linked \subseteq linked'
      /\ linked' \subseteq linked \cup {s}
      /\ ok => s \in linked'
  BY <1>3 DEF TransportConnects
<1>6. /\ connecting' \in Loops /\ Placed(connecting', Len(clients))
      /\ connecting'.pc \in {"listing", "listed"} => ok /\ connecting'.at = connecting.at
  <2>1. CASE ok
    <3> DEFINE next == [connecting EXCEPT !.pc = "listing", !.answer = connecting.answer]
    <3>1. next = [connecting EXCEPT !.pc = "listing"]
      BY <1>1 DEF Loops
    <3>2. "listing" \in LoopSteps
      BY DEF LoopSteps
    <3>3. next \in Loops /\ Placed(next, Len(clients)) /\ next.at = connecting.at
      BY <1>1, <1>2, <3>2, LoopTakesStep, ZenonT(40)
    <3> QED BY <2>1, <3>1, <3>3 DEF TransportConnects
  <2>2. CASE ~ok
    BY <1>1, <1>2, <2>2, LoopGoesOn DEF TransportConnects
  <2> QED BY <2>1, <2>2
<1>7. McpTypeOK'
  BY <1>2, <1>4, <1>5, <1>6 DEF McpInv, McpTypeOK
<1>8. ListsWhatIsLinked'
  BY <1>4, <1>5, <1>6 DEF ListsWhatIsLinked, Connected
<1>9. ToolsOfConnected'
  BY <1>4, <1>5 DEF McpInv, ToolsOfConnected
<1> QED BY <1>4, <1>6, <1>7, <1>8, <1>9 DEF McpInv

\* transport.list_tools answers or raises.
LEMMA TransportListsKeeps ==
    ASSUME McpInv, NEW ok \in BOOLEAN, TransportLists(ok)
    PROVE  McpInv'
<1> DEFINE s == clients[connecting.at]
<1>1. /\ connecting \in Loops /\ clients \in Seq(Servers) /\ Placed(connecting, Len(clients))
      /\ connecting.pc = "listing" /\ connecting.pc \in LoopSteps
  BY DEF McpInv, McpTypeOK, TransportLists, LoopSteps
<1>2. Len(clients) \in Nat /\ s \in Servers
  BY <1>1, AtAClient, LenProperties
<1>3. manifest[s] \in SUBSET McpTools
  BY <1>2 DEF McpInv, McpTypeOK
<1>4. /\ UNCHANGED <<clients, manifest, linked, tools, disconnecting, call, blemished>>
      /\ Disconnected' = Disconnected
  BY DEF TransportLists, Disconnected
<1>5. /\ connecting' \in Loops /\ Placed(connecting', Len(clients))
      /\ connecting'.pc \in {"listing", "listed"} => connecting'.at = connecting.at
  <2>1. CASE ok
    <3> DEFINE answer == manifest[s]
               next == [connecting EXCEPT !.pc = "listed", !.answer = answer]
    <3>4. answer \in SUBSET McpTools
      BY <1>3
    <3>3. connecting' = next
      BY <2>1 DEF TransportLists
    <3> HIDE DEF answer
    <3>1. "listed" \in LoopSteps
      BY DEF LoopSteps
    <3>2. next \in Loops /\ Placed(next, Len(clients)) /\ next.at = connecting.at
      BY <1>1, <1>2, <3>1, <3>4, LoopTakesStep
    <3> QED BY <3>2, <3>3
  <2>2. CASE ~ok
    BY <1>1, <1>2, <2>2, LoopGoesOn DEF TransportLists
  <2> QED BY <2>1, <2>2
<1>6. McpTypeOK'
  BY <1>4, <1>5 DEF McpInv, McpTypeOK
<1>7. ListsWhatIsLinked'
  BY <1>1, <1>4, <1>5 DEF McpInv, ListsWhatIsLinked, Connected
<1> QED BY <1>4, <1>5, <1>6, <1>7 DEF McpInv, ToolsOfConnected

\* The answer of tools/list is stored.
LEMMA ToolsDiscoveredKeeps ==
    ASSUME McpInv, ToolsDiscovered
    PROVE  McpInv'
<1> DEFINE s == clients[connecting.at]
<1>1. /\ connecting \in Loops /\ clients \in Seq(Servers) /\ Placed(connecting, Len(clients))
      /\ connecting.pc = "listed" /\ connecting.pc \in LoopSteps /\ connecting.answer \in SUBSET McpTools
  BY DEF McpInv, McpTypeOK, ToolsDiscovered, LoopSteps, Loops
<1>2. Len(clients) \in Nat /\ s \in Servers
  BY <1>1, AtAClient, LenProperties
<1>3. Connected = {s} /\ (s \in linked \/ s \in blemished)
  BY <1>1 DEF Connected, McpInv, ListsWhatIsLinked
<1>4. UNCHANGED <<clients, manifest, linked, disconnecting, call>> /\ Disconnected' = Disconnected
  BY DEF ToolsDiscovered, Disconnected
<1>5. /\ blemished' = blemished \cup ({s} \cap Disconnected)
      /\ tools' = [tools EXCEPT ![s] = connecting.answer]
  BY <1>3 DEF ToolsDiscovered
<1>6. connecting' \in Loops /\ Placed(connecting', Len(clients)) /\ connecting'.pc = "next"
  BY <1>1, <1>2, LoopGoesOn DEF ToolsDiscovered
<1>7. McpTypeOK'
  BY <1>1, <1>2, <1>4, <1>5, <1>6 DEF McpInv, McpTypeOK
<1>8. \A r \in Servers \ {s} : tools'[r] = tools[r]
  BY <1>5 DEF McpInv, McpTypeOK
<1>9. ToolsOfConnected'
  BY <1>3, <1>4, <1>5, <1>8 DEF McpInv, ToolsOfConnected
<1> QED BY <1>4, <1>6, <1>7, <1>9 DEF McpInv, ListsWhatIsLinked

\* transport.disconnect answers or raises.
LEMMA TransportDisconnectsKeeps ==
    ASSUME McpInv, NEW ok \in BOOLEAN, TransportDisconnects(ok)
    PROVE  McpInv'
<1> DEFINE s == clients[disconnecting.at]
<1>1. /\ disconnecting \in Loops /\ clients \in Seq(Servers) /\ Placed(disconnecting, Len(clients))
      /\ disconnecting.pc = "unlinking" /\ disconnecting.pc \in LoopSteps
      /\ disconnecting.answer \in SUBSET McpTools
  BY DEF McpInv, McpTypeOK, TransportDisconnects, LoopSteps, Loops
<1>2. Len(clients) \in Nat /\ s \in Servers
  BY <1>1, AtAClient, LenProperties
<1>3. Disconnected = {s}
  BY <1>1 DEF Disconnected
<1>4. UNCHANGED <<clients, manifest, tools, connecting, call>> /\ Connected' = Connected
  BY DEF TransportDisconnects, Connected
<1>5. /\ linked' = linked \ {s}
      /\ blemished' = IF ok THEN blemished \cup (Connected \cap {s}) ELSE blemished \cup {s}
  BY <1>3 DEF TransportDisconnects
<1>6. /\ disconnecting' \in Loops /\ Placed(disconnecting', Len(clients))
      /\ ok => disconnecting'.pc = "unlinked" /\ disconnecting'.at = disconnecting.at
      /\ ~ok => disconnecting'.pc = "next"
  <2>1. CASE ok
    <3> DEFINE next == [disconnecting EXCEPT !.pc = "unlinked", !.answer = disconnecting.answer]
    <3>1. next = [disconnecting EXCEPT !.pc = "unlinked"]
      BY <1>1 DEF Loops
    <3>2. /\ next \in Loops /\ Placed(next, Len(clients)) /\ next.pc = "unlinked"
          /\ next.at = disconnecting.at
      BY <1>1, <1>2, LoopTakesStep, ZenonT(40) DEF LoopSteps
    <3> QED BY <2>1, <3>1, <3>2 DEF TransportDisconnects
  <2>2. CASE ~ok
    BY <1>1, <1>2, <2>2, LoopGoesOn DEF TransportDisconnects
  <2> QED BY <2>1, <2>2
<1>7. McpTypeOK'
  BY <1>2, <1>4, <1>5, <1>6 DEF McpInv, McpTypeOK
<1>8. ListsWhatIsLinked'
  <2>1. Connected \subseteq linked \cup blemished => Connected \subseteq linked' \cup blemished'
    BY <1>5
  <2> QED BY <1>4, <2>1 DEF McpInv, ListsWhatIsLinked
<1>9. ToolsOfConnected'
  <2>1. CASE ok
    <3>1. Disconnected' = {s}
      BY <1>4, <1>6, <2>1 DEF Disconnected
    <3> QED BY <1>3, <1>4, <1>5, <2>1, <3>1 DEF McpInv, ToolsOfConnected
  <2>2. CASE ~ok
    BY <1>3, <1>4, <1>5, <2>2 DEF McpInv, ToolsOfConnected
  <2> QED BY <2>1, <2>2
<1> QED BY <1>4, <1>6, <1>7, <1>8, <1>9 DEF McpInv

\* A disconnected client forgets its tools.
LEMMA ToolsClearedKeeps ==
    ASSUME McpInv, ToolsCleared
    PROVE  McpInv'
<1> DEFINE s == clients[disconnecting.at]
<1>1. /\ disconnecting \in Loops /\ clients \in Seq(Servers) /\ Placed(disconnecting, Len(clients))
      /\ disconnecting.pc = "unlinked" /\ disconnecting.pc \in LoopSteps
  BY DEF McpInv, McpTypeOK, ToolsCleared, LoopSteps
<1>2. Len(clients) \in Nat /\ s \in Servers
  BY <1>1, AtAClient, LenProperties
<1>3. Disconnected = {s}
  BY <1>1 DEF Disconnected
<1>4. UNCHANGED <<clients, manifest, linked, connecting, call>> /\ Connected' = Connected
  BY DEF ToolsCleared, Connected
<1>5. /\ blemished' = (blemished \ {s}) \cup (Connected \cap {s})
      /\ tools' = [r \in Servers |-> IF r \in {s} THEN {} ELSE tools[r]]
  BY <1>3 DEF ToolsCleared
<1>6. disconnecting' \in Loops /\ Placed(disconnecting', Len(clients)) /\ disconnecting'.pc = "next"
  BY <1>1, <1>2, LoopGoesOn DEF ToolsCleared
<1>7. McpTypeOK'
  BY <1>2, <1>4, <1>5, <1>6 DEF McpInv, McpTypeOK
<1>8. ListsWhatIsLinked'
  <2>1. Connected \subseteq linked \cup blemished => Connected \subseteq linked' \cup blemished'
    BY <1>4, <1>5
  <2> QED BY <1>4, <2>1 DEF McpInv, ListsWhatIsLinked
<1>9. ToolsOfConnected'
  BY <1>2, <1>3, <1>4, <1>5 DEF McpInv, ToolsOfConnected
<1> QED BY <1>4, <1>6, <1>7, <1>8, <1>9 DEF McpInv

\* The inductive invariant holds.
LEMMA McpInvHolds == McpSpec => []McpInv
<1>1. McpInv /\ [McpNext]_mcpVars => McpInv'
  <2> SUFFICES ASSUME McpInv, [McpNext]_mcpVars PROVE McpInv'
    OBVIOUS
  <2>1. CASE UNCHANGED mcpVars
    <3>1. UNCHANGED <<clients, manifest, linked, tools, connecting, disconnecting, call, blemished>>
      BY <2>1 DEF mcpVars
    <3>2. Connected' = Connected /\ Disconnected' = Disconnected
      BY <3>1 DEF Connected, Disconnected
    <3> QED BY <3>1, <3>2 DEF McpInv, McpTypeOK, ListsWhatIsLinked, ToolsOfConnected
  <2>2. CASE McpNext
    BY <2>2, McpAddKeeps, ServersKeep, ConnectingKeeps, DisconnectingKeeps, TransportConnectsKeeps,
       TransportListsKeeps, ToolsDiscoveredKeeps, TransportDisconnectsKeeps, ToolsClearedKeeps
       DEF McpNext
  <2> QED BY <2>1, <2>2
<1> QED BY <1>1, McpBegins, PTL DEF McpSpec

\* A server that is not linked has no tools on offer, unless its link broke, its
\* disconnect raised, or it was connected and disconnected at once.
THEOREM ToolsAreOfConnectedServers == McpSpec => []ToolsOfConnected
<1>1. McpInv => ToolsOfConnected
  BY DEF McpInv
<1> QED BY <1>1, McpInvHolds, PTL

-----------------------------------------------------------------------------
(* ConnectorService: the refresh token of a connector stays alive *)

\* Request r refreshes c: it has been posted, or its answer is on the way.
Posted(r, c) == request[r].id = c /\ request[r].pc = "posted"
Answered(r, c) == request[r].id = c /\ request[r].pc = "answered"

\* The types of what a refresh touches; only registered connectors are refreshed.
TokensTyped ==
    /\ access \in [Stored -> Nat] /\ refresh \in [Stored -> Nat] /\ accepted \in [Stored -> SUBSET Nat]
    /\ granted \in [Stored -> Nat] /\ request \in [Requests -> RequestState]
    /\ endpoint \in [Stored -> EndpointKinds] /\ mislaid \subseteq Stored /\ overlapped \subseteq Stored
    /\ \A r \in Requests : request[r].pc \in {"posted", "answered"} => request[r].id \in Stored

\* An endpoint that does not rotate accepts its first refresh token for ever.
KeptChain(c) ==
    /\ refresh[c] = 1 /\ accepted[c] = {1}
    /\ \A r \in Requests : Posted(r, c) \/ Answered(r, c) => request[r].presented = 1
    /\ \A r \in Requests : Answered(r, c) => request[r].token.refresh = 0

\* One that rotates accepts its latest grant, which is stored or in the one answer
\* on the way; what was posted is not newer than what is stored.
RotatedChain(c) ==
    /\ \A r \in Requests : Posted(r, c) => request[r].presented <= refresh[c]
    /\ \A r \in Requests : Answered(r, c) =>
            request[r].token.refresh = granted[c] /\ refresh[c] < granted[c]
    /\ \A r, u \in Requests : Answered(r, c) /\ Answered(u, c) => r = u
    /\ (\A r \in Requests : ~Answered(r, c)) => refresh[c] = granted[c]

\* The newest token an endpoint accepts outlives every grace.
Newest(t, c) == t \in accepted[c] /\ \A u \in accepted[c] : u <= t
ToStore(r) == IF request[r].token.refresh = 0 THEN request[r].presented ELSE request[r].token.refresh

\* As long as no two refreshes overlap, a fickle one accepts what is stored, or what
\* the one answer on the way will store, and nothing newer.
FickleChain(c) ==
    /\ \A r, u \in Requests : (Posted(r, c) \/ Answered(r, c)) /\ (Posted(u, c) \/ Answered(u, c)) => r = u
    /\ \A r \in Requests : Posted(r, c) => request[r].presented = refresh[c]
    /\ \A r \in Requests : Answered(r, c) => Newest(ToStore(r), c)
    /\ (\A r \in Requests : ~Answered(r, c)) => Newest(refresh[c], c)

Chained(c) ==
    /\ accepted[c] \subseteq 0..granted[c]
    /\ endpoint[c] = "never" => KeptChain(c)
    /\ endpoint[c] = "always" => accepted[c] = {granted[c]}
    /\ endpoint[c] = "always" /\ c \notin mislaid => RotatedChain(c)
    /\ endpoint[c] = "fickle" /\ c \notin mislaid \cup overlapped => FickleChain(c)

\* Inductive strengthening of RefreshTokenLive.
ServiceInv == TokensTyped /\ \A c \in Stored : Chained(c)

LEMMA ServiceBegins == ServiceInit => ServiceInv
<1> SUFFICES ASSUME ServiceInit PROVE ServiceInv
  OBVIOUS
<1>1. TokensTyped
  BY DEF ServiceInit, TokensTyped, RequestState, NoGrant
<1>2. ASSUME NEW c \in Stored PROVE Chained(c)
  <2>1. \A r \in Requests : ~Posted(r, c) /\ ~Answered(r, c)
    BY DEF ServiceInit, Posted, Answered
  <2>2. refresh[c] = 1 /\ accepted[c] = {1} /\ granted[c] = 1
    BY DEF ServiceInit
  <2> QED BY <2>1, <2>2 DEF Chained, KeptChain, RotatedChain, FickleChain, Newest
<1> QED BY <1>1, <1>2 DEF ServiceInv

LEMMA RequestType == ASSUME ServiceInv, NEW r \in Requests PROVE request[r] \in RequestState
  BY DEF ServiceInv, TokensTyped

\* Refreshes that go away, or stay as they are, leave a chain as it is.
LEMMA ChainStays ==
    ASSUME ServiceInv, NEW c \in Stored,
           \A u \in Requests : /\ Posted(u, c)' => Posted(u, c) /\ request'[u] = request[u]
                               /\ Answered(u, c)' <=> Answered(u, c)
                               /\ Answered(u, c) => request'[u] = request[u],
           refresh'[c] = refresh[c], accepted'[c] = accepted[c], granted'[c] = granted[c],
           endpoint'[c] = endpoint[c], c \in mislaid => c \in mislaid', c \in overlapped => c \in overlapped'
    PROVE  Chained(c)'
<1>1. Chained(c)
  BY DEF ServiceInv
<1>2. KeptChain(c) => KeptChain(c)'
  BY DEF KeptChain
<1>3. RotatedChain(c) => RotatedChain(c)'
  BY DEF RotatedChain
<1>4. FickleChain(c) => FickleChain(c)'
  <2> SUFFICES ASSUME FickleChain(c) PROVE FickleChain(c)'
    OBVIOUS
  <2>1. \A u \in Requests : Answered(u, c) => ToStore(u)' = ToStore(u)
    BY DEF ToStore
  <2>2. \A t : Newest(t, c) => (t \in accepted[c] /\ \A u \in accepted'[c] : u <= t)
    BY DEF Newest
  <2>3. \A u \in Requests : Answered(u, c)' => Newest(ToStore(u), c)'
    BY <2>1, <2>2 DEF FickleChain, Newest
  <2> QED BY <2>2, <2>3 DEF FickleChain, Newest
<1> QED BY <1>1, <1>2, <1>3, <1>4 DEF Chained

\* A request that does not refresh, now or next, leaves every chain as it is.
LEMMA QuietRequest ==
    ASSUME ServiceInv, NEW r \in Requests, NEW s \in RequestState,
           request[r].pc # "answered", s.pc \notin {"posted", "answered"},
           request' = [request EXCEPT ![r] = s],
           UNCHANGED <<access, refresh, endpoint, accepted, granted, mislaid, overlapped>>
    PROVE  ServiceInv'
<1>1. /\ request' \in [Requests -> RequestState] /\ request'[r] = s
      /\ \A u \in Requests \ {r} : request'[u] = request[u]
  BY DEF ServiceInv, TokensTyped
<1>2. TokensTyped'
  BY <1>1 DEF ServiceInv, TokensTyped
<1>3. ASSUME NEW c \in Stored PROVE Chained(c)'
  <2>1. \A u \in Requests : /\ Posted(u, c)' => Posted(u, c) /\ request'[u] = request[u]
                            /\ Answered(u, c)' <=> Answered(u, c)
                            /\ Answered(u, c) => request'[u] = request[u]
    BY <1>1 DEF Posted, Answered
  <2> QED BY <2>1, ChainStays
<1> QED BY <1>2, <1>3 DEF ServiceInv

LEMMA QuietSteps ==
    ASSUME ServiceInv, UNCHANGED endpoint, NEW r \in Requests,
           \/ NotFound(r) \/ (EndpointRefuses(r) /\ UNCHANGED accepted)
           \/ \E pc \in {"success", "error"} : SendingEnds(r, pc)
           \/ \E c \in Stored :
                \/ Refused(r, c) \/ AnsweredAtOnce(r, c)
                \/ \E a \in Sending : Sent(r, c, a)
                \/ \E e \in EventTypes : Subscribe(r, c, e) \/ Unsubscribe(r, c, e)
    PROVE  ServiceInv'
<1>1. UNCHANGED <<access, refresh, endpoint, accepted, granted, mislaid, overlapped>>
  BY DEF NotFound, EndpointRefuses, SendingEnds, Refused, AnsweredAtOnce, Sent, Subscribe, Unsubscribe
<1>2. CASE EndpointRefuses(r) \/ \E pc \in {"success", "error"} : SendingEnds(r, pc)
  <2>1. PICK pc \in {"success", "error"} : Becomes(r, pc) /\ request[r].pc # "answered"
    BY <1>2 DEF EndpointRefuses, SendingEnds
  <2> DEFINE s == [request[r] EXCEPT !.pc = pc]
  <2>2. s \in RequestState /\ s.pc = pc
    BY RequestType DEF RequestState
  <2>3. request' = [request EXCEPT ![r] = s]
    BY <2>1 DEF Becomes
  <2> HIDE DEF s
  <2> QED BY <1>1, <2>1, <2>2, <2>3, QuietRequest
<1>3. CASE \E id \in Stored \cup {UnknownId}, pc \in {"404", "error", "success", "probed", "sent"},
              n \in Nat : NewRequest(r, id, pc, n)
  <2>1. PICK id \in Stored \cup {UnknownId}, pc \in {"404", "error", "success", "probed", "sent"},
             n \in Nat : NewRequest(r, id, pc, n)
    BY <1>3
  <2> DEFINE s == [pc |-> pc, id |-> id, presented |-> n, token |-> NoGrant]
  <2>2. s \in RequestState /\ s.pc = pc
    BY DEF RequestState, NoGrant
  <2>3. request' = [request EXCEPT ![r] = s] /\ request[r].pc # "answered"
    BY <2>1 DEF NewRequest, Pending
  <2> HIDE DEF s
  <2> QED BY <1>1, <2>2, <2>3, QuietRequest
<1>4. 0 \in Nat /\ \A c \in Stored : access[c] \in Nat
  BY DEF ServiceInv, TokensTyped
<1>5. ASSUME NotFound(r) PROVE ServiceInv'
  BY <1>3, <1>4, <1>5 DEF NotFound
<1>6. ASSUME NEW c \in Stored,
             \/ Refused(r, c) \/ AnsweredAtOnce(r, c)
             \/ \E e \in EventTypes : Subscribe(r, c, e) \/ Unsubscribe(r, c, e)
      PROVE  ServiceInv'
  <2>1. NewRequest(r, c, "error", 0) \/ NewRequest(r, c, "success", 0)
    BY <1>6 DEF Refused, AnsweredAtOnce, Subscribe, Unsubscribe
  <2> QED BY <1>3, <1>4, <2>1
<1>7. ASSUME NEW c \in Stored, NEW a \in Sending, Sent(r, c, a) PROVE ServiceInv'
  <2>1. NewRequest(r, c, "probed", access[c]) \/ NewRequest(r, c, "sent", access[c])
    BY <1>7 DEF Sent
  <2> QED BY <1>3, <1>4, <2>1
<1> QED BY <1>2, <1>5, <1>6, <1>7

\* A refresh is posted with what is stored.
LEMMA PostedKeeps ==
    ASSUME ServiceInv, UNCHANGED endpoint, NEW r \in Requests, NEW c \in Stored, RefreshPosted(r, c)
    PROVE  ServiceInv'
<1> DEFINE s == [pc |-> "posted", id |-> c, presented |-> refresh[c], token |-> NoGrant]
<1>1. s \in RequestState /\ s.pc = "posted" /\ s.id = c /\ s.presented = refresh[c]
  BY DEF RequestState, NoGrant, ServiceInv, TokensTyped
<1>2. /\ request' = [request EXCEPT ![r] = s] /\ request[r].pc \notin {"posted", "answered"}
      /\ UNCHANGED <<access, refresh, endpoint, accepted, granted, mislaid>>
  BY DEF RefreshPosted, NewRequest, Pending
<1>3. /\ overlapped \subseteq overlapped' /\ overlapped' \subseteq overlapped \cup {c}
      /\ (\E u \in Requests \ {r} : Posted(u, c) \/ Answered(u, c)) => c \in overlapped'
  BY DEF RefreshPosted, Refreshing, Posted, Answered
<1> HIDE DEF s
<1>4. /\ request' \in [Requests -> RequestState] /\ request'[r] = s
      /\ \A u \in Requests \ {r} : request'[u] = request[u]
  BY <1>1, <1>2 DEF ServiceInv, TokensTyped
<1>5. TokensTyped'
  <2>1. request'[r].id \in Stored
    BY <1>1, <1>4
  <2> QED BY <1>2, <1>3, <1>4, <2>1 DEF ServiceInv, TokensTyped
<1>6. ASSUME NEW d \in Stored, d # c PROVE Chained(d)'
  <2>1. \A u \in Requests : /\ Posted(u, d)' => Posted(u, d) /\ request'[u] = request[u]
                            /\ Answered(u, d)' <=> Answered(u, d)
                            /\ Answered(u, d) => request'[u] = request[u]
    BY <1>1, <1>2, <1>4, <1>6 DEF Posted, Answered
  <2> QED BY <1>2, <1>3, <1>6, <2>1, ChainStays
<1>7. Chained(c)'
  <2>1. Chained(c) /\ refresh[c] \in Nat
    BY DEF ServiceInv, TokensTyped
  <2>2. \A u \in Requests : /\ Posted(u, c)' => \/ Posted(u, c) /\ request'[u] = request[u] /\ u # r
                                                \/ u = r
                            /\ Answered(u, c)' => Answered(u, c) /\ request'[u] = request[u] /\ u # r
                            /\ Answered(u, c) => Answered(u, c)'
    BY <1>1, <1>2, <1>4 DEF Posted, Answered
  <2>3. request'[r].presented = refresh[c] /\ refresh[c] <= refresh[c]
    BY <1>1, <1>4, <2>1
  <2>4. UNCHANGED <<refresh, endpoint, accepted, granted, mislaid>>
    BY <1>2
  <2>5. endpoint[c] = "never" => KeptChain(c)'
    BY <2>1, <2>2, <2>3, <2>4 DEF Chained, KeptChain
  <2>6. endpoint[c] = "always" /\ c \notin mislaid => RotatedChain(c)'
    BY <2>1, <2>2, <2>3, <2>4 DEF Chained, RotatedChain
  <2>7. endpoint[c] = "fickle" /\ c \notin mislaid \cup overlapped' => FickleChain(c)'
    <3> SUFFICES ASSUME endpoint[c] = "fickle", c \notin mislaid \cup overlapped' PROVE FickleChain(c)'
      OBVIOUS
    <3>1. FickleChain(c)
      BY <1>3, <2>1 DEF Chained
    <3>2. \A u \in Requests : ~(Answered(u, c)') /\ (Posted(u, c)' => u = r) /\ ~Answered(u, c)
      BY <1>3, <2>2
    <3>3. Newest(refresh[c], c)
      BY <3>1, <3>2 DEF FickleChain
    <3>4. Newest(refresh[c], c)'
      BY <2>4, <3>3 DEF Newest
    <3> QED BY <2>3, <2>4, <3>2, <3>4 DEF FickleChain
  <2> QED BY <2>1, <2>4, <2>5, <2>6, <2>7 DEF Chained
<1> QED BY <1>5, <1>6, <1>7 DEF ServiceInv

\* The step a refresh of c takes: the state its request moves to, and the types it keeps.
LEMMA RefreshMoves ==
    ASSUME ServiceInv, NEW r \in Requests, request[r].pc \in {"posted", "answered"},
           NEW c \in Stored, request[r].id = c, NEW s \in RequestState, s.id = c,
           request' = [request EXCEPT ![r] = s],
           access' \in [Stored -> Nat], refresh' \in [Stored -> Nat],
           accepted' \in [Stored -> SUBSET Nat], granted' \in [Stored -> Nat],
           UNCHANGED <<endpoint, overlapped>>, mislaid' \in {mislaid, mislaid \cup {c}},
           \A d \in Stored \ {c} : refresh'[d] = refresh[d] /\ accepted'[d] = accepted[d]
                                 /\ granted'[d] = granted[d],
           Chained(c)'
    PROVE  ServiceInv'
<1>1. /\ request' \in [Requests -> RequestState] /\ request'[r] = s
      /\ \A u \in Requests \ {r} : request'[u] = request[u]
  BY DEF ServiceInv, TokensTyped
<1>2. TokensTyped'
  BY <1>1 DEF ServiceInv, TokensTyped
<1>3. ASSUME NEW d \in Stored, d # c PROVE Chained(d)'
  <2>1. \A u \in Requests : /\ Posted(u, d)' => Posted(u, d) /\ request'[u] = request[u]
                            /\ Answered(u, d)' <=> Answered(u, d)
                            /\ Answered(u, d) => request'[u] = request[u]
    BY <1>1, <1>3 DEF Posted, Answered
  <2> QED BY <1>3, <2>1, ChainStays
<1> QED BY <1>2, <1>3 DEF ServiceInv

\* The endpoint grants what it accepts; whatever else was posted to one that always
\* rotates is then too old.
LEMMA GrantKeeps ==
    ASSUME ServiceInv, UNCHANGED endpoint, NEW r \in Requests, NEW c \in Stored, request[r].id = c,
           EndpointGrants(r)
    PROVE  ServiceInv'
<1> DEFINE n == granted[c] + 1
<1>1. /\ request[r] \in RequestState /\ Posted(r, c) /\ Chained(c) /\ request[r].presented \in accepted[c]
      /\ request[r].pc = "posted" /\ endpoint[c] \in EndpointKinds
  BY DEF ServiceInv, TokensTyped, EndpointGrants, Posted
<1>2. /\ n \in Nat /\ granted[c] \in Nat /\ accepted[c] \in SUBSET Nat /\ refresh[c] \in Nat
      /\ granted[c] < n /\ n # 0 /\ request[r].presented \in Nat
  BY <1>1 DEF ServiceInv, TokensTyped, RequestState
<1>3. PICK next \in {n, 0} : \E tokens \in IF next = n THEN Rotated(c, n) ELSE NotRotated(c) :
          /\ accepted' = [accepted EXCEPT ![c] = tokens]
          /\ request' = [request EXCEPT ![r] =
                [request[r] EXCEPT !.pc = "answered", !.token = [access |-> n, refresh |-> next]]]
  BY DEF EndpointGrants
<1>4. PICK tokens \in IF next = n THEN Rotated(c, n) ELSE NotRotated(c) :
          /\ accepted' = [accepted EXCEPT ![c] = tokens]
          /\ request' = [request EXCEPT ![r] =
                [request[r] EXCEPT !.pc = "answered", !.token = [access |-> n, refresh |-> next]]]
  BY <1>3
<1> DEFINE s == [request[r] EXCEPT !.pc = "answered", !.token = [access |-> n, refresh |-> next]]
<1>5. /\ granted' = [granted EXCEPT ![c] = n]
      /\ UNCHANGED <<access, refresh, mislaid, overlapped>>
  BY DEF EndpointGrants
<1>6. \/ endpoint[c] = "always" /\ next = n /\ tokens = {n}
      \/ endpoint[c] = "never" /\ next = 0 /\ tokens = accepted[c]
      \/ endpoint[c] = "fickle" /\ \/ next = n /\ tokens \in {{n}, accepted[c] \cup {n}}
                                   \/ next = 0 /\ tokens = accepted[c]
  BY <1>1, <1>2, <1>4 DEF Rotated, NotRotated, EndpointKinds
<1>7. /\ s \in RequestState /\ s.pc = "answered" /\ s.id = c /\ s.presented = request[r].presented
      /\ s.token.refresh = next
  <2> DEFINE given == [access |-> n, refresh |-> next]
  <2>1. given \in [access : Nat, refresh : Nat] /\ given.refresh = next
    BY <1>2
  <2>2. s = [request[r] EXCEPT !.pc = "answered", !.token = given]
    OBVIOUS
  <2> HIDE DEF given, s
  <2> QED BY <1>1, <2>1, <2>2 DEF RequestState
<1>8. request' = [request EXCEPT ![r] = s]
  BY <1>4
<1> HIDE DEF s
<1>9. /\ request'[r] = s /\ \A u \in Requests \ {r} : request'[u] = request[u]
  BY <1>8 DEF ServiceInv, TokensTyped
<1>10. tokens \in SUBSET Nat /\ tokens \subseteq 0..n
  <2>1. accepted[c] \subseteq 0..granted[c] /\ 0..granted[c] \subseteq 0..n /\ n \in 0..n
    BY <1>1, <1>2 DEF Chained
  <2> HIDE DEF n
  <2> QED BY <1>2, <1>6, <2>1
<1>11. /\ granted' \in [Stored -> Nat] /\ accepted' \in [Stored -> SUBSET Nat] /\ granted'[c] = n
       /\ accepted'[c] = tokens
       /\ \A d \in Stored \ {c} : accepted'[d] = accepted[d] /\ granted'[d] = granted[d]
  BY <1>1, <1>2, <1>4, <1>5, <1>10 DEF ServiceInv, TokensTyped
<1>12. \A u \in Requests : /\ Posted(u, c)' => Posted(u, c) /\ request'[u] = request[u]
                           /\ Answered(u, c)' <=> u = r \/ Answered(u, c)
                           /\ Answered(u, c) => request'[u] = request[u]
  BY <1>1, <1>7, <1>9 DEF Posted, Answered
<1> HIDE DEF n
<1>13. endpoint[c] = "never" => KeptChain(c)'
  <2> SUFFICES ASSUME endpoint[c] = "never" PROVE KeptChain(c)'
    OBVIOUS
  <2>1. KeptChain(c) /\ accepted[c] = {1} /\ tokens = {1} /\ next = 0
    BY <1>1, <1>6 DEF Chained, KeptChain
  <2>2. s.presented = 1 /\ s.token.refresh = 0
    BY <1>1, <1>7, <2>1
  <2> QED BY <1>5, <1>9, <1>11, <1>12, <2>1, <2>2 DEF KeptChain
<1>14. endpoint[c] = "always" => accepted'[c] = {granted'[c]}
  BY <1>6, <1>11
<1>15. endpoint[c] = "always" /\ c \notin mislaid => RotatedChain(c)'
  <2> SUFFICES ASSUME endpoint[c] = "always", c \notin mislaid PROVE RotatedChain(c)'
    OBVIOUS
  <2>1. RotatedChain(c) /\ accepted[c] = {granted[c]} /\ next = n
    BY <1>1, <1>6 DEF Chained
  <2>2. granted[c] <= refresh[c]
    BY <1>1, <2>1 DEF RotatedChain
  <2>3. \A u \in Requests : ~Answered(u, c)
    BY <1>2, <2>1, <2>2 DEF RotatedChain
  <2>4. refresh[c] = granted[c] /\ granted[c] < n
    BY <1>2, <2>1, <2>3 DEF RotatedChain
  <2>5. UNCHANGED refresh /\ granted'[c] = n /\ s.token.refresh = n
    BY <1>5, <1>7, <1>11, <2>1
  <2> QED BY <1>9, <1>12, <2>1, <2>3, <2>4, <2>5 DEF RotatedChain
<1>16. endpoint[c] = "fickle" /\ c \notin mislaid \cup overlapped => FickleChain(c)'
  <2> SUFFICES ASSUME endpoint[c] = "fickle", c \notin mislaid \cup overlapped PROVE FickleChain(c)'
    OBVIOUS
  <2>1. FickleChain(c)
    BY <1>1 DEF Chained
  <2>2. \A u \in Requests : Posted(u, c) \/ Answered(u, c) => u = r
    BY <1>1, <2>1 DEF FickleChain
  <2>3. \A u \in Requests : ~Answered(u, c)
    BY <1>1, <2>2 DEF Answered, Posted
  <2>4. Newest(request[r].presented, c)
    BY <1>1, <2>1, <2>3 DEF FickleChain
  <2>5. \A u \in Requests : (Answered(u, c)' => u = r) /\ ~(Posted(u, c)')
    <3>1. s.pc = "answered" /\ request'[r] = s
      BY <1>7, <1>9
    <3> QED BY <1>12, <2>2, <3>1 DEF Posted, Answered
  <2>6. Newest(ToStore(r), c)'
    <3>1. ToStore(r)' = IF next = 0 THEN request[r].presented ELSE next
      BY <1>7, <1>9 DEF ToStore
    <3>2. CASE next = 0
      <4>1. tokens = accepted[c]
        BY <1>2, <1>6, <3>2
      <4> QED BY <1>11, <2>4, <3>1, <3>2, <4>1 DEF Newest
    <3>3. CASE next # 0
      <4>1. next = n /\ n \in tokens /\ \A u \in tokens : u <= n
        <5>1. next = n /\ n \in tokens
          BY <1>6, <3>3
        <5>2. \A u \in 0..n : u <= n
          BY <1>2
        <5> QED BY <1>10, <5>1, <5>2
      <4> QED BY <1>11, <3>1, <3>3, <4>1 DEF Newest
    <3> QED BY <3>2, <3>3
  <2>7. Answered(r, c)'
    BY <1>12
  <2> QED BY <2>5, <2>6, <2>7 DEF FickleChain
<1>17. Chained(c)'
  <2>1. accepted'[c] \subseteq 0..granted'[c]
    BY <1>10, <1>11
  <2> QED BY <1>5, <1>13, <1>14, <1>15, <1>16, <2>1 DEF Chained
<1> QED
  BY <1>1, <1>5, <1>7, <1>8, <1>11, <1>17, RefreshMoves DEF ServiceInv, TokensTyped, Posted

\* The answer is stored, or lost.
LEMMA AnswerKeeps ==
    ASSUME ServiceInv, UNCHANGED endpoint, NEW r \in Requests, NEW c \in Stored, request[r].id = c,
           TokensStored(r) \/ AnswerLost(r)
    PROVE  ServiceInv'
<1> DEFINE t == request[r].token
<1>1. request[r] \in RequestState /\ Chained(c)
  BY DEF ServiceInv, TokensTyped
<1>2. /\ t \in [access : Nat, refresh : Nat] /\ t.access \in Nat /\ t.refresh \in Nat
      /\ request[r].presented \in Nat /\ granted[c] \in Nat /\ refresh[c] \in Nat
  BY <1>1 DEF RequestState, ServiceInv, TokensTyped
<1>3. PICK pc \in {"success", "error"} : Becomes(r, pc)
  BY DEF TokensStored, AnswerLost
<1> DEFINE s == [request[r] EXCEPT !.pc = pc]
<1>4. s \in RequestState /\ s.pc = pc /\ s.id = c
  BY <1>1 DEF RequestState
<1>5. request' = [request EXCEPT ![r] = s]
  BY <1>3 DEF Becomes
<1> HIDE DEF s
<1>6. /\ request'[r] = s /\ \A u \in Requests \ {r} : request'[u] = request[u]
  BY <1>5 DEF ServiceInv, TokensTyped
<1>7. UNCHANGED <<accepted, granted, overlapped>>
  BY DEF TokensStored, AnswerLost
<1>8. \A u \in Requests : /\ Posted(u, c)' => Posted(u, c) /\ request'[u] = request[u]
                          /\ Answered(u, c)' <=> Answered(u, c) /\ u # r
                          /\ Answered(u, c)' => request'[u] = request[u]
  BY <1>4, <1>6 DEF Posted, Answered
<1>9. CASE TokensStored(r)
  <2>1. ToStore(r) \in Nat /\ Answered(r, c)
    BY <1>2, <1>9 DEF TokensStored, ToStore, Answered
  <2>2. /\ access' \in [Stored -> Nat] /\ refresh' \in [Stored -> Nat] /\ refresh'[c] = ToStore(r)
        /\ UNCHANGED mislaid /\ \A d \in Stored \ {c} : refresh'[d] = refresh[d]
    BY <1>1, <1>2, <1>9, <2>1 DEF TokensStored, ToStore, ServiceInv, TokensTyped
  <2>3. endpoint[c] = "never" => KeptChain(c)'
    <3> SUFFICES ASSUME endpoint[c] = "never" PROVE KeptChain(c)'
      OBVIOUS
    <3>1. KeptChain(c) /\ request[r].presented = 1 /\ t.refresh = 0
      BY <1>1, <2>1 DEF Chained, KeptChain
    <3>2. refresh'[c] = 1
      BY <2>2, <3>1 DEF ToStore
    <3> QED BY <1>7, <1>8, <3>1, <3>2 DEF KeptChain
  <2>4. endpoint[c] = "always" /\ c \notin mislaid => RotatedChain(c)'
    <3> SUFFICES ASSUME endpoint[c] = "always", c \notin mislaid PROVE RotatedChain(c)'
      OBVIOUS
    <3>1. RotatedChain(c) /\ t.refresh = granted[c] /\ refresh[c] < granted[c]
      BY <1>1, <2>1 DEF Chained, RotatedChain
    <3>2. ToStore(r) = granted[c]
      BY <1>2, <3>1 DEF ToStore
    <3>3. \A u \in Requests : ~(Answered(u, c)')
      BY <1>8, <2>1, <3>1 DEF RotatedChain
    <3>4. \A u \in Requests : Posted(u, c)' => request'[u].presented <= granted[c]
      <4> SUFFICES ASSUME NEW u \in Requests, Posted(u, c)'
                   PROVE  request'[u].presented <= granted[c]
        OBVIOUS
      <4>1. request'[u] = request[u] /\ request[u].presented <= refresh[c]
        BY <1>8, <3>1 DEF RotatedChain
      <4>2. request[u].presented \in Nat
        BY RequestType DEF RequestState
      <4> QED BY <1>2, <3>1, <4>1, <4>2
    <3>5. refresh'[c] = granted[c] /\ granted'[c] = granted[c]
      BY <1>7, <2>2, <3>2
    <3> QED BY <3>3, <3>4, <3>5 DEF RotatedChain
  <2>5. endpoint[c] = "fickle" /\ c \notin mislaid \cup overlapped => FickleChain(c)'
    <3> SUFFICES ASSUME endpoint[c] = "fickle", c \notin mislaid \cup overlapped PROVE FickleChain(c)'
      OBVIOUS
    <3>1. FickleChain(c) /\ Newest(ToStore(r), c)
      BY <1>1, <2>1 DEF Chained, FickleChain
    <3>2. \A u \in Requests : Posted(u, c) \/ Answered(u, c) => u = r
      BY <2>1, <3>1 DEF FickleChain
    <3>3. \A u \in Requests : ~(Answered(u, c)') /\ ~(Posted(u, c)')
      <4>1. s.pc # "posted" /\ request'[r] = s
        BY <1>4, <1>6
      <4> QED BY <1>8, <3>2, <4>1 DEF Posted
    <3>4. Newest(refresh[c], c)'
      BY <1>7, <2>2, <3>1 DEF Newest
    <3> QED BY <3>3, <3>4 DEF FickleChain
  <2>6. Chained(c)'
    BY <1>1, <1>7, <2>2, <2>3, <2>4, <2>5 DEF Chained
  <2>7. request[r].pc \in {"posted", "answered"}
    BY <1>9 DEF TokensStored
  <2> QED
    BY <1>4, <1>5, <1>7, <2>2, <2>6, <2>7, RefreshMoves DEF ServiceInv, TokensTyped
<1>10. CASE AnswerLost(r)
  <2>1. /\ UNCHANGED <<access, refresh>> /\ mislaid' = mislaid \cup {c}
        /\ request[r].pc \in {"posted", "answered"}
    BY <1>10 DEF AnswerLost
  <2>2. endpoint[c] = "never" => KeptChain(c)'
    BY <1>1, <1>7, <1>8, <2>1 DEF Chained, KeptChain
  <2>3. Chained(c)'
    BY <1>1, <1>7, <2>1, <2>2 DEF Chained
  <2> QED
    BY <1>4, <1>5, <1>7, <2>1, <2>3, RefreshMoves DEF ServiceInv, TokensTyped
<1> QED BY <1>9, <1>10

\* A fickle endpoint revokes everything only when refreshes overlapped or an answer
\* was lost: otherwise what is presented is what it accepts.
LEMMA RevokeKeeps ==
    ASSUME ServiceInv, UNCHANGED endpoint, NEW r \in Requests, NEW c \in Stored, request[r].id = c,
           EndpointRefuses(r), accepted' # accepted
    PROVE  ServiceInv'
<1>1. /\ request[r] \in RequestState /\ Chained(c) /\ Posted(r, c) /\ request[r].pc = "posted"
      /\ Becomes(r, "error") /\ endpoint[c] = "fickle" /\ request[r].presented \notin accepted[c]
      /\ accepted' = [accepted EXCEPT ![c] = {}]
      /\ UNCHANGED <<access, refresh, granted, mislaid, overlapped>>
  BY DEF ServiceInv, TokensTyped, EndpointRefuses, Posted
<1> DEFINE s == [request[r] EXCEPT !.pc = "error"]
<1>2. s \in RequestState /\ s.id = c
  BY <1>1 DEF RequestState
<1>3. request' = [request EXCEPT ![r] = s]
  BY <1>1 DEF Becomes
<1> HIDE DEF s
<1>4. /\ accepted' \in [Stored -> SUBSET Nat] /\ accepted'[c] = {}
      /\ \A d \in Stored \ {c} : accepted'[d] = accepted[d]
  BY <1>1 DEF ServiceInv, TokensTyped
<1>5. c \in mislaid \cup overlapped
  <2> SUFFICES ASSUME c \notin mislaid \cup overlapped PROVE FALSE
    OBVIOUS
  <2>1. FickleChain(c)
    BY <1>1 DEF Chained
  <2>2. \A u \in Requests : ~Answered(u, c)
    BY <1>1, <2>1 DEF FickleChain, Answered, Posted
  <2> QED BY <1>1, <2>1, <2>2 DEF FickleChain, Newest
<1>6. Chained(c)'
  BY <1>1, <1>4, <1>5 DEF Chained
<1> QED BY <1>1, <1>2, <1>3, <1>4, <1>6, RefreshMoves DEF ServiceInv, TokensTyped

\* The grace of an older token ends; the newest stays.
LEMMA GraceKeeps ==
    ASSUME ServiceInv, UNCHANGED endpoint, NEW c \in Stored, NEW old \in accepted[c], GraceEnds(c, old)
    PROVE  ServiceInv'
<1>1. PICK next \in accepted[c] : old < next
  BY DEF GraceEnds
<1>2. /\ accepted' = [accepted EXCEPT ![c] = accepted[c] \ {old}]
      /\ UNCHANGED <<access, refresh, endpoint, granted, request, mislaid, overlapped>>
      /\ accepted \in [Stored -> SUBSET Nat] /\ Chained(c)
  BY DEF GraceEnds, ServiceInv, TokensTyped
<1>3. /\ accepted' \in [Stored -> SUBSET Nat] /\ accepted'[c] = accepted[c] \ {old}
      /\ \A d \in Stored \ {c} : accepted'[d] = accepted[d]
  BY <1>2
<1>4. TokensTyped'
  BY <1>2, <1>3 DEF ServiceInv, TokensTyped
<1>5. \A u \in Requests, d \in Stored : /\ Posted(u, d)' <=> Posted(u, d)
                                        /\ Answered(u, d)' <=> Answered(u, d)
                                        /\ request'[u] = request[u]
  BY <1>2 DEF Posted, Answered
<1>6. ASSUME NEW d \in Stored, d # c PROVE Chained(d)'
  BY <1>2, <1>3, <1>5, <1>6, ChainStays
<1>7. old \in Nat /\ next \in Nat /\ old # next
  BY <1>1, <1>2
<1>8. Chained(c)'
  <2>1. endpoint[c] # "never" /\ endpoint[c] # "always"
    BY <1>1, <1>2, <1>7 DEF Chained, KeptChain
  <2>2. \A t : Newest(t, c) => Newest(t, c)'
    <3> SUFFICES ASSUME NEW t, Newest(t, c) PROVE Newest(t, c)'
      OBVIOUS
    <3>1. t \in Nat /\ next <= t
      BY <1>1, <1>2 DEF Newest
    <3>2. t # old
      BY <1>1, <1>7, <3>1
    <3> QED BY <1>3, <3>2 DEF Newest
  <2>3. FickleChain(c) => FickleChain(c)'
    <3> SUFFICES ASSUME FickleChain(c) PROVE FickleChain(c)'
      OBVIOUS
    <3>1. \A u \in Requests : ToStore(u)' = ToStore(u)
      BY <1>2 DEF ToStore
    <3>2. \A u \in Requests : Answered(u, c)' => Newest(ToStore(u), c)'
      <4> SUFFICES ASSUME NEW u \in Requests, Answered(u, c)' PROVE Newest(ToStore(u), c)'
        OBVIOUS
      <4>1. Newest(ToStore(u), c)
        BY <1>5 DEF FickleChain
      <4> QED BY <2>2, <3>1, <4>1 DEF Newest
    <3>3. (\A u \in Requests : ~(Answered(u, c)')) => Newest(refresh[c], c)'
      <4>1. (\A u \in Requests : ~Answered(u, c)) => Newest(refresh[c], c)
        BY DEF FickleChain
      <4> QED BY <1>2, <1>5, <2>2, <4>1 DEF Newest
    <3> QED BY <1>2, <1>5, <3>2, <3>3 DEF FickleChain
  <2>4. accepted'[c] \subseteq 0..granted'[c]
    BY <1>2, <1>3 DEF Chained
  <2> QED BY <1>2, <2>1, <2>3, <2>4 DEF Chained
<1> QED BY <1>4, <1>6, <1>8 DEF ServiceInv

\* The inductive invariant holds.
LEMMA ServiceInvHolds == ServiceSpec => []ServiceInv
<1>1. ServiceInv /\ [ServiceNext]_serviceVars => ServiceInv'
  <2> SUFFICES ASSUME ServiceInv, [ServiceNext]_serviceVars PROVE ServiceInv'
    OBVIOUS
  <2>1. CASE UNCHANGED serviceVars
    <3>1. UNCHANGED <<access, refresh, endpoint, accepted, granted, request, mislaid, overlapped>>
      BY <2>1 DEF serviceVars
    <3>2. TokensTyped'
      BY <3>1 DEF ServiceInv, TokensTyped
    <3>3. ASSUME NEW c \in Stored PROVE Chained(c)'
      <4>1. \A u \in Requests : /\ Posted(u, c)' => Posted(u, c) /\ request'[u] = request[u]
                                /\ Answered(u, c)' <=> Answered(u, c)
                                /\ Answered(u, c) => request'[u] = request[u]
        BY <3>1 DEF Posted, Answered
      <4> QED BY <3>1, <4>1, ChainStays
    <3> QED BY <3>2, <3>3 DEF ServiceInv
  <2>2. CASE Handlers /\ UNCHANGED endpoint
    <3>1. PICK r \in Requests :
            \/ NotFound(r) \/ EndpointGrants(r) \/ EndpointRefuses(r) \/ TokensStored(r) \/ AnswerLost(r)
            \/ \E pc \in {"success", "error"} : SendingEnds(r, pc)
            \/ \E c \in Stored :
                 \/ RefreshPosted(r, c) \/ Refused(r, c) \/ AnsweredAtOnce(r, c)
                 \/ \E a \in Sending : Sent(r, c, a)
                 \/ \E e \in EventTypes : Subscribe(r, c, e) \/ Unsubscribe(r, c, e)
      BY <2>2 DEF Handlers
    <3>2. ASSUME EndpointGrants(r) \/ TokensStored(r) \/ AnswerLost(r) PROVE ServiceInv'
      <4>1. PICK c \in Stored : request[r].id = c
        BY <3>2 DEF EndpointGrants, TokensStored, AnswerLost, ServiceInv, TokensTyped
      <4> QED BY <2>2, <3>2, <4>1, GrantKeeps, AnswerKeeps
    <3>3. ASSUME EndpointRefuses(r) PROVE ServiceInv'
      <4>1. PICK c \in Stored : request[r].id = c
        BY <3>3 DEF EndpointRefuses, ServiceInv, TokensTyped
      <4>2. CASE UNCHANGED accepted
        BY <2>2, <3>3, <4>2, QuietSteps
      <4>3. CASE accepted' # accepted
        BY <2>2, <3>3, <4>1, <4>3, RevokeKeeps
      <4> QED BY <4>2, <4>3
    <3>4. ASSUME NEW c \in Stored, RefreshPosted(r, c) PROVE ServiceInv'
      BY <2>2, <3>4, PostedKeeps
    <3> QED BY <2>2, <3>1, <3>2, <3>3, <3>4, QuietSteps
  <2>3. ASSUME NEW c \in Stored, NEW old \in accepted[c], GraceEnds(c, old), UNCHANGED endpoint
        PROVE  ServiceInv'
    BY <2>3, GraceKeeps
  <2> QED BY <2>1, <2>2, <2>3 DEF ServiceNext
<1> QED BY <1>1, ServiceBegins, PTL DEF ServiceSpec

\* Once no refresh of a connector is under way, the endpoint accepts the refresh
\* token in its config, unless an answer was lost, or refreshes of a fickle endpoint
\* overlapped (_handle_oauth_refresh_token of the connector service).
THEOREM RefreshTokensStayLive == ServiceSpec => []RefreshTokenLive
<1>1. ServiceInv => RefreshTokenLive
  <2> SUFFICES ASSUME ServiceInv, NEW c \in Stored \ mislaid,
                      \A r \in Requests : ~Refreshing(r, c),
                      ~(endpoint[c] = "fickle" /\ c \in overlapped)
               PROVE  refresh[c] \in accepted[c]
    BY DEF RefreshTokenLive
  <2>1. /\ Chained(c) /\ endpoint[c] \in EndpointKinds
        /\ \A r \in Requests : ~Answered(r, c)
    BY DEF ServiceInv, TokensTyped, Answered, Refreshing
  <2> QED BY <2>1 DEF Chained, KeptChain, RotatedChain, FickleChain, Newest, EndpointKinds
<1> QED BY <1>1, ServiceInvHolds, PTL

-----------------------------------------------------------------------------
(* ProviderStream: a call is what its fragments add up to *)

Sum == [name : Seq(Pieces), args : Seq(Pieces)]
Slot == [index : {f.index : f \in Fragments}, id : {f.id : f \in Fragments},
         name : Seq(Pieces), args : Seq(Pieces)]

LEMMA FragmentType ==
    ASSUME NEW f \in Fragments
    PROVE  f \in Slot /\ f.name \in Seq(Pieces) /\ f.args \in Seq(Pieces)
<1>1. f \in [index : {f.index}, id : {f.id}, name : Seq(Pieces), args : Seq(Pieces)]
  BY StreamAssumption
<1>2. f.index \in {g.index : g \in Fragments} /\ f.id \in {g.id : g \in Fragments}
  OBVIOUS
<1> QED BY <1>1, <1>2 DEF Slot

\* Each step of Joined, as a function of the sum before it.
JoinStep(fragments, index) ==
    [i \in 1..Len(fragments) |-> [x \in Sum |->
       IF fragments[i].index # index THEN x
       ELSE [name |-> x.name \o fragments[i].name, args |-> x.args \o fragments[i].args]]]

NoSum == [name |-> <<>>, args |-> <<>>]
JoinRuns(g, fragments, index) == Goes(g, Len(fragments), Sum, NoSum, JoinStep(fragments, index))

LEMMA JoinedIs ==
    ASSUME NEW fr \in Seq(Fragments), NEW index
    PROVE  \E g : JoinRuns(g, fr, index) /\ Joined(fr, index) = g[Len(fr)]
<1> DEFINE n == Len(fr)  step == JoinStep(fr, index)
           Plus(x, i) == [name |-> x.name \o fr[i].name, args |-> x.args \o fr[i].args]
           sum == CHOOSE f : f = [i \in 0..n |->
                    IF i = 0 THEN [name |-> <<>>, args |-> <<>>]
                    ELSE IF fr[i].index # index THEN f[i - 1]
                    ELSE [name |-> f[i - 1].name \o fr[i].name,
                          args |-> f[i - 1].args \o fr[i].args]]
<1>1. n \in Nat /\ NoSum \in Sum /\ n \in 0..n
  BY DEF NoSum, Sum
<1>2. ASSUME NEW i \in 1..n, NEW x \in Sum PROVE Plus(x, i) \in Sum
  <2>1. fr[i].name \in Seq(Pieces) /\ fr[i].args \in Seq(Pieces)
    <3>1. fr[i] \in Fragments
      BY ElementOfSeq
    <3> QED BY <3>1, FragmentType
  <2>2. x.name \in Seq(Pieces) /\ x.args \in Seq(Pieces)
    BY DEF Sum
  <2>3. x.name \o fr[i].name \in Seq(Pieces) /\ x.args \o fr[i].args \in Seq(Pieces)
    BY <2>1, <2>2, ConcatProperties
  <2> QED BY <2>3 DEF Sum
<1>3. /\ \A i \in 1..n, x \in Sum : step[i][x] = IF fr[i].index # index THEN x ELSE Plus(x, i)
      /\ Steps(step, n, Sum)
  <2>1. \A i \in 1..n, x \in Sum : step[i][x] = IF fr[i].index # index THEN x ELSE Plus(x, i)
    BY DEF JoinStep
  <2> HIDE DEF Plus, step, n
  <2> QED BY <1>2, <2>1 DEF Steps
<1>4. PICK g : Goes(g, n, Sum, NoSum, step)
  <2> HIDE DEF step, n
  <2> QED BY <1>1, <1>3, Recursion
<1>5. /\ g \in [0..n -> Sum] /\ g[0] = NoSum
      /\ \A i \in 1..n : i - 1 \in 0..n /\ i \in 0..n /\ i # 0
      /\ \A i \in 1..n : g[i] = IF fr[i].index # index THEN g[i - 1] ELSE Plus(g[i - 1], i)
  <2>1. \A i \in 1..n : i - 1 \in 0..n /\ i \in 0..n /\ i # 0
    BY <1>1
  <2> HIDE DEF Plus, step, n
  <2>2. g \in [0..n -> Sum] /\ g[0] = NoSum /\ \A i \in 1..n : g[i] = step[i][g[i - 1]]
    BY <1>4 DEF Goes
  <2>3. \A i \in 1..n : g[i - 1] \in Sum
    BY <2>1, <2>2
  <2> QED BY <1>3, <2>1, <2>2, <2>3
<1>6. g = [i \in 0..n |-> IF i = 0 THEN NoSum
             ELSE IF fr[i].index # index THEN g[i - 1] ELSE Plus(g[i - 1], i)]
  <2>1. \A i \in 0..n : i = 0 \/ i \in 1..n
    BY <1>1
  <2> HIDE DEF Plus, n
  <2> QED BY <1>5, <2>1
<1>7. sum = [i \in 0..n |-> IF i = 0 THEN NoSum
               ELSE IF fr[i].index # index THEN sum[i - 1] ELSE Plus(sum[i - 1], i)]
  BY <1>6 DEF NoSum
<1>8. Joined(fr, index) = sum[n]
  BY DEF Joined
<1> HIDE DEF sum, Plus, n, step
<1>9. sum[0] = NoSum /\ Unrolls(sum, n, Sum, step)
  BY <1>1, <1>3, <1>5, <1>7 DEF Unrolls
<1>10. sum[n] = g[n]
  BY <1>1, <1>4, <1>9, Unrolled
<1> QED BY <1>4, <1>8, <1>10 DEF JoinRuns, n, step

LEMMA JoinedType ==
    ASSUME NEW fr \in Seq(Fragments), NEW index PROVE Joined(fr, index) \in Sum
<1>1. Len(fr) \in 0..Len(fr)
  OBVIOUS
<1> QED BY <1>1, JoinedIs DEF JoinRuns, Goes

\* One more fragment adds its pieces to the call it belongs to.
LEMMA JoinedGrows ==
    ASSUME NEW fr \in Seq(Fragments), NEW f \in Fragments, NEW index
    PROVE  Joined(Append(fr, f), index) =
             IF f.index # index THEN Joined(fr, index)
             ELSE [name |-> Joined(fr, index).name \o f.name, args |-> Joined(fr, index).args \o f.args]
<1> DEFINE t == Append(fr, f)  n == Len(fr)
<1>1. /\ t \in Seq(Fragments) /\ n \in Nat /\ Len(t) = n + 1 /\ t[n + 1] = f
      /\ \A i \in 1..n : t[i] = fr[i]
  OBVIOUS
<1> HIDE DEF t
<1>2. PICK g : JoinRuns(g, fr, index) /\ Joined(fr, index) = g[n]
  BY JoinedIs
<1>3. PICK h : JoinRuns(h, t, index) /\ Joined(t, index) = h[Len(t)]
  BY <1>1, JoinedIs
<1>4. n \in 0..(n + 1) /\ n + 1 \in Nat /\ n + 1 \in 1..(n + 1) /\ n \in 0..n /\ (n + 1) - 1 = n
  BY <1>1
<1>5. \A i \in 1..n : JoinStep(fr, index)[i] = JoinStep(t, index)[i]
  <2>1. \A i \in 1..n : i \in 1..(n + 1)
    BY <1>1
  <2> QED BY <1>1, <2>1 DEF JoinStep
<1>6. \A i \in 0..n : g[i] = h[i]
  <2> DEFINE longer == JoinStep(t, index)  shorter == JoinStep(fr, index)  next == n + 1
  <2>1. Goes(h, next, Sum, NoSum, longer) /\ Goes(g, n, Sum, NoSum, shorter)
    BY <1>1, <1>2, <1>3 DEF JoinRuns
  <2>2. SameSteps(longer, shorter, n)
    BY <1>5 DEF SameSteps
  <2>3. next \in Nat /\ n \in 0..next
    BY <1>4
  <2> HIDE DEF n, longer, shorter, next
  <2> QED BY <2>1, <2>2, <2>3, Agreeing
<1>7. h[n + 1] = JoinStep(t, index)[n + 1][h[n]] /\ h[n] \in Sum
  BY <1>1, <1>3, <1>4 DEF JoinRuns, Goes
<1>8. JoinStep(t, index)[n + 1][h[n]] =
        IF f.index # index THEN h[n]
        ELSE [name |-> h[n].name \o f.name, args |-> h[n].args \o f.args]
  BY <1>1, <1>4, <1>7 DEF JoinStep
<1>9. h[n] = Joined(fr, index) /\ Joined(t, index) = h[n + 1]
  BY <1>1, <1>2, <1>3, <1>4, <1>6
<1> HIDE DEF n
<1> QED BY <1>7, <1>8, <1>9 DEF t

\* The text that is not empty.
SpokenStep(s) ==
    [i \in 1..Len(s) |-> [x \in Seq(Texts) |->
       IF s[i].text = NoText THEN x ELSE Append(x, s[i].text)]]
SpokenRuns(g, s) == Goes(g, Len(s), Seq(Texts), <<>>, SpokenStep(s))
Speaks(T) == \A x \in T : x.text \in Texts \cup {NoText}

LEMMA SpokenIs ==
    ASSUME NEW T, Speaks(T), NEW s \in Seq(T)
    PROVE  \E g : SpokenRuns(g, s) /\ Spoken(s) = g[Len(s)]
<1> DEFINE n == Len(s)  S == Seq(Texts)  step == SpokenStep(s)
           said == CHOOSE f : f = [i \in 0..n |->
                     IF i = 0 THEN <<>>
                     ELSE IF s[i].text = NoText THEN f[i - 1] ELSE Append(f[i - 1], s[i].text)]
<1>1. n \in Nat /\ <<>> \in S /\ n \in 0..n
  OBVIOUS
<1>2. /\ \A i \in 1..n, x \in S :
           step[i][x] = IF s[i].text = NoText THEN x ELSE Append(x, s[i].text)
      /\ Steps(step, n, S)
  <2>1. \A i \in 1..n, x \in S :
           step[i][x] = IF s[i].text = NoText THEN x ELSE Append(x, s[i].text)
    BY DEF SpokenStep
  <2>2. \A i \in 1..n : s[i].text \in Texts \cup {NoText}
    <3>1. \A i \in 1..n : s[i] \in T
      BY ElementOfSeq
    <3> QED BY <3>1 DEF Speaks
  <2>3. \A i \in 1..n, x \in S : s[i].text # NoText => Append(x, s[i].text) \in S
    BY <2>2
  <2> HIDE DEF step, n, S
  <2> QED BY <2>1, <2>3 DEF Steps
<1>4. PICK g : Goes(g, n, S, <<>>, step)
  <2> HIDE DEF step, n, S
  <2> QED BY <1>1, <1>2, Recursion
<1>5. /\ g \in [0..n -> S] /\ g[0] = <<>>
      /\ \A i \in 1..n : i - 1 \in 0..n /\ i \in 0..n /\ i # 0
      /\ \A i \in 1..n :
           g[i] = IF s[i].text = NoText THEN g[i - 1] ELSE Append(g[i - 1], s[i].text)
  <2>1. \A i \in 1..n : i - 1 \in 0..n /\ i \in 0..n /\ i # 0
    BY <1>1
  <2> HIDE DEF step, n, S
  <2>2. g \in [0..n -> S] /\ g[0] = <<>> /\ \A i \in 1..n : g[i] = step[i][g[i - 1]]
    BY <1>4 DEF Goes
  <2>3. \A i \in 1..n : g[i - 1] \in S
    BY <2>1, <2>2
  <2>4. \A i \in 1..n :
          g[i] = IF s[i].text = NoText THEN g[i - 1] ELSE Append(g[i - 1], s[i].text)
    BY <1>2, <2>2, <2>3
  <2> QED BY <2>1, <2>2, <2>4
<1>6. g = [i \in 0..n |-> IF i = 0 THEN <<>>
             ELSE IF s[i].text = NoText THEN g[i - 1] ELSE Append(g[i - 1], s[i].text)]
  <2>1. \A i \in 0..n : i = 0 \/ i \in 1..n
    BY <1>1
  <2> HIDE DEF n, S
  <2>2. \A i \in 0..n : g[i] = IF i = 0 THEN <<>>
             ELSE IF s[i].text = NoText THEN g[i - 1] ELSE Append(g[i - 1], s[i].text)
    BY <1>5, <2>1
  <2> QED BY <1>5, <2>2
<1>7. said = [i \in 0..n |-> IF i = 0 THEN <<>>
               ELSE IF s[i].text = NoText THEN said[i - 1] ELSE Append(said[i - 1], s[i].text)]
  BY <1>6
<1>8. Spoken(s) = said[n]
  BY DEF Spoken
<1> HIDE DEF said, n, step, S
<1>9. said[0] = <<>> /\ Unrolls(said, n, S, step)
  <2>1. \A i \in 1..n : said[i] = IF s[i].text = NoText THEN said[i - 1] ELSE Append(said[i - 1], s[i].text)
    BY <1>5, <1>7
  <2>2. said[0] = <<>>
    BY <1>1, <1>7
  <2> QED BY <1>2, <2>1, <2>2 DEF Unrolls
<1>10. said[n] = g[n]
  BY <1>1, <1>4, <1>9, Unrolled
<1> QED BY <1>4, <1>8, <1>10 DEF SpokenRuns, n, step, S

LEMMA SpokenGrows ==
    ASSUME NEW T, Speaks(T), NEW s \in Seq(T), NEW x \in T
    PROVE  Spoken(Append(s, x)) = IF x.text = NoText THEN Spoken(s) ELSE Append(Spoken(s), x.text)
<1> DEFINE t == Append(s, x)  n == Len(s)
<1>1. /\ t \in Seq(T) /\ n \in Nat /\ Len(t) = n + 1 /\ t[n + 1] = x
      /\ \A i \in 1..n : t[i] = s[i]
  OBVIOUS
<1> HIDE DEF t
<1>2. PICK g : SpokenRuns(g, s) /\ Spoken(s) = g[n]
  BY SpokenIs
<1>3. PICK h : SpokenRuns(h, t) /\ Spoken(t) = h[Len(t)]
  BY <1>1, SpokenIs
<1>4. n \in 0..(n + 1) /\ n + 1 \in Nat /\ n + 1 \in 1..(n + 1) /\ n \in 0..n /\ (n + 1) - 1 = n
  BY <1>1
<1>5. SameSteps(SpokenStep(t), SpokenStep(s), n)
  <2>1. \A i \in 1..n : i \in 1..(n + 1)
    BY <1>1
  <2> QED BY <1>1, <2>1 DEF SpokenStep, SameSteps
<1>6. \A i \in 0..n : g[i] = h[i]
  <2> HIDE DEF n
  <2>1. Goes(h, n + 1, Seq(Texts), <<>>, SpokenStep(t)) /\ Goes(g, n, Seq(Texts), <<>>, SpokenStep(s))
    BY <1>1, <1>2, <1>3 DEF SpokenRuns, n
  <2> QED BY <1>4, <1>5, <2>1, Agreeing
<1>7. h[n + 1] = SpokenStep(t)[n + 1][h[n]] /\ h[n] \in Seq(Texts)
  BY <1>1, <1>3, <1>4 DEF SpokenRuns, Goes
<1>8. SpokenStep(t)[n + 1][h[n]] = IF x.text = NoText THEN h[n] ELSE Append(h[n], x.text)
  BY <1>1, <1>4, <1>7 DEF SpokenStep
<1>9. h[n] = Spoken(s) /\ Spoken(t) = h[n + 1]
  BY <1>1, <1>2, <1>3, <1>4, <1>6
<1> HIDE DEF n
<1> QED BY <1>7, <1>8, <1>9 DEF t

LEMMA NothingSpoken == Spoken(<<>>) = <<>>
<1>1. Speaks({}) /\ <<>> \in Seq({}) /\ Len(<<>>) = 0
  BY DEF Speaks
<1>2. PICK g : SpokenRuns(g, <<>>) /\ Spoken(<<>>) = g[0]
  BY <1>1, SpokenIs
<1> QED BY <1>2 DEF SpokenRuns, Goes

\* A call without fragments has nothing to add up.
LEMMA NothingJoined ==
    ASSUME NEW fr \in Seq(Fragments), NEW index, \A i \in 1..Len(fr) : fr[i].index # index
    PROVE  Joined(fr, index) = NoSum
<1>1. PICK g : JoinRuns(g, fr, index) /\ Joined(fr, index) = g[Len(fr)]
  BY JoinedIs
<1> DEFINE n == Len(fr)  P == {i \in 0..n : g[i] = NoSum}
<1>2. /\ g \in [0..n -> Sum] /\ g[0] = NoSum /\ n \in Nat /\ n \in 0..n
      /\ \A i \in 1..n : g[i] = JoinStep(fr, index)[i][g[i - 1]]
  BY <1>1 DEF JoinRuns, Goes
<1>3. 0 \in P
  BY <1>2
<1>4. ASSUME NEW i \in 1..n, i - 1 \in P PROVE i \in P
  <2>1. i \in 0..n /\ NoSum \in Sum /\ g[i - 1] = NoSum
    BY <1>2, <1>4 DEF NoSum, Sum
  <2>2. JoinStep(fr, index)[i][NoSum] = NoSum
    BY <2>1 DEF JoinStep
  <2> QED BY <1>2, <2>1, <2>2
<1> HIDE DEF P, n
<1>5. \A i \in 0..n : i \in P
  BY <1>2, <1>3, <1>4, Induction
<1> QED BY <1>1, <1>2, <1>5 DEF P, n

\* Calls of one answer are calls of different indexes.
LEMMA CallsDiffer ==
    ASSUME NEW all \in Seq(Fragments), NEW calls \in Seq(Slot), CallsOf(calls, all),
           NEW i \in DOMAIN calls, NEW j \in DOMAIN calls, calls[i].index = calls[j].index
    PROVE  i = j
<1>1. ASSUME NEW k \in DOMAIN calls, NEW l \in DOMAIN calls, l < k
      PROVE  calls[k].index # calls[l].index
  <2>1. l \in 1..(k - 1)
    BY <1>1
  <2>2. PICK p \in DOMAIN all : FirstOf(calls, k, all, p)
    BY DEF CallsOf
  <2> QED BY <2>1, <2>2 DEF FirstOf
<1>2. i \in Nat /\ j \in Nat
  OBVIOUS
<1> QED BY <1>1, <1>2

LEMMA CollectType ==
    ASSUME NEW slots \in Seq(Slot), NEW f \in Fragments
    PROVE  Collect(slots, f) \in Seq(Slot)
<1> DEFINE at == {i \in DOMAIN slots : slots[i].index = f.index}  i == CHOOSE j \in at : TRUE
<1>1. f \in Slot /\ f.name \in Seq(Pieces) /\ f.args \in Seq(Pieces)
  BY FragmentType
<1>2. CASE at = {}
  BY <1>1, <1>2 DEF Collect
<1>3. CASE at # {}
  <2>1. i \in at
    BY <1>3
  <2>2. i \in 1..Len(slots) /\ slots[i] \in Slot
    BY <2>1, ElementOfSeq
  <2> DEFINE x == Extend(slots[i], f)
  <2>3. Collect(slots, f) = [slots EXCEPT ![i] = x]
    BY <1>3 DEF Collect
  <2>4. slots[i].name \o f.name \in Seq(Pieces) /\ slots[i].args \o f.args \in Seq(Pieces)
    BY <1>1, <2>2, ConcatProperties DEF Slot
  <2>5. x \in Slot
    BY <2>2, <2>4 DEF Slot, Extend
  <2> HIDE DEF x, i
  <2> QED BY <2>2, <2>3, <2>5
<1> QED BY <1>2, <1>3

\* One more fragment, collected.
LEMMA CollectKeeps ==
    ASSUME NEW all \in Seq(Fragments), NEW slots \in Seq(Slot), CallsOf(slots, all),
           NEW f \in Fragments
    PROVE  CallsOf(Collect(slots, f), Append(all, f))
<1> DEFINE t == Append(all, f)  m == Len(all)  n == Len(slots)  r == Collect(slots, f)
           at == {i \in DOMAIN slots : slots[i].index = f.index}
<1>1. /\ t \in Seq(Fragments) /\ m \in Nat /\ Len(t) = m + 1 /\ t[m + 1] = f
      /\ DOMAIN t = 1..(m + 1) /\ DOMAIN all = 1..m /\ DOMAIN slots = 1..n /\ n \in Nat
      /\ \A q \in 1..m : t[q] = all[q] /\ q \in 1..(m + 1)
      /\ m + 1 \in 1..(m + 1)
  OBVIOUS
<1>2. \A q \in 1..(m + 1) : q \in 1..m \/ q = m + 1
  BY <1>1
<1>3. f \in Slot /\ f.name \in Seq(Pieces) /\ f.args \in Seq(Pieces)
  BY FragmentType
<1> HIDE DEF t, m, n
<1>4. \A index : Joined(t, index) =
        IF f.index # index THEN Joined(all, index)
        ELSE [name |-> Joined(all, index).name \o f.name, args |-> Joined(all, index).args \o f.args]
  BY JoinedGrows DEF t
\* An old call keeps its first fragment, and its place among the others.
<1>5. ASSUME NEW c, \A i \in 1..n : c[i].index = slots[i].index /\ c[i].id = slots[i].id,
             NEW i \in 1..n
      PROVE  \E p \in 1..m : FirstOf(c, i, t, p)
  <2>1. PICK p \in 1..m : FirstOf(slots, i, all, p)
    BY <1>1 DEF CallsOf
  <2>2. \A q \in 1..(p - 1) : q \in 1..m
    BY <1>1
  <2>3. \A j \in 1..(i - 1) : j \in 1..n
    BY <1>1
  <2>4. c[i].index = t[p].index /\ c[i].id = t[p].id
    BY <1>1, <1>5, <2>1 DEF FirstOf
  <2>5. \A q \in 1..(p - 1) : t[q].index # c[i].index
    BY <1>1, <1>5, <2>1, <2>2 DEF FirstOf
  <2>6. ASSUME NEW j \in 1..(i - 1) PROVE \E q \in 1..(p - 1) : t[q].index = c[j].index
    <3>1. PICK q \in 1..(p - 1) : all[q].index = slots[j].index
      BY <2>1 DEF FirstOf
    <3> QED BY <1>1, <1>5, <2>2, <2>3, <3>1
  <2>7. FirstOf(c, i, t, p)
    BY <2>4, <2>5, <2>6 DEF FirstOf
  <2> QED BY <2>7
<1>6. \A q \in 1..m : \E i \in 1..n : slots[i].index = t[q].index
  BY <1>1 DEF CallsOf
<1>7. \A i \in 1..n : Joined(all, slots[i].index) = [name |-> slots[i].name, args |-> slots[i].args]
  BY <1>1 DEF CallsOf
<1>8. CASE at = {}
  <2>1. r = Append(slots, f)
    BY <1>8 DEF Collect
  <2>2. /\ r \in Seq(Slot) /\ DOMAIN r = 1..(n + 1) /\ r[n + 1] = f
        /\ \A i \in 1..n : r[i] = slots[i] /\ i \in 1..(n + 1)
        /\ n + 1 \in 1..(n + 1)
    BY <1>1, <1>3, <2>1 DEF n
  <2>3. \A i \in 1..(n + 1) : i \in 1..n \/ i = n + 1
    BY <1>1
  <2> HIDE DEF r
  <2>4. \A i \in 1..n : slots[i].index # f.index
    BY <1>1, <1>8
  <2>5. \A q \in 1..m : all[q].index # f.index
    BY <1>1, <1>6, <2>4
  <2>6. Joined(all, f.index) = NoSum
    BY <2>5, NothingJoined DEF m
  <2>7. Joined(t, f.index) = [name |-> f.name, args |-> f.args]
    <3>1. <<>> \o f.name = f.name /\ <<>> \o f.args = f.args
      BY <1>3
    <3>2. Joined(t, f.index) =
            [name |-> Joined(all, f.index).name \o f.name, args |-> Joined(all, f.index).args \o f.args]
      BY <1>4
    <3>3. Joined(all, f.index).name = <<>> /\ Joined(all, f.index).args = <<>>
      BY <2>6 DEF NoSum
    <3> QED BY <3>1, <3>2, <3>3
  <2>8. \A q \in DOMAIN t : \E i \in DOMAIN r : r[i].index = t[q].index
    BY <1>1, <1>2, <1>6, <2>2
  <2>9. ASSUME NEW i \in 1..n
        PROVE  /\ \E p \in DOMAIN t : FirstOf(r, i, t, p)
               /\ Joined(t, r[i].index) = [name |-> r[i].name, args |-> r[i].args]
    <3>1. PICK p \in 1..m : FirstOf(r, i, t, p)
      BY <1>5, <2>2
    <3>2. Joined(t, r[i].index) = Joined(all, slots[i].index)
      BY <1>4, <2>2, <2>4
    <3> QED BY <1>1, <1>7, <2>2, <3>1, <3>2
  <2>10. FirstOf(r, n + 1, t, m + 1)
    <3>1. (m + 1) - 1 = m /\ (n + 1) - 1 = n
      BY <1>1
    <3>2. \A q \in 1..m : t[q].index # f.index
      BY <1>1, <2>5
    <3>3. ASSUME NEW j \in 1..n PROVE \E q \in 1..m : t[q].index = r[j].index
      <4>1. PICK p \in 1..m : FirstOf(r, j, t, p)
        BY <1>5, <2>2
      <4> QED BY <4>1 DEF FirstOf
    <3> QED BY <1>1, <2>2, <3>1, <3>2, <3>3 DEF FirstOf
  <2>11. CallsOf(r, t)
    <3>1. \A i \in DOMAIN r : i \in 1..n \/ i = n + 1
      BY <2>2, <2>3
    <3>2. Joined(t, r[n + 1].index) = [name |-> r[n + 1].name, args |-> r[n + 1].args]
      BY <2>2, <2>7
    <3> QED BY <1>1, <2>8, <2>9, <2>10, <3>1, <3>2 DEF CallsOf
  <2> QED BY <2>11 DEF r, t
<1>9. CASE at # {}
  <2> DEFINE k == CHOOSE j \in at : TRUE
             x == Extend(slots[k], f)
  <2>1. r = [slots EXCEPT ![k] = x]
    BY <1>9 DEF Collect
  <2>2. k \in 1..n /\ slots[k].index = f.index
    BY <1>1, <1>9
  <2>3. slots[k] \in Slot
    BY <2>2, ElementOfSeq DEF n
  <2>4. /\ x.index = slots[k].index /\ x.id = slots[k].id
        /\ x.name = slots[k].name \o f.name /\ x.args = slots[k].args \o f.args
    BY <2>3 DEF Slot, Extend
  <2> HIDE DEF x, k, r
  <2>5. /\ DOMAIN r = 1..n /\ r[k] = x
        /\ \A i \in 1..n : i # k => r[i] = slots[i]
    BY <1>1, <2>1, <2>2
  <2>6. \A i \in 1..n : r[i].index = slots[i].index /\ r[i].id = slots[i].id
    BY <2>4, <2>5
  <2>7. \A i \in 1..n : i # k => slots[i].index # f.index
    BY <1>1, <2>2, CallsDiffer
  <2>8. \A q \in DOMAIN t : \E i \in DOMAIN r : r[i].index = t[q].index
    <3>1. ASSUME NEW q \in 1..m PROVE \E i \in 1..n : r[i].index = t[q].index
      BY <1>6, <2>6
    <3>2. r[k].index = t[m + 1].index
      BY <1>1, <2>2, <2>6
    <3> QED BY <1>1, <1>2, <2>2, <2>5, <3>1, <3>2
  <2>9. ASSUME NEW i \in 1..n
        PROVE  Joined(t, r[i].index) = [name |-> r[i].name, args |-> r[i].args]
    <3>1. CASE i = k
      <4>1. Joined(t, f.index) =
              [name |-> Joined(all, f.index).name \o f.name,
               args |-> Joined(all, f.index).args \o f.args]
        BY <1>4
      <4>2. Joined(all, f.index) = [name |-> slots[k].name, args |-> slots[k].args]
        BY <1>7, <2>2
      <4>3. Joined(all, f.index).name = slots[k].name /\ Joined(all, f.index).args = slots[k].args
        BY <4>2
      <4>4. r[i].index = f.index
        BY <2>2, <2>6, <3>1
      <4> QED BY <2>4, <2>5, <3>1, <4>1, <4>3, <4>4
    <3>2. CASE i # k
      <4>1. Joined(t, r[i].index) = Joined(all, slots[i].index)
        BY <1>4, <2>6, <2>7, <3>2
      <4> QED BY <1>7, <2>5, <3>2, <4>1
    <3> QED BY <3>1, <3>2
  <2>10. ASSUME NEW i \in 1..n PROVE \E p \in DOMAIN t : FirstOf(r, i, t, p)
    <3>1. PICK p \in 1..m : FirstOf(r, i, t, p)
      BY <1>5, <2>6
    <3> QED BY <1>1, <3>1
  <2>11. CallsOf(r, t)
    BY <2>5, <2>8, <2>9, <2>10 DEF CallsOf
  <2> QED BY <2>11 DEF r, t
<1> QED BY <1>8, <1>9

\* All fragments of a chunk, one after the other.
LEMMA CollectAllKeeps ==
    ASSUME NEW all \in Seq(Fragments), NEW slots \in Seq(Slot), CallsOf(slots, all),
           NEW fr \in Seq(Fragments)
    PROVE  CollectAll(slots, fr) \in Seq(Slot) /\ CallsOf(CollectAll(slots, fr), all \o fr)
<1> DEFINE n == Len(fr)  S == Seq(Slot)  m == Len(all)
           step == [i \in 1..n |-> [x \in S |-> Collect(x, fr[i])]]
           after == CHOOSE f : f = [i \in 0..n |->
                      IF i = 0 THEN slots ELSE Collect(f[i - 1], fr[i])]
<1>1. n \in Nat /\ n \in 0..n /\ \A i \in 1..n : fr[i] \in Fragments
  BY ElementOfSeq
<1>2. /\ \A i \in 1..n, x \in S : step[i][x] = Collect(x, fr[i])
      /\ Steps(step, n, S)
  <2>1. \A i \in 1..n, x \in S : Collect(x, fr[i]) \in S
    BY <1>1, CollectType
  <2>2. \A i \in 1..n, x \in S : step[i][x] = Collect(x, fr[i])
    OBVIOUS
  <2> HIDE DEF step, S, n
  <2> QED BY <2>1, <2>2 DEF Steps
<1>3. PICK g : Goes(g, n, S, slots, step)
  <2> HIDE DEF step, n
  <2> QED BY <1>1, <1>2, Recursion
<1>4. /\ g \in [0..n -> S] /\ g[0] = slots
      /\ \A i \in 1..n : i - 1 \in 0..n /\ i \in 0..n /\ i # 0
      /\ \A i \in 1..n : g[i] = Collect(g[i - 1], fr[i])
  <2>1. \A i \in 1..n : i - 1 \in 0..n /\ i \in 0..n /\ i # 0
    BY <1>1
  <2> HIDE DEF step, n, S
  <2>2. g \in [0..n -> S] /\ g[0] = slots /\ \A i \in 1..n : g[i] = step[i][g[i - 1]]
    BY <1>3 DEF Goes
  <2>3. \A i \in 1..n : g[i - 1] \in S
    BY <2>1, <2>2
  <2>4. \A i \in 1..n : g[i] = Collect(g[i - 1], fr[i])
    BY <1>2, <2>2, <2>3
  <2> QED BY <2>1, <2>2, <2>4
<1>5. g = [i \in 0..n |-> IF i = 0 THEN slots ELSE Collect(g[i - 1], fr[i])]
  <2>1. \A i \in 0..n : i = 0 \/ i \in 1..n
    BY <1>1
  <2> HIDE DEF n, S
  <2>2. \A i \in 0..n : g[i] = IF i = 0 THEN slots ELSE Collect(g[i - 1], fr[i])
    BY <1>4, <2>1
  <2> QED BY <1>4, <2>2
<1>6. after = [i \in 0..n |-> IF i = 0 THEN slots ELSE Collect(after[i - 1], fr[i])]
  BY <1>5
<1>7. CollectAll(slots, fr) = after[n]
  BY DEF CollectAll
<1> HIDE DEF after, n, step, S
<1>8. after[0] = slots /\ Unrolls(after, n, S, step)
  <2>1. \A i \in 1..n : after[i] = Collect(after[i - 1], fr[i])
    BY <1>4, <1>6
  <2>2. after[0] = slots
    BY <1>1, <1>6
  <2> QED BY <1>2, <2>1, <2>2 DEF Unrolls
<1>9. CollectAll(slots, fr) = g[n]
  <2>1. after[n] = g[n]
    BY <1>1, <1>3, <1>8, Unrolled
  <2> QED BY <1>7, <2>1
<1> DEFINE Upto(u, i) ==
             /\ u \in Seq(Fragments) /\ Len(u) = m + i
             /\ \A q \in 1..m : u[q] = all[q]
             /\ \A q \in 1..i : u[m + q] = fr[q]
           P == {i \in 0..n : \E u : Upto(u, i) /\ CallsOf(g[i], u)}
<1>10. 0 \in P
  <2>1. Upto(all, 0)
    OBVIOUS
  <2> HIDE DEF Upto
  <2> QED BY <1>1, <1>4, <2>1
<1>11. ASSUME NEW i \in 1..n, i - 1 \in P PROVE i \in P
  <2>1. PICK u : Upto(u, i - 1) /\ CallsOf(g[i - 1], u)
    BY <1>11
  <2>2. g[i - 1] \in Seq(Slot) /\ fr[i] \in Fragments /\ i \in 0..n
    BY <1>1, <1>4 DEF S
  <2>3. CallsOf(g[i], Append(u, fr[i]))
    BY <1>4, <2>1, <2>2, CollectKeeps
  <2>4. Upto(Append(u, fr[i]), i)
    <3>1. m \in Nat /\ i \in Nat /\ Len(u) = m + (i - 1)
      BY <1>1, <2>1
    <3>2. /\ Append(u, fr[i]) \in Seq(Fragments) /\ Len(Append(u, fr[i])) = m + i
          /\ Append(u, fr[i])[m + i] = fr[i]
          /\ \A q \in 1..(m + (i - 1)) : Append(u, fr[i])[q] = u[q]
      BY <2>1, <2>2, <3>1
    <3>3. \A q \in 1..m : q \in 1..(m + (i - 1))
      BY <3>1
    <3>4. \A q \in 1..i : q = i \/ (q \in 1..(i - 1) /\ m + q \in 1..(m + (i - 1)))
      BY <3>1
    <3> QED BY <2>1, <3>2, <3>3, <3>4
  <2> HIDE DEF Upto
  <2> QED BY <2>2, <2>3, <2>4
<1> HIDE DEF P
<1>12. \A i \in 0..n : i \in P
  BY <1>1, <1>10, <1>11, Induction
<1>13. PICK u : Upto(u, n) /\ CallsOf(g[n], u)
  BY <1>1, <1>12 DEF P
<1>14. u = all \o fr
  <2>1. /\ all \o fr \in Seq(Fragments) /\ Len(all \o fr) = m + n
        /\ \A q \in 1..m : (all \o fr)[q] = all[q]
        /\ \A q \in 1..n : (all \o fr)[m + q] = fr[q]
    BY ConcatProperties DEF n
  <2>2. \A q \in 1..(m + n) : q \in 1..m \/ (q - m \in 1..n /\ q = m + (q - m))
    BY <1>1
  <2>3. \A q \in 1..Len(u) : u[q] = (all \o fr)[q]
    BY <1>13, <2>1, <2>2
  <2> HIDE DEF m, n
  <2> QED BY <1>13, <2>1, <2>3, SeqEqual
<1>15. g[n] \in Seq(Slot)
  BY <1>1, <1>4 DEF S
<1> QED BY <1>9, <1>13, <1>14, <1>15

\* What is received, and what of it is fragments.
EventType == [kind : {"chunk", "empty", "text", "other", "message"}, text : Texts \cup {NoText},
              fragments : Seq(Fragments), finish : Finishes \cup {NoFinish}]

FlatStep(events, n) ==
    [i \in 1..n |-> [x \in Seq(Fragments) |-> x \o events[i].fragments]]
FlatRuns(g, events, n) == Goes(g, n, Seq(Fragments), <<>>, FlatStep(events, n))

LEMMA FragmentsToIs ==
    ASSUME NEW events \in Seq(EventType), NEW n \in 0..Len(events)
    PROVE  \E g : FlatRuns(g, events, n) /\ FragmentsTo(events, n) = g[n]
<1> DEFINE S == Seq(Fragments)  step == FlatStep(events, n)
           all == CHOOSE f : f = [i \in 0..n |->
                    IF i = 0 THEN <<>> ELSE f[i - 1] \o events[i].fragments]
<1>1. n \in Nat /\ <<>> \in S /\ n \in 0..n
  OBVIOUS
<1>2. /\ \A i \in 1..n, x \in S : step[i][x] = x \o events[i].fragments
      /\ Steps(step, n, S)
  <2>1. \A i \in 1..n, x \in S : step[i][x] = x \o events[i].fragments
    BY DEF FlatStep
  <2>2. \A i \in 1..n : events[i].fragments \in S
    <3>1. \A i \in 1..n : i \in 1..Len(events)
      OBVIOUS
    <3>2. \A i \in 1..n : events[i] \in EventType
      BY <3>1, ElementOfSeq
    <3> QED BY <3>2 DEF EventType
  <2>3. \A i \in 1..n, x \in S : x \o events[i].fragments \in S
    BY <2>2, ConcatProperties
  <2> HIDE DEF step, S
  <2> QED BY <2>1, <2>3 DEF Steps
<1>3. PICK g : Goes(g, n, S, <<>>, step)
  <2> HIDE DEF step, S
  <2> QED BY <1>1, <1>2, Recursion
<1>4. /\ g \in [0..n -> S] /\ g[0] = <<>>
      /\ \A i \in 1..n : i - 1 \in 0..n /\ i \in 0..n /\ i # 0
      /\ \A i \in 1..n : g[i] = g[i - 1] \o events[i].fragments
  <2>1. \A i \in 1..n : i - 1 \in 0..n /\ i \in 0..n /\ i # 0
    BY <1>1
  <2> HIDE DEF step, S
  <2>2. g \in [0..n -> S] /\ g[0] = <<>> /\ \A i \in 1..n : g[i] = step[i][g[i - 1]]
    BY <1>3 DEF Goes
  <2>3. \A i \in 1..n : g[i - 1] \in S
    BY <2>1, <2>2
  <2>4. \A i \in 1..n : g[i] = g[i - 1] \o events[i].fragments
    BY <1>2, <2>2, <2>3
  <2> QED BY <2>1, <2>2, <2>4
<1>5. g = [i \in 0..n |-> IF i = 0 THEN <<>> ELSE g[i - 1] \o events[i].fragments]
  <2>1. \A i \in 0..n : i = 0 \/ i \in 1..n
    BY <1>1
  <2> HIDE DEF S
  <2>2. \A i \in 0..n : g[i] = IF i = 0 THEN <<>> ELSE g[i - 1] \o events[i].fragments
    BY <1>4, <2>1
  <2> QED BY <1>4, <2>2
<1>6. all = [i \in 0..n |-> IF i = 0 THEN <<>> ELSE all[i - 1] \o events[i].fragments]
  BY <1>5
<1>7. FragmentsTo(events, n) = all[n]
  BY DEF FragmentsTo
<1> HIDE DEF all, step, S
<1>8. all[0] = <<>> /\ Unrolls(all, n, S, step)
  <2>1. \A i \in 1..n : all[i] = all[i - 1] \o events[i].fragments
    BY <1>4, <1>6
  <2>2. all[0] = <<>>
    BY <1>1, <1>6
  <2> QED BY <1>2, <2>1, <2>2 DEF Unrolls
<1>9. all[n] = g[n]
  BY <1>1, <1>3, <1>8, Unrolled
<1> QED BY <1>3, <1>7, <1>9 DEF FlatRuns, step, S

\* An event leaves the fragments before it alone and adds its own.
LEMMA FragmentsGrow ==
    ASSUME NEW events \in Seq(EventType), NEW e \in EventType
    PROVE  /\ \A n \in 0..Len(events) :
                 /\ FragmentsTo(Append(events, e), n) = FragmentsTo(events, n)
                 /\ FragmentsTo(events, n) \in Seq(Fragments)
           /\ FragmentsTo(Append(events, e), Len(events) + 1)
                = FragmentsTo(events, Len(events)) \o e.fragments
<1> DEFINE t == Append(events, e)  m == Len(events)
<1>1. /\ t \in Seq(EventType) /\ m \in Nat /\ Len(t) = m + 1 /\ t[m + 1] = e
      /\ \A i \in 1..m : t[i] = events[i]
      /\ m + 1 \in 0..Len(t) /\ m \in 0..m /\ m \in 0..(m + 1) /\ m + 1 \in Nat
  OBVIOUS
<1> HIDE DEF t, m
<1>2. ASSUME NEW n \in 0..m
      PROVE  /\ FragmentsTo(t, n) = FragmentsTo(events, n)
             /\ FragmentsTo(events, n) \in Seq(Fragments)
  <2>1. n \in Nat /\ n \in 0..n /\ n \in 0..Len(t) /\ n \in 0..Len(events)
    BY <1>1 DEF m
  <2>2. PICK g : FlatRuns(g, events, n) /\ FragmentsTo(events, n) = g[n]
    BY <2>1, FragmentsToIs
  <2>3. PICK h : FlatRuns(h, t, n) /\ FragmentsTo(t, n) = h[n]
    BY <1>1, <2>1, FragmentsToIs
  <2>4. FlatStep(t, n) = FlatStep(events, n)
    <3>1. \A i \in 1..n : t[i] = events[i]
      BY <1>1
    <3> QED BY <3>1 DEF FlatStep
  <2> DEFINE step == FlatStep(events, n)  S == Seq(Fragments)
  <2>5. Goes(g, n, S, <<>>, step) /\ Goes(h, n, S, <<>>, step)
    BY <2>2, <2>3, <2>4 DEF FlatRuns
  <2>6. g[n] \in S
    BY <2>1, <2>5 DEF Goes
  <2>8. SameSteps(step, step, n)
    BY DEF SameSteps
  <2> HIDE DEF step, S
  <2>7. \A i \in 0..n : g[i] = h[i]
    BY <2>1, <2>5, <2>8, Agreeing
  <2> QED BY <2>1, <2>2, <2>3, <2>6, <2>7 DEF S
<1>3. FragmentsTo(t, m + 1) = FragmentsTo(events, m) \o e.fragments
  <2>1. PICK g : FlatRuns(g, t, m + 1) /\ FragmentsTo(t, m + 1) = g[m + 1]
    BY <1>1, FragmentsToIs
  <2>2. PICK h : FlatRuns(h, t, m) /\ FragmentsTo(t, m) = h[m]
    BY <1>1, FragmentsToIs
  <2> DEFINE longer == FlatStep(t, m + 1)  shorter == FlatStep(t, m)  S == Seq(Fragments)
             next == m + 1
  <2>3. Goes(g, next, S, <<>>, longer) /\ Goes(h, m, S, <<>>, shorter)
    BY <2>1, <2>2 DEF FlatRuns
  <2>4. SameSteps(longer, shorter, m)
    <3>1. \A i \in 1..m : i \in 1..(m + 1)
      BY <1>1
    <3> QED BY <3>1 DEF FlatStep, SameSteps
  <2>5. next \in Nat /\ m \in 0..next /\ next \in 1..next /\ next - 1 = m
    BY <1>1
  <2>6. g[next] = longer[next][g[m]] /\ g[m] \in Seq(Fragments)
    BY <2>3, <2>5 DEF Goes
  <2>7. longer[next][g[m]] = g[m] \o e.fragments
    BY <1>1, <2>5, <2>6 DEF FlatStep
  <2> HIDE DEF longer, shorter, S, next
  <2>8. \A i \in 0..m : h[i] = g[i]
    BY <2>3, <2>4, <2>5, Agreeing
  <2>9. g[m] = FragmentsTo(events, m)
    BY <1>1, <1>2, <2>2, <2>8
  <2> QED BY <2>1, <2>6, <2>7, <2>9 DEF next
<1> QED BY <1>2, <1>3 DEF t, m

\* Chunks are counted one by one.
LEMMA ChunksGrow ==
    ASSUME NEW events \in Seq(EventType), NEW e \in EventType
    PROVE  /\ \A n \in 0..Len(events) :
                 /\ ChunksTo(Append(events, e), n) = ChunksTo(events, n)
                 /\ Cardinality(ChunksTo(events, n)) \in Nat
           /\ e.kind # "chunk" => Cardinality(ChunksTo(Append(events, e), Len(events) + 1))
                                    = Cardinality(ChunksTo(events, Len(events)))
           /\ e.kind = "chunk" =>
                /\ Len(events) + 1 \in ChunksTo(Append(events, e), Len(events) + 1)
                /\ Cardinality(ChunksTo(Append(events, e), Len(events) + 1))
                     = Cardinality(ChunksTo(events, Len(events))) + 1
<1> DEFINE t == Append(events, e)  m == Len(events)
<1>1. /\ m \in Nat /\ t[m + 1] = e /\ m \in 0..m
      /\ \A i \in 1..m : t[i] = events[i]
      /\ \A i \in 1..(m + 1) : i \in 1..m \/ i = m + 1
      /\ \A i \in 1..m : i \in 1..(m + 1)
      /\ m + 1 \in 1..(m + 1) /\ m + 1 \notin 1..m
  OBVIOUS
<1> HIDE DEF t, m
<1>2. ASSUME NEW n \in 0..m
      PROVE  /\ ChunksTo(t, n) = ChunksTo(events, n)
             /\ IsFiniteSet(ChunksTo(events, n)) /\ Cardinality(ChunksTo(events, n)) \in Nat
  <2>1. \A i \in 1..n : t[i] = events[i]
    BY <1>1
  <2>2. ChunksTo(t, n) = ChunksTo(events, n)
    BY <2>1 DEF ChunksTo
  <2>3. IsFiniteSet(1..n)
    BY FS_Interval, <1>1
  <2>4. ChunksTo(events, n) \in SUBSET (1..n)
    BY DEF ChunksTo
  <2>5. IsFiniteSet(ChunksTo(events, n))
    BY <2>3, <2>4, FS_Subset
  <2> QED BY <2>2, <2>5, FS_CardinalityType
<1>3. ASSUME e.kind # "chunk" PROVE ChunksTo(t, m + 1) = ChunksTo(events, m)
  BY <1>1, <1>3 DEF ChunksTo
<1>4. ASSUME e.kind = "chunk"
      PROVE  ChunksTo(t, m + 1) = ChunksTo(events, m) \cup {m + 1} /\ m + 1 \notin ChunksTo(events, m)
  BY <1>1, <1>4 DEF ChunksTo
<1>5. ASSUME e.kind = "chunk"
      PROVE  /\ m + 1 \in ChunksTo(t, m + 1)
             /\ Cardinality(ChunksTo(t, m + 1)) = Cardinality(ChunksTo(events, m)) + 1
  BY <1>1, <1>2, <1>4, <1>5, FS_AddElement
<1> QED BY <1>2, <1>3, <1>5 DEF t, m

Reasons ==
    {NoFinish} \cup
    (UNION {{KnownFinish[v][raw] : raw \in DOMAIN KnownFinish[v]} : v \in DOMAIN KnownFinish})
ChunkType == [text : Texts \cup {NoText}, calls : Seq(Slot), finish : Reasons]

ChunksSoFar == Cardinality(ChunksTo(received, Len(received)))

\* Inductive strengthening: the slots are the calls of all fragments so far, and
\* no chunk is yielded that nothing asked for.
StreamTyped ==
    /\ vendor \in DOMAIN KnownFinish /\ stream \in {"open", "ended", "raised"}
    /\ received \in Seq(EventType) /\ accumulated \in Seq(Slot) /\ yielded \in Seq(ChunkType)
    /\ finalFinish \in Reasons

Collected ==
    vendor = "openai" =>
      /\ Len(yielded) <= ChunksSoFar
      /\ CallsOf(accumulated, FragmentsTo(received, Len(received)))

StreamInv == StreamTyped /\ Collected /\ StreamFaithful

LEMMA FinishType == ASSUME StreamTyped, NEW raw PROVE FinishOf(raw) \in Reasons
<1>1. vendor \in DOMAIN KnownFinish
  BY DEF StreamTyped
<1>2. CASE raw \in DOMAIN KnownFinish[vendor]
  <2>1. KnownFinish[vendor][raw] \in {KnownFinish[vendor][x] : x \in DOMAIN KnownFinish[vendor]}
    BY <1>2
  <2>2. KnownFinish[vendor][raw] \in Reasons
    BY <1>1, <2>1 DEF Reasons
  <2> QED BY <1>2, <2>2 DEF FinishOf
<1>3. CASE raw \notin DOMAIN KnownFinish[vendor]
  BY <1>3 DEF FinishOf, Reasons
<1> QED BY <1>2, <1>3

LEMMA SpeaksAll == Speaks(EventType) /\ Speaks(ChunkType)
  BY DEF Speaks, EventType, ChunkType

LEMMA FrontOfAppend ==
    ASSUME NEW T, NEW s \in Seq(T), NEW x \in T PROVE Front(Append(s, x)) = s
<1>1. /\ Append(s, x) \in Seq(T) /\ Len(Append(s, x)) = Len(s) + 1 /\ Len(s) \in Nat
      /\ \A i \in 1..Len(s) : Append(s, x)[i] = s[i]
  OBVIOUS
<1>2. Front(Append(s, x)) = [i \in 1..Len(s) |-> Append(s, x)[i]]
  <2>1. Front(Append(s, x)) = SubSeq(Append(s, x), 1, Len(s))
    BY <1>1 DEF Front
  <2> QED BY <1>1, <2>1
<1>3. Front(Append(s, x)) = [i \in 1..Len(s) |-> s[i]]
  BY <1>1, <1>2
<1> QED BY <1>3

\* An answer to a chunk stays one while more is received.
LEMMA AnswersStay ==
    ASSUME NEW events \in Seq(EventType), NEW e \in EventType, NEW chunk, NEW k,
           NEW n \in 1..Len(events), Answers(chunk, events, k, n)
    PROVE  Answers(chunk, Append(events, e), k, n)
<1> DEFINE t == Append(events, e)
<1>1. n \in 0..Len(events) /\ t[n] = events[n]
  OBVIOUS
<1>2. ChunksTo(t, n) = ChunksTo(events, n) /\ FragmentsTo(t, n) = FragmentsTo(events, n)
  BY <1>1, ChunksGrow, FragmentsGrow
<1> QED BY <1>1, <1>2 DEF Answers, IsChunk

\* What is yielded so far, while one more event is received.
LEMMA AnswersGoOn ==
    ASSUME StreamInv, NEW e \in EventType, received' = Append(received, e), vendor' = vendor,
           vendor = "openai", NEW k \in DOMAIN yielded, yielded'[k] = yielded[k]
    PROVE  \E n \in DOMAIN received' :
             /\ Answers(yielded'[k], received', k, n)
             /\ yielded'[k].finish = FinishOf(received[n].finish)'
<1>1. received \in Seq(EventType) /\ Len(received) \in Nat
  BY DEF StreamInv, StreamTyped
<1>2. PICK n \in DOMAIN received :
        Answers(yielded[k], received, k, n) /\ yielded[k].finish = FinishOf(received[n].finish)
  BY DEF StreamInv, StreamFaithful
<1> DEFINE t == Append(received, e)
<1>3. /\ DOMAIN received = 1..Len(received) /\ n \in DOMAIN t /\ t[n] = received[n]
      /\ n \in 1..Len(received)
  BY <1>1
<1>4. Answers(yielded[k], t, k, n)
  BY <1>1, <1>2, <1>3, AnswersStay
<1>5. FinishOf(received[n].finish)' = FinishOf(received[n].finish)
  BY <1>3 DEF FinishOf
<1> HIDE DEF t
<1>6. n \in DOMAIN received' /\ received' = t
  BY <1>3 DEF t
<1> QED BY <1>2, <1>4, <1>5, <1>6

-----------------------------------------------------------------------------
(* Each step *)

LEMMA StreamBegins == StreamInit => StreamInv
<1> SUFFICES ASSUME StreamInit PROVE StreamInv
  OBVIOUS
<1>1. StreamTyped
  <2>1. NoFinish \in Reasons
    BY DEF Reasons
  <2> QED BY <2>1 DEF StreamInit, StreamTyped
<1>2. received = <<>> /\ yielded = <<>> /\ accumulated = <<>> /\ Len(<<>>) = 0
  BY DEF StreamInit
<1>3. FragmentsTo(<<>>, 0) = <<>>
  <2>1. 0 \in 0..Len(<<>>) /\ <<>> \in Seq(EventType)
    OBVIOUS
  <2>2. PICK g : FlatRuns(g, <<>>, 0) /\ FragmentsTo(<<>>, 0) = g[0]
    BY <2>1, FragmentsToIs
  <2> QED BY <2>2 DEF FlatRuns, Goes
<1>4. CallsOf(<<>>, <<>>)
  BY DEF CallsOf
<1>5. ChunksSoFar = 0
  <2>1. ChunksTo(<<>>, 0) = {}
    BY DEF ChunksTo
  <2> QED BY <1>2, <2>1, FS_EmptySet DEF ChunksSoFar
<1>6. Collected
  BY <1>2, <1>3, <1>4, <1>5 DEF Collected
<1>7. StreamFaithful
  BY <1>2, <1>5 DEF StreamFaithful, ChunksSoFar
<1> QED BY <1>1, <1>6, <1>7 DEF StreamInv

\* Both texts, before anything is left out.
LEMMA OpenMeans ==
    ASSUME StreamInv, stream = "open"
    PROVE  /\ Spoken(yielded) = Spoken(received)
           /\ vendor = "openai" => ChunksSoFar = Len(yielded)
<1>1. ChunksSoFar \in Nat /\ Len(yielded) \in Nat
  <2>1. received \in Seq(EventType) /\ Len(received) \in 0..Len(received)
    BY DEF StreamInv, StreamTyped
  <2>3. IsFiniteSet(1..Len(received))
    BY <2>1, FS_Interval
  <2>4. ChunksTo(received, Len(received)) \in SUBSET (1..Len(received))
    BY DEF ChunksTo
  <2>5. IsFiniteSet(ChunksTo(received, Len(received)))
    BY <2>3, <2>4, FS_Subset
  <2> QED BY <2>5, FS_CardinalityType DEF ChunksSoFar, StreamInv, StreamTyped
<1>2. ~(vendor = "openai" /\ Len(yielded) < ChunksSoFar)
  BY DEF StreamInv, StreamFaithful, ChunksSoFar
<1>3. Spoken(yielded) = Spoken(received)
  BY <1>2 DEF StreamInv, StreamFaithful, ChunksSoFar
<1> QED BY <1>1, <1>2, <1>3 DEF StreamInv, Collected

LEMMA ChunkKeeps ==
    ASSUME StreamInv, NEW text \in Texts \cup {NoText}, NEW fr \in Seq(Fragments),
           NEW raw \in Finishes \cup {NoFinish}, OpenAIChunk(text, fr, raw)
    PROVE  StreamInv'
<1> DEFINE e == Event("chunk", text, fr, raw)
           slots == CollectAll(accumulated, fr)
           reason == FinishOf(raw)
           calls == IF reason = "tool_calls" THEN slots ELSE <<>>
           c == Chunk(text, calls, reason)
           t == Append(received, e)
           n == Len(received)
<1>1. /\ vendor = "openai" /\ stream = "open" /\ received' = t /\ vendor' = vendor
      /\ accumulated' = slots /\ finalFinish' = finalFinish
      /\ received \in Seq(EventType) /\ yielded \in Seq(ChunkType) /\ accumulated \in Seq(Slot)
      /\ n \in Nat /\ n \in 0..n
  BY DEF OpenAIChunk, Receive, StreamInv, StreamTyped
<1>2. \/ /\ \E i \in DOMAIN calls : calls[i].args \notin WholeArgs \cup {<<>>}
         /\ stream' = "raised" /\ yielded' = yielded
      \/ /\ \A i \in DOMAIN calls : calls[i].args \in WholeArgs \cup {<<>>}
         /\ stream' = "open" /\ yielded' = Append(yielded, c)
  <2>1. IF \E i \in DOMAIN calls : calls[i].args \notin WholeArgs \cup {<<>>}
        THEN stream' = "raised" /\ UNCHANGED yielded
        ELSE yielded' = Append(yielded, c) /\ UNCHANGED stream
    BY DEF OpenAIChunk
  <2> HIDE DEF calls, c
  <2> QED BY <1>1, <2>1
<1>3. e \in EventType /\ e.kind = "chunk" /\ e.text = text /\ e.fragments = fr /\ e.finish = raw
  BY DEF Event, EventType
<1> HIDE DEF e
<1>4. /\ t \in Seq(EventType) /\ Len(t) = n + 1 /\ t[n + 1] = e /\ DOMAIN t = 1..(n + 1)
      /\ DOMAIN received = 1..n /\ n + 1 \in 1..(n + 1) /\ \A i \in 1..n : i \in 1..(n + 1)
  BY <1>1, <1>3
<1>5. /\ FragmentsTo(t, n + 1) = FragmentsTo(received, n) \o fr
      /\ FragmentsTo(received, n) \in Seq(Fragments)
  BY <1>1, <1>3, FragmentsGrow
<1>6. slots \in Seq(Slot) /\ CallsOf(slots, FragmentsTo(t, n + 1))
  <2>1. CallsOf(accumulated, FragmentsTo(received, n))
    BY <1>1 DEF StreamInv, Collected
  <2> QED BY <1>1, <1>5, <2>1, CollectAllKeeps
<1> HIDE DEF slots
<1>7. reason \in Reasons
  BY FinishType DEF StreamInv
<1>8. FinishOf(raw)' = reason
  BY <1>1 DEF FinishOf
<1> HIDE DEF reason
<1>9. calls \in Seq(Slot) /\ (calls # <<>> => reason = "tool_calls")
  <2>1. <<>> \in Seq(Slot)
    OBVIOUS
  <2> QED BY <1>6, <2>1
<1>10. c \in ChunkType /\ c.text = text /\ c.calls = calls /\ c.finish = reason
  BY <1>7, <1>9 DEF Chunk, ChunkType
<1>11. /\ n + 1 \in ChunksTo(t, n + 1)
       /\ Cardinality(ChunksTo(t, n + 1)) = ChunksSoFar + 1 /\ ChunksSoFar \in Nat
  BY <1>1, <1>3, ChunksGrow DEF ChunksSoFar
<1>12. ChunksSoFar = Len(yielded) /\ Spoken(yielded) = Spoken(received)
  BY <1>1, OpenMeans
<1>13. ChunksSoFar' = Len(yielded) + 1
  BY <1>1, <1>4, <1>11, <1>12 DEF ChunksSoFar
<1>14. (vendor = "anthropic" => \A k \in DOMAIN yielded : yielded[k].calls = <<>>)'
  BY <1>1
<1>15. \A k \in DOMAIN yielded : yielded[k].calls # <<>> => yielded[k].finish = "tool_calls"
  BY DEF StreamInv, StreamFaithful
<1> HIDE DEF t, calls, c
<1>16. CASE stream' = "raised" /\ yielded' = yielded
  <2>1. StreamTyped'
    BY <1>1, <1>4, <1>6, <1>16 DEF StreamInv, StreamTyped
  <2>2. Collected'
    BY <1>1, <1>4, <1>6, <1>12, <1>13, <1>16 DEF Collected
  <2>3. Front(t) = received
    BY <1>1, <1>3, FrontOfAppend DEF t
  <2>4. \A k \in DOMAIN yielded' : \E i \in DOMAIN received' :
          /\ Answers(yielded'[k], received', k, i)
          /\ yielded'[k].finish = FinishOf(received[i].finish)'
    BY <1>1, <1>3, <1>16, AnswersGoOn DEF t
  <2>5. (vendor = "openai" /\ Len(yielded) < ChunksSoFar)' /\ (ChunksSoFar = Len(yielded) + 1)'
    BY <1>1, <1>11, <1>12, <1>13, <1>16
  <2>6. StreamFaithful'
    BY <1>1, <1>12, <1>14, <1>15, <1>16, <2>3, <2>4, <2>5 DEF StreamFaithful, ChunksSoFar
  <2> QED BY <2>1, <2>2, <2>6 DEF StreamInv
<1>17. CASE /\ \A i \in DOMAIN calls : calls[i].args \in WholeArgs \cup {<<>>}
            /\ stream' = "open" /\ yielded' = Append(yielded, c)
  <2> DEFINE m == Len(yielded)
  <2>1. /\ yielded' \in Seq(ChunkType) /\ Len(yielded') = m + 1 /\ m \in Nat
        /\ yielded'[m + 1] = c /\ DOMAIN yielded' = 1..(m + 1) /\ DOMAIN yielded = 1..m
        /\ \A k \in 1..m : yielded'[k] = yielded[k]
        /\ \A k \in 1..(m + 1) : k \in 1..m \/ k = m + 1
    BY <1>1, <1>10, <1>17
  <2> HIDE DEF m
  <2>2. StreamTyped'
    BY <1>1, <1>4, <1>6, <1>17, <2>1 DEF StreamInv, StreamTyped
  <2>3. ChunksSoFar' = Len(yielded')
    BY <1>13, <2>1 DEF m
  <2>4. Collected'
    BY <1>1, <1>4, <1>6, <2>1, <2>3 DEF Collected
  <2>5. ASSUME NEW k \in DOMAIN yielded'
        PROVE  \E i \in DOMAIN received' :
                 /\ Answers(yielded'[k], received', k, i)
                 /\ yielded'[k].finish = FinishOf(received[i].finish)'
    <3>1. CASE k \in 1..m
      BY <1>1, <1>3, <2>1, <3>1, AnswersGoOn DEF t
    <3>2. CASE k = m + 1
      <4>1. IsChunk(t, k, n + 1)
        BY <1>11, <1>12, <3>2 DEF IsChunk, m
      <4>2. Answers(c, t, k, n + 1)
        <5>1. ASSUME reason = "tool_calls" PROVE c.calls = slots
          BY <1>10, <5>1 DEF calls
        <5> QED BY <1>6, <1>10, <1>17, <4>1, <5>1 DEF Answers
      <4>3. PICK i \in 1..(n + 1) : i = n + 1
        BY <1>4
      <4>4. received'[i].finish = raw
        BY <1>1, <1>3, <1>4, <4>3
      <4>5. FinishOf(received[i].finish)' = reason
        BY <1>1, <4>4 DEF FinishOf, reason
      <4>6. i \in DOMAIN received' /\ yielded'[k] = c
        BY <1>1, <1>4, <2>1, <3>2, <4>3
      <4> QED BY <1>1, <1>10, <4>2, <4>3, <4>5, <4>6
    <3> QED BY <2>1, <3>1, <3>2
  <2>6. Spoken(yielded') = Spoken(received')
    <3>1. Spoken(t) = IF e.text = NoText THEN Spoken(received) ELSE Append(Spoken(received), e.text)
      BY <1>1, <1>3, SpokenGrows, SpeaksAll DEF t
    <3>2. Spoken(yielded') = IF c.text = NoText THEN Spoken(yielded) ELSE Append(Spoken(yielded), c.text)
      BY <1>1, <1>10, <1>17, SpokenGrows, SpeaksAll
    <3> QED BY <1>1, <1>3, <1>10, <1>12, <3>1, <3>2
  <2>7. ~(Len(yielded') < ChunksSoFar')
    BY <2>1, <2>3
  <2>8. \A k \in DOMAIN yielded' : yielded'[k].calls # <<>> => yielded'[k].finish = "tool_calls"
    BY <1>9, <1>10, <1>15, <2>1
  <2>9. StreamFaithful'
    BY <1>14, <2>5, <2>6, <2>7, <2>8 DEF StreamFaithful, ChunksSoFar
  <2> QED BY <2>2, <2>4, <2>9 DEF StreamInv
<1> QED BY <1>2, <1>16, <1>17

LEMMA EmptyChunkKeeps == ASSUME StreamInv, OpenAIEmptyChunk PROVE StreamInv'
<1> DEFINE e == Event("empty", NoText, <<>>, NoFinish)
           t == Append(received, e)
           n == Len(received)
<1>1. /\ vendor = "openai" /\ stream = "open" /\ stream' = stream /\ received' = t
      /\ vendor' = vendor /\ accumulated' = accumulated /\ yielded' = yielded
      /\ finalFinish' = finalFinish
      /\ received \in Seq(EventType) /\ yielded \in Seq(ChunkType) /\ n \in Nat /\ n \in 0..n
  BY DEF OpenAIEmptyChunk, Receive, StreamInv, StreamTyped
<1>2. e \in EventType /\ e.kind # "chunk" /\ e.text = NoText /\ e.fragments = <<>>
  BY DEF Event, EventType
<1> HIDE DEF e
<1>3. t \in Seq(EventType) /\ Len(t) = n + 1
  BY <1>1, <1>2
<1>4. FragmentsTo(t, n + 1) = FragmentsTo(received, n)
  <2>1. /\ FragmentsTo(t, n + 1) = FragmentsTo(received, n) \o <<>>
        /\ FragmentsTo(received, n) \in Seq(Fragments)
    BY <1>1, <1>2, FragmentsGrow
  <2> QED BY <2>1
<1>5. ChunksSoFar' = ChunksSoFar
  BY <1>1, <1>2, <1>3, ChunksGrow DEF ChunksSoFar
<1>6. Spoken(received') = Spoken(received)
  BY <1>1, <1>2, SpokenGrows, SpeaksAll
<1>7. ChunksSoFar = Len(yielded) /\ Spoken(yielded) = Spoken(received) /\ Len(yielded) \in Nat
  BY <1>1, OpenMeans
<1>8. \A k \in DOMAIN yielded' : \E i \in DOMAIN received' :
        /\ Answers(yielded'[k], received', k, i)
        /\ yielded'[k].finish = FinishOf(received[i].finish)'
  BY <1>1, <1>2, AnswersGoOn
<1> HIDE DEF t
<1>9. StreamTyped'
  BY <1>1, <1>3 DEF StreamInv, StreamTyped
<1>10. Collected'
  <2>1. CallsOf(accumulated, FragmentsTo(received, n)) /\ Len(yielded) <= ChunksSoFar
    BY <1>1 DEF StreamInv, Collected
  <2> QED BY <1>1, <1>3, <1>4, <1>5, <2>1 DEF Collected
<1>11. ~(Len(yielded') < ChunksSoFar')
  BY <1>1, <1>5, <1>7
<1>12. \A k \in DOMAIN yielded' : yielded'[k].calls # <<>> => yielded'[k].finish = "tool_calls"
  BY <1>1 DEF StreamInv, StreamFaithful
<1>13. StreamFaithful'
  BY <1>1, <1>6, <1>7, <1>8, <1>11, <1>12 DEF StreamFaithful, ChunksSoFar
<1> QED BY <1>9, <1>10, <1>13 DEF StreamInv

\* Anthropic: an event and a chunk at most, with the same text and no call.
LEMMA AnthropicKeeps ==
    ASSUME StreamInv, vendor = "anthropic", vendor' = vendor, stream = "open",
           stream' \in {"open", "ended", "raised"}, accumulated' = accumulated,
           finalFinish' \in Reasons, received' \in Seq(EventType), yielded' \in Seq(ChunkType),
           Spoken(yielded') = Spoken(received'),
           \A k \in DOMAIN yielded' : yielded'[k].calls = <<>>
    PROVE  StreamInv'
<1>1. StreamTyped'
  BY DEF StreamInv, StreamTyped
<1>2. Collected'
  BY DEF Collected
<1>3. StreamFaithful'
  BY DEF StreamFaithful
<1> QED BY <1>1, <1>2, <1>3 DEF StreamInv

LEMMA OpenAnthropic ==
    ASSUME StreamInv, vendor = "anthropic", stream = "open"
    PROVE  /\ received \in Seq(EventType) /\ yielded \in Seq(ChunkType) /\ finalFinish \in Reasons
           /\ DOMAIN yielded = 1..Len(yielded) /\ Len(yielded) \in Nat
           /\ \A k \in 1..Len(yielded) : yielded[k].calls = <<>>
           /\ Spoken(yielded) = Spoken(received)
BY OpenMeans DEF StreamInv, StreamTyped, StreamFaithful

\* A chunk of text, without calls.
LEMMA PlainChunk ==
    ASSUME StreamInv, vendor = "anthropic", stream = "open",
           NEW text \in Texts \cup {NoText}, NEW finish \in Reasons
    PROVE  LET y == Append(yielded, Chunk(text, <<>>, finish)) IN
           /\ y \in Seq(ChunkType) /\ \A k \in DOMAIN y : y[k].calls = <<>>
           /\ Spoken(y) = IF text = NoText THEN Spoken(yielded) ELSE Append(Spoken(yielded), text)
<1> DEFINE c == Chunk(text, <<>>, finish)  y == Append(yielded, c)  m == Len(yielded)
<1>1. c \in ChunkType /\ c.text = text /\ c.calls = <<>>
  <2>1. <<>> \in Seq(Slot)
    OBVIOUS
  <2> QED BY <2>1 DEF Chunk, ChunkType
<1>2. yielded \in Seq(ChunkType) /\ m \in Nat /\ \A k \in 1..m : yielded[k].calls = <<>>
  BY OpenAnthropic
<1> HIDE DEF c
<1>3. /\ y \in Seq(ChunkType) /\ DOMAIN y = 1..(m + 1) /\ y[m + 1] = c
      /\ \A k \in 1..m : y[k] = yielded[k]
      /\ \A k \in 1..(m + 1) : k \in 1..m \/ k = m + 1
  BY <1>1, <1>2
<1>4. Spoken(y) = IF text = NoText THEN Spoken(yielded) ELSE Append(Spoken(yielded), text)
  BY <1>1, <1>2, SpokenGrows, SpeaksAll
<1> HIDE DEF y
<1>5. \A k \in DOMAIN y : y[k].calls = <<>>
  BY <1>1, <1>2, <1>3
<1> QED BY <1>3, <1>4, <1>5 DEF y, c

\* An event without text yields nothing.
LEMMA QuietEvent ==
    ASSUME StreamInv, vendor = "anthropic", stream = "open", NEW e \in EventType, e.text = NoText
    PROVE  /\ Append(received, e) \in Seq(EventType)
           /\ Spoken(Append(received, e)) = Spoken(yielded)
BY OpenAnthropic, SpokenGrows, SpeaksAll

LEMMA AnthropicSteps ==
    ASSUME StreamInv,
           \/ \E text \in Texts \cup {NoText} : TextDelta(text)
           \/ \E f \in Fragments : OtherDelta(f)
           \/ \E raw \in Finishes \cup {NoFinish} : MessageDelta(raw)
           \/ AnthropicEnd
    PROVE  StreamInv'
<1>1. ASSUME NEW text \in Texts \cup {NoText}, TextDelta(text) PROVE StreamInv'
  <2> DEFINE e == Event("text", text, <<>>, NoFinish)
  <2>1. /\ vendor = "anthropic" /\ stream = "open" /\ vendor' = vendor /\ stream' = stream
        /\ accumulated' = accumulated /\ finalFinish' = finalFinish
        /\ received' = Append(received, e)
        /\ yielded' = IF text = NoText THEN yielded ELSE Append(yielded, Chunk(text, <<>>, NoFinish))
    BY <1>1 DEF TextDelta, Receive
  <2>2. e \in EventType /\ e.text = text
    BY DEF Event, EventType
  <2>3. NoFinish \in Reasons
    BY DEF Reasons
  <2> HIDE DEF e
  <2>4. received' \in Seq(EventType)
    BY <2>1, <2>2, OpenAnthropic
  <2>5. Spoken(received') = IF text = NoText THEN Spoken(yielded) ELSE Append(Spoken(yielded), text)
    BY <2>1, <2>2, OpenAnthropic, SpokenGrows, SpeaksAll
  <2>6. CASE text = NoText
    <3>1. yielded' = yielded
      BY <2>1, <2>6
    <3> QED BY <2>1, <2>4, <2>5, <2>6, <3>1, OpenAnthropic, AnthropicKeeps
  <2>7. CASE text # NoText
    <3>1. yielded' = Append(yielded, Chunk(text, <<>>, NoFinish))
      BY <2>1, <2>7
    <3>2. /\ yielded' \in Seq(ChunkType) /\ \A k \in DOMAIN yielded' : yielded'[k].calls = <<>>
          /\ Spoken(yielded') = Append(Spoken(yielded), text)
      BY <2>1, <2>3, <2>7, <3>1, PlainChunk
    <3> QED BY <2>1, <2>4, <2>5, <2>7, <3>2, OpenAnthropic, AnthropicKeeps
  <2> QED BY <2>6, <2>7
<1>2. ASSUME NEW f \in Fragments, OtherDelta(f) PROVE StreamInv'
  <2> DEFINE e == Event("other", NoText, <<f>>, NoFinish)
  <2>1. /\ vendor = "anthropic" /\ stream = "open" /\ vendor' = vendor /\ stream' = stream
        /\ accumulated' = accumulated /\ finalFinish' = finalFinish /\ yielded' = yielded
        /\ received' = Append(received, e)
    BY <1>2 DEF OtherDelta, Receive
  <2>2. e \in EventType /\ e.text = NoText
    BY DEF Event, EventType
  <2> HIDE DEF e
  <2> QED BY <2>1, <2>2, OpenAnthropic, QuietEvent, AnthropicKeeps
<1>3. ASSUME NEW raw \in Finishes \cup {NoFinish}, MessageDelta(raw) PROVE StreamInv'
  <2> DEFINE e == Event("message", NoText, <<>>, raw)
  <2>1. /\ vendor = "anthropic" /\ stream = "open" /\ vendor' = vendor /\ stream' = stream
        /\ accumulated' = accumulated /\ finalFinish' = FinishOf(raw) /\ yielded' = yielded
        /\ received' = Append(received, e)
    BY <1>3 DEF MessageDelta, Receive
  <2>2. e \in EventType /\ e.text = NoText
    BY DEF Event, EventType
  <2>3. finalFinish' \in Reasons
    BY <2>1, FinishType DEF StreamInv
  <2> HIDE DEF e
  <2> QED BY <2>1, <2>2, <2>3, OpenAnthropic, QuietEvent, AnthropicKeeps
<1>4. CASE AnthropicEnd
  <2>1. /\ vendor = "anthropic" /\ stream = "open" /\ vendor' = vendor /\ stream' = "ended"
        /\ accumulated' = accumulated /\ finalFinish' = finalFinish /\ received' = received
        /\ yielded' = Append(yielded, Chunk(NoText, <<>>, finalFinish))
    BY <1>4 DEF AnthropicEnd
  <2>2. /\ yielded' \in Seq(ChunkType) /\ \A k \in DOMAIN yielded' : yielded'[k].calls = <<>>
        /\ Spoken(yielded') = Spoken(yielded)
    BY <2>1, OpenAnthropic, PlainChunk
  <2> QED BY <2>1, <2>2, OpenAnthropic, AnthropicKeeps
<1> QED BY <1>1, <1>2, <1>3, <1>4

\* The stream ends or breaks.
LEMMA EndKeeps ==
    ASSUME StreamInv, stream = "open", stream' \in {"ended", "raised"},
           UNCHANGED <<vendor, received, accumulated, finalFinish, yielded>>
    PROVE  StreamInv'
<1>1. StreamTyped' /\ Collected'
  BY DEF StreamInv, StreamTyped, Collected, ChunksSoFar
<1>2. /\ ~(vendor = "openai" /\ Len(yielded) < ChunksSoFar)
      /\ Spoken(yielded) = Spoken(received)
  <2>1. stream # "raised"
    OBVIOUS
  <2> QED BY <2>1, OpenMeans DEF StreamInv, StreamFaithful, ChunksSoFar
<1>3. \A raw : FinishOf(raw)' = FinishOf(raw)
  BY DEF FinishOf
<1>4. StreamFaithful'
  BY <1>2, <1>3 DEF StreamInv, StreamFaithful, ChunksSoFar
<1> QED BY <1>1, <1>4 DEF StreamInv

LEMMA StreamStep == StreamInv /\ [StreamNext]_streamVars => StreamInv'
<1> SUFFICES ASSUME StreamInv, [StreamNext]_streamVars PROVE StreamInv'
  OBVIOUS
<1>1. ASSUME NEW text \in Texts \cup {NoText}, NEW raw \in Finishes \cup {NoFinish},
             NEW f \in Fragments, OpenAIChunk(text, <<f>>, raw)
      PROVE  StreamInv'
  <2>1. <<f>> \in Seq(Fragments)
    OBVIOUS
  <2> QED BY <1>1, <2>1, ChunkKeeps
<1>2. ASSUME NEW f \in Fragments, NEW g \in Fragments, OpenAIChunk(NoText, <<f, g>>, NoFinish)
      PROVE  StreamInv'
  <2>1. <<f, g>> \in Seq(Fragments)
    OBVIOUS
  <2> QED BY <1>2, <2>1, ChunkKeeps
<1>3. ASSUME NEW text \in Texts \cup {NoText}, NEW raw \in Finishes \cup {NoFinish},
             OpenAIChunk(text, <<>>, raw)
      PROVE  StreamInv'
  <2>1. <<>> \in Seq(Fragments)
    OBVIOUS
  <2> QED BY <1>3, <2>1, ChunkKeeps
<1>4. CASE OpenAIEnd \/ StreamBreaks
  BY <1>4, EndKeeps DEF OpenAIEnd, StreamBreaks
<1>5. CASE UNCHANGED streamVars
  <2>1. \A raw : FinishOf(raw)' = FinishOf(raw)
    BY <1>5 DEF FinishOf, streamVars
  <2> QED BY <1>5, <2>1 DEF streamVars, StreamInv, StreamTyped, Collected, ChunksSoFar, StreamFaithful
<1> QED BY <1>1, <1>2, <1>3, <1>4, <1>5, EmptyChunkKeeps, AnthropicSteps DEF StreamNext

LEMMA StreamInvHolds == StreamSpec => []StreamInv
<1> QED BY StreamBegins, StreamStep, PTL DEF StreamSpec

\* What a vendor streams is yielded whole: the text in order, every tool call put
\* together from its own fragments, however they come (openai_provider.py and
\* anthropic_provider.py, stream_chat).
THEOREM StreamsYieldedWhole == StreamSpec => []StreamFaithful
<1>1. StreamInv => StreamFaithful
  BY DEF StreamInv
<1> QED BY <1>1, StreamInvHolds, PTL

LEMMA StreamTypes == StreamInv => StreamTypeOK
<1> SUFFICES ASSUME StreamInv PROVE StreamTypeOK
  OBVIOUS
<1>1. \A i \in DOMAIN received : received[i] \in EventType
  BY DEF StreamInv, StreamTyped
<1>2. \A i \in DOMAIN accumulated : accumulated[i] \in Slot
  BY DEF StreamInv, StreamTyped
<1>3. \A i \in DOMAIN yielded : yielded[i] \in ChunkType
  BY DEF StreamInv, StreamTyped
<1> QED BY <1>1, <1>2, <1>3 DEF StreamTypeOK, StreamInv, StreamTyped, EventType, Slot, ChunkType

-----------------------------------------------------------------------------
(* ExtensionLoader: a scan registers the skills before the first trouble *)

LastPath == Cardinality(Paths)
Registry == Seq(Entries)
DistinctNames(s) == \A i, j \in 1..Len(s) : s[i].name = s[j].name => i = j

\* The inductive invariant of ScanKeepsPrefix: the names are the keys of the
\* dictionary of entries.
LoaderInv == LoaderTypeOK /\ DistinctNames(skills)

ScanResult == [entries : Registry, ended : {"returned", "conflict", "raised"}]
NoScan == [entries |-> skills, ended |-> "returned"]

LEMMA PathNumbers == LastPath \in Nat /\ Paths = 1..LastPath /\ \A p \in Paths : p \in Nat
<1>1. LastPath \in Nat
  BY LoaderAssumption, FS_CardinalityType DEF LastPath
<1>2. Paths = 1..LastPath
  BY LoaderAssumption DEF LastPath
<1> QED BY <1>1, <1>2

LEMMA SkillFile ==
    ASSUME disk \in [Paths -> Files], NEW p \in Paths
    PROVE  /\ disk[p].kind \in {"skill", "absent", "malformed", "unreadable"}
           /\ disk[p].kind = "skill" => disk[p].name \in SkillNames /\ disk[p].body \in Bodies
                                        /\ LoadedFrom(p) \in Entries
<1>1. \/ \E n \in SkillNames, b \in Bodies : disk[p] = Skill(n, b)
      \/ \E k \in {"absent", "malformed", "unreadable"} : disk[p] = NoSkill(k)
  BY DEF Files
<1>2. CASE \E n \in SkillNames, b \in Bodies : disk[p] = Skill(n, b)
  <2>1. disk[p].kind = "skill" /\ disk[p].name \in SkillNames /\ disk[p].body \in Bodies
    BY <1>2 DEF Skill
  <2>2. LoadedFrom(p) \in Entries
    BY <2>1 DEF LoadedFrom, Entries, NoBody
  <2> QED BY <2>1, <2>2
<1>3. CASE \E k \in {"absent", "malformed", "unreadable"} : disk[p] = NoSkill(k)
  BY <1>3 DEF NoSkill
<1> QED BY <1>1, <1>2, <1>3

LEMMA FileKinds ==
    ASSUME disk \in [Paths -> Files], NEW p \in Visible
    PROVE  /\ disk[p].kind \in {"skill", "malformed", "unreadable"}
           /\ disk[p].kind = "skill" => LoadedFrom(p) \in Entries
  BY SkillFile DEF Visible

LEMMA OneMoreEntry ==
    ASSUME NEW s \in Registry, NEW e \in Entries
    PROVE  /\ Append(s, e) \in Registry /\ Len(Append(s, e)) = Len(s) + 1 /\ Len(s) \in Nat
           /\ Append(s, e)[Len(s) + 1] = e /\ \A i \in 1..Len(s) : Append(s, e)[i] = s[i]
  BY AppendProperties DEF Registry

\* What a step of the scan does, by the file it meets.
Goes1(a, p) == a.ended # "returned" \/ disk[p].kind = "malformed"
Taken(a, p) == disk[p].name \in Names(a.entries)

LEMMA StepIs ==
    ASSUME disk \in [Paths -> Files], NEW a \in ScanResult, NEW p \in Visible
    PROVE  /\ Goes1(a, p) => ScanStep(a, p) = a
           /\ ~Goes1(a, p) /\ disk[p].kind = "unreadable" =>
                ScanStep(a, p) = [entries |-> a.entries, ended |-> "raised"]
           /\ ~Goes1(a, p) /\ disk[p].kind = "skill" /\ Taken(a, p) =>
                ScanStep(a, p) = [entries |-> a.entries, ended |-> "conflict"]
           /\ ~Goes1(a, p) /\ disk[p].kind = "skill" /\ ~Taken(a, p) =>
                ScanStep(a, p) = [entries |-> Append(a.entries, LoadedFrom(p)), ended |-> "returned"]
<1>1. /\ disk[p].kind \in {"skill", "malformed", "unreadable"}
      /\ a = [entries |-> a.entries, ended |-> a.ended]
  BY FileKinds DEF ScanResult
<1>2. ASSUME Goes1(a, p) PROVE ScanStep(a, p) = a
  BY <1>1, <1>2 DEF ScanStep, Goes1
<1>3. ASSUME ~Goes1(a, p), disk[p].kind = "unreadable"
      PROVE  ScanStep(a, p) = [entries |-> a.entries, ended |-> "raised"]
  <2>1. ScanStep(a, p) = [a EXCEPT !.ended = "raised"]
    BY <1>1, <1>3 DEF ScanStep, Goes1
  <2> QED BY <1>1, <2>1
<1>4. ASSUME ~Goes1(a, p), disk[p].kind = "skill", Taken(a, p)
      PROVE  ScanStep(a, p) = [entries |-> a.entries, ended |-> "conflict"]
  <2>1. ScanStep(a, p) = [a EXCEPT !.ended = "conflict"]
    BY <1>1, <1>4 DEF ScanStep, Goes1, Taken
  <2> QED BY <1>1, <2>1
<1>5. ASSUME ~Goes1(a, p), disk[p].kind = "skill", ~Taken(a, p)
      PROVE  ScanStep(a, p) = [entries |-> Append(a.entries, LoadedFrom(p)), ended |-> "returned"]
  <2>1. ScanStep(a, p) = [a EXCEPT !.entries = Append(a.entries, LoadedFrom(p))]
    BY <1>1, <1>5 DEF ScanStep, Goes1, Taken
  <2>2. a.ended = "returned"
    BY <1>5 DEF Goes1
  <2> QED BY <1>1, <2>1, <2>2
<1> QED BY <1>2, <1>3, <1>4, <1>5

LEMMA StepType ==
    ASSUME disk \in [Paths -> Files], NEW a \in ScanResult, NEW p \in Visible
    PROVE  ScanStep(a, p) \in ScanResult
<1>1. a.entries \in Registry
  BY DEF ScanResult
<1>2. disk[p].kind \in {"skill", "malformed", "unreadable"}
  BY FileKinds
<1>3. Goes1(a, p) \/ ~Goes1(a, p)
  OBVIOUS
<1>4. CASE Goes1(a, p)
  BY <1>4, StepIs
<1>5. CASE ~Goes1(a, p) /\ disk[p].kind = "unreadable"
  BY <1>1, <1>5, StepIs DEF ScanResult
<1>6. CASE ~Goes1(a, p) /\ disk[p].kind = "skill" /\ Taken(a, p)
  BY <1>1, <1>6, StepIs DEF ScanResult
<1>7. CASE ~Goes1(a, p) /\ disk[p].kind = "skill" /\ ~Taken(a, p)
  <2>1. Append(a.entries, LoadedFrom(p)) \in Registry
    BY <1>1, <1>7, FileKinds, OneMoreEntry
  <2>2. ScanStep(a, p) = [entries |-> Append(a.entries, LoadedFrom(p)), ended |-> "returned"]
    BY <1>7, StepIs
  <2> QED BY <2>1, <2>2 DEF ScanResult
<1> QED BY <1>2, <1>4, <1>5, <1>6, <1>7 DEF Goes1

\* The scan is the run of its steps.
ScanRuns(g) ==
    /\ g \in [0..LastPath -> ScanResult] /\ g[0] = NoScan
    /\ \A i \in 1..LastPath : g[i] = IF i \in Visible THEN ScanStep(g[i - 1], i) ELSE g[i - 1]

LEMMA ScannedIs ==
    ASSUME disk \in [Paths -> Files], skills \in Registry
    PROVE  \E g : ScanRuns(g) /\ ScannedTo[LastPath] = g[LastPath]
<1> DEFINE n == LastPath
           step == [i \in 1..n |-> [x \in ScanResult |-> IF i \in Visible THEN ScanStep(x, i) ELSE x]]
           to == CHOOSE f : f = [i \in 0..n |-> IF i = 0 THEN NoScan
                   ELSE IF i \in Visible THEN ScanStep(f[i - 1], i) ELSE f[i - 1]]
<1>1. n \in Nat /\ NoScan \in ScanResult
  BY PathNumbers DEF NoScan, ScanResult
<1>2. /\ \A i \in 1..n, x \in ScanResult :
           step[i][x] = IF i \in Visible THEN ScanStep(x, i) ELSE x
      /\ Steps(step, n, ScanResult)
  <2>1. \A i \in 1..n, x \in ScanResult :
           step[i][x] = IF i \in Visible THEN ScanStep(x, i) ELSE x
    OBVIOUS
  <2> HIDE DEF step, n
  <2>2. \A i \in 1..n, x \in ScanResult : step[i][x] \in ScanResult
    BY <2>1, StepType
  <2> QED BY <2>1, <2>2 DEF Steps
<1>3. PICK g : Goes(g, n, ScanResult, NoScan, step)
  <2> HIDE DEF step, n
  <2> QED BY <1>1, <1>2, Recursion
<1>4. /\ g \in [0..n -> ScanResult] /\ g[0] = NoScan
      /\ \A i \in 1..n : i - 1 \in 0..n /\ i \in 0..n /\ i # 0
      /\ \A i \in 1..n : g[i] = IF i \in Visible THEN ScanStep(g[i - 1], i) ELSE g[i - 1]
  <2>1. \A i \in 1..n : i - 1 \in 0..n /\ i \in 0..n /\ i # 0
    BY <1>1
  <2> HIDE DEF step, n
  <2>2. g \in [0..n -> ScanResult] /\ g[0] = NoScan /\ \A i \in 1..n : g[i] = step[i][g[i - 1]]
    BY <1>3 DEF Goes
  <2>3. \A i \in 1..n : g[i - 1] \in ScanResult
    BY <2>1, <2>2
  <2> QED BY <1>2, <2>1, <2>2, <2>3
<1>5. g = [i \in 0..n |-> IF i = 0 THEN NoScan
             ELSE IF i \in Visible THEN ScanStep(g[i - 1], i) ELSE g[i - 1]]
  <2>1. \A i \in 0..n : i = 0 \/ i \in 1..n
    BY <1>1
  <2> HIDE DEF n
  <2> QED BY <1>4, <2>1
<1>6. to = [i \in 0..n |-> IF i = 0 THEN NoScan
              ELSE IF i \in Visible THEN ScanStep(to[i - 1], i) ELSE to[i - 1]]
  BY <1>5
<1>7. ScannedTo[n] = to[n]
  BY DEF ScannedTo, NoScan, LastPath
<1> HIDE DEF to, n, step
<1>8. to[0] = NoScan /\ Unrolls(to, n, ScanResult, step)
  BY <1>1, <1>2, <1>4, <1>6 DEF Unrolls
<1>9. to[n] = g[n]
  BY <1>1, <1>3, <1>8, Unrolled
<1> QED BY <1>4, <1>7, <1>9 DEF ScanRuns, n

-----------------------------------------------------------------------------
\* How far a scan is tells what it has added.
Grown(s, t) == Len(s) <= Len(t) /\ \A i \in 1..Len(s) : t[i] = s[i]
AddedTo(n) == {p \in WouldAdd : p <= n}
FirstNames(n) == Names(skills) \cup {disk[p].name : p \in AddedTo(n)}

ScannedSoFar(a, n) ==
    /\ a \in ScanResult /\ Grown(skills, a.entries) /\ DistinctNames(a.entries)
    /\ Added(skills, a.entries) = AddedTo(n)
    /\ Names(a.entries) = FirstNames(n)
    /\ (a.ended = "returned") <=> (\A s \in Stops : n < s)

LEMMA PathOrder ==
    /\ Visible \subseteq Paths /\ Skilled \subseteq Visible /\ Stops \subseteq Visible
    /\ WouldAdd \subseteq Skilled
  BY DEF Visible, Skilled, Stops, WouldAdd

LEMMA NothingScanned ==
    ASSUME skills \in Registry, DistinctNames(skills) PROVE ScannedSoFar(NoScan, 0)
<1>1. /\ NoScan \in ScanResult /\ NoScan.entries = skills /\ NoScan.ended = "returned"
      /\ Len(skills) \in Nat
  BY DEF NoScan, ScanResult, Registry
<1>2. \A p \in Paths : ~(p <= 0) /\ 0 < p
  BY PathNumbers
<1>3. AddedTo(0) = {}
  BY <1>2, PathOrder DEF AddedTo
<1>4. Added(skills, skills) = {}
  BY <1>1 DEF Added
<1>5. Names(skills) = FirstNames(0)
  BY <1>3 DEF FirstNames
<1>6. \A s \in Stops : 0 < s
  BY <1>2, PathOrder
<1>7. Grown(skills, skills)
  BY <1>1 DEF Grown
<1> QED BY <1>1, <1>3, <1>4, <1>5, <1>6, <1>7 DEF ScannedSoFar

\* A path that adds nothing and at which nothing stops leaves what was added.
LEMMA NoMoreAdded ==
    ASSUME NEW p \in Paths, p \notin WouldAdd
    PROVE  AddedTo(p) = AddedTo(p - 1) /\ FirstNames(p) = FirstNames(p - 1)
<1>1. \A q \in WouldAdd : q <= p <=> q <= p - 1
  <2> TAKE q \in WouldAdd
  <2>1. q \in Nat /\ p \in Nat /\ q # p
    BY PathNumbers, PathOrder
  <2> QED BY <2>1
<1> QED BY <1>1 DEF AddedTo, FirstNames

LEMMA StillBefore ==
    ASSUME NEW p \in Paths, p \notin Stops
    PROVE  (\A s \in Stops : p - 1 < s) <=> (\A s \in Stops : p < s)
<1>1. ASSUME NEW s \in Stops PROVE p - 1 < s <=> p < s
  <2>1. s \in Nat /\ p \in Nat /\ s # p
    BY PathNumbers, PathOrder
  <2> QED BY <2>1
<1> QED BY <1>1

LEMMA StoppedHere ==
    ASSUME NEW p \in Paths, p \in Stops
    PROVE  ~(\A s \in Stops : p < s) /\ p \notin WouldAdd
<1>1. p \in Nat /\ ~(p < p)
  BY PathNumbers
<1> QED BY <1>1 DEF WouldAdd

\* As long as nothing has stopped the scan, a name is taken exactly where it stops.
LEMMA TakenStops ==
    ASSUME disk \in [Paths -> Files], NEW p \in Skilled, \A s \in Stops : p - 1 < s
    PROVE  /\ disk[p].name \in FirstNames(p - 1) <=> p \in Stops
           /\ p \notin Stops => p \in WouldAdd
<1>0. p \in Paths /\ p \in Visible /\ p \in Nat /\ disk[p].kind = "skill"
  BY PathNumbers, PathOrder DEF Skilled
<1>1. \A q \in Skilled : q < p => q \in AddedTo(p - 1)
  <2> TAKE q \in Skilled
  <2> HAVE q < p
  <2>1. q \in Nat
    BY PathNumbers, PathOrder
  <2>2. \A s \in Stops : q < s
    <3> TAKE s \in Stops
    <3>1. s \in Nat /\ p - 1 < s
      BY PathNumbers, PathOrder
    <3> QED BY <1>0, <2>1, <3>1
  <2>3. q <= p - 1
    BY <1>0, <2>1
  <2> QED BY <2>2, <2>3 DEF AddedTo, WouldAdd
<1>2. \A q \in AddedTo(p - 1) : q \in Skilled /\ q < p
  <2> TAKE q \in AddedTo(p - 1)
  <2>1. q \in Skilled /\ q <= p - 1 /\ q \in Nat
    BY PathNumbers, PathOrder DEF AddedTo
  <2> QED BY <1>0, <2>1
<1>3. ASSUME disk[p].name \in FirstNames(p - 1) PROVE p \in Stops
  <2>1. disk[p].name \in Names(skills) \/ \E q \in Skilled : q < p /\ disk[q].name = disk[p].name
    BY <1>2, <1>3 DEF FirstNames
  <2> QED BY <1>0, <2>1 DEF Stops
<1>4. ASSUME p \in Stops PROVE disk[p].name \in FirstNames(p - 1)
  <2>1. disk[p].name \in Names(skills) \/ \E q \in Skilled : q < p /\ disk[q].name = disk[p].name
    BY <1>0, <1>4 DEF Stops
  <2> QED BY <1>1, <2>1 DEF FirstNames
<1>5. ASSUME p \notin Stops PROVE p \in WouldAdd
  <2>1. \A s \in Stops : p < s
    BY <1>0, <1>5, StillBefore
  <2> QED BY <2>1 DEF WouldAdd
<1> QED BY <1>3, <1>4, <1>5

LEMMA Unmoved ==
    ASSUME NEW p \in Paths, NEW a, ScannedSoFar(a, p - 1), p \notin WouldAdd,
           NEW b \in ScanResult, b.entries = a.entries,
           (b.ended = "returned") <=> (\A s \in Stops : p < s)
    PROVE  ScannedSoFar(b, p)
  BY NoMoreAdded DEF ScannedSoFar

LEMMA NamesOfMore ==
    ASSUME NEW s \in Registry, NEW e \in Entries
    PROVE  /\ Names(Append(s, e)) = Names(s) \cup {e.name}
           /\ DistinctNames(s) /\ e.name \notin Names(s) => DistinctNames(Append(s, e))
<1> DEFINE t == Append(s, e)
<1>1. /\ t \in Registry /\ Len(t) = Len(s) + 1 /\ Len(s) \in Nat
      /\ t[Len(s) + 1] = e /\ \A i \in 1..Len(s) : t[i] = s[i]
  BY OneMoreEntry
<1>2. Names(s) = {s[i].name : i \in 1..Len(s)} /\ Names(t) = {t[i].name : i \in 1..Len(t)}
  <2>1. DOMAIN s = 1..Len(s) /\ DOMAIN t = 1..Len(t)
    BY <1>1, LenProperties DEF Registry
  <2> QED BY <2>1 DEF Names
<1> HIDE DEF t
<1>3. \A i \in 1..Len(t) : i \in 1..Len(s) \/ i = Len(s) + 1
  BY <1>1
<1>4. \A i \in 1..Len(s) : i \in 1..Len(t) /\ i # Len(s) + 1
  BY <1>1
<1>5. Len(s) + 1 \in 1..Len(t)
  BY <1>1
<1>6. Names(t) = Names(s) \cup {e.name}
  <2>1. Names(t) \subseteq Names(s) \cup {e.name}
    BY <1>1, <1>2, <1>3
  <2>2. Names(s) \subseteq Names(t)
    BY <1>1, <1>2, <1>4
  <2>3. e.name \in Names(t)
    BY <1>1, <1>2, <1>5
  <2> QED BY <2>1, <2>2, <2>3
<1>7. ASSUME DistinctNames(s), e.name \notin Names(s) PROVE DistinctNames(t)
  <2> SUFFICES ASSUME NEW i \in 1..Len(t), NEW j \in 1..Len(t), t[i].name = t[j].name PROVE i = j
    BY DEF DistinctNames
  <2>1. \A k \in 1..Len(s) : t[k].name = s[k].name /\ s[k].name # e.name
    BY <1>1, <1>2, <1>7
  <2>2. CASE i \in 1..Len(s) /\ j \in 1..Len(s)
    BY <1>7, <2>1, <2>2 DEF DistinctNames
  <2>3. CASE i = Len(s) + 1 \/ j = Len(s) + 1
    BY <1>1, <1>3, <2>1, <2>3
  <2> QED BY <1>3, <2>2, <2>3
<1> QED BY <1>6, <1>7 DEF t

LEMMA MoreAdded ==
    ASSUME NEW s \in Registry, NEW t \in Registry, Grown(s, t), NEW e \in Entries
    PROVE  /\ Grown(s, Append(t, e)) /\ Added(s, Append(t, e)) = Added(s, t) \cup {e.path}
<1> DEFINE u == Append(t, e)
<1>1. /\ Len(u) = Len(t) + 1 /\ Len(t) \in Nat /\ Len(s) \in Nat /\ Len(s) <= Len(t)
      /\ u[Len(t) + 1] = e /\ \A i \in 1..Len(t) : u[i] = t[i]
  BY OneMoreEntry DEF Grown, Registry
<1>2. \A i \in 1..Len(s) : i \in 1..Len(t) /\ t[i] = s[i]
  BY <1>1 DEF Grown
<1> HIDE DEF u
<1>3. Grown(s, u)
  BY <1>1, <1>2 DEF Grown
<1>4. /\ \A i \in (Len(s) + 1)..Len(u) : i \in (Len(s) + 1)..Len(t) \/ i = Len(t) + 1
      /\ \A i \in (Len(s) + 1)..Len(t) : i \in (Len(s) + 1)..Len(u) /\ i \in 1..Len(t)
      /\ Len(t) + 1 \in (Len(s) + 1)..Len(u)
  BY <1>1
<1>5. Added(s, u) \subseteq Added(s, t) \cup {e.path}
  BY <1>1, <1>4 DEF Added
<1>6. Added(s, t) \subseteq Added(s, u)
  BY <1>1, <1>4 DEF Added
<1>7. e.path \in Added(s, u)
  BY <1>1, <1>4 DEF Added
<1> QED BY <1>3, <1>5, <1>6, <1>7 DEF u

LEMMA ScanMoves ==
    ASSUME disk \in [Paths -> Files], skills \in Registry, NEW p \in Paths,
           NEW a, ScannedSoFar(a, p - 1)
    PROVE  ScannedSoFar(IF p \in Visible THEN ScanStep(a, p) ELSE a, p)
<1>1. /\ a \in ScanResult /\ a.entries \in Registry /\ p \in Nat
      /\ Names(a.entries) = FirstNames(p - 1)
      /\ (a.ended = "returned") <=> (\A s \in Stops : p - 1 < s)
  BY PathNumbers DEF ScannedSoFar, ScanResult
<1>2. CASE p \notin Visible
  <2>1. p \notin Stops /\ p \notin WouldAdd
    BY <1>2, PathOrder
  <2>2. ScannedSoFar(a, p)
    BY <1>1, <2>1, StillBefore, Unmoved
  <2> QED BY <1>2, <2>2
<1>3. ASSUME p \in Visible PROVE ScannedSoFar(ScanStep(a, p), p)
  <2>1. disk[p].kind \in {"skill", "malformed", "unreadable"} /\ ScanStep(a, p) \in ScanResult
    BY <1>1, <1>3, FileKinds, StepType
  <2>2. CASE a.ended # "returned"
    <3>1. ScanStep(a, p) = a
      BY <1>1, <1>3, <2>2, StepIs DEF Goes1
    <3>2. PICK s \in Stops : ~(p - 1 < s)
      BY <1>1, <2>2
    <3>3. s \in Nat /\ ~(p < s)
      BY <1>1, <3>2, PathNumbers, PathOrder
    <3>4. p \notin WouldAdd /\ ~(\A r \in Stops : p < r)
      BY <3>3 DEF WouldAdd
    <3> QED BY <1>1, <2>2, <3>1, <3>4, Unmoved
  <2>3. CASE a.ended = "returned" /\ disk[p].kind = "malformed"
    <3>1. ScanStep(a, p) = a
      BY <1>1, <1>3, <2>3, StepIs DEF Goes1
    <3>2. p \notin Stops /\ p \notin WouldAdd
      BY <2>3 DEF Stops, WouldAdd, Skilled
    <3> QED BY <1>1, <2>3, <3>1, <3>2, StillBefore, Unmoved
  <2>4. CASE a.ended = "returned" /\ disk[p].kind = "unreadable"
    <3>1. ScanStep(a, p) = [entries |-> a.entries, ended |-> "raised"]
      BY <1>1, <1>3, <2>4, StepIs DEF Goes1
    <3>2. p \in Stops
      BY <1>3, <2>4 DEF Stops
    <3>3. ScanStep(a, p).entries = a.entries /\ ScanStep(a, p).ended # "returned"
      BY <3>1
    <3> QED BY <1>1, <2>1, <3>2, <3>3, StoppedHere, Unmoved
  <2>5. CASE a.ended = "returned" /\ disk[p].kind = "skill" /\ Taken(a, p)
    <3>1. ScanStep(a, p) = [entries |-> a.entries, ended |-> "conflict"]
      BY <1>1, <1>3, <2>5, StepIs DEF Goes1
    <3>2. p \in Skilled
      BY <1>3, <2>5 DEF Skilled
    <3>3. p \in Stops
      BY <1>1, <2>5, <3>2, TakenStops DEF Taken
    <3>4. ScanStep(a, p).entries = a.entries /\ ScanStep(a, p).ended # "returned"
      BY <3>1
    <3> QED BY <1>1, <2>1, <3>3, <3>4, StoppedHere, Unmoved
  <2>6. CASE a.ended = "returned" /\ disk[p].kind = "skill" /\ ~Taken(a, p)
    <3> DEFINE e == LoadedFrom(p)
               b == ScanStep(a, p)
    <3>1. b = [entries |-> Append(a.entries, e), ended |-> "returned"]
      BY <1>1, <1>3, <2>6, StepIs DEF Goes1
    <3>2. p \in Skilled
      BY <1>3, <2>6 DEF Skilled
    <3>3. p \notin Stops /\ p \in WouldAdd
      BY <1>1, <2>6, <3>2, TakenStops DEF Taken
    <3>4. e \in Entries /\ e.name = disk[p].name /\ e.path = p
      BY <1>3, <2>6, FileKinds DEF LoadedFrom
    <3>5. Taken(a, p) <=> e.name \in Names(a.entries)
      BY <3>4 DEF Taken
    <3> HIDE DEF e
    <3>6. b.entries = Append(a.entries, e) /\ b.ended = "returned"
      BY <3>1
    <3> HIDE DEF b
    <3>7. \A s \in Stops : p < s
      BY <1>1, <2>6, <3>3, StillBefore
    <3>8. AddedTo(p) = AddedTo(p - 1) \cup {p}
      <4>1. \A q \in WouldAdd : q <= p <=> (q <= p - 1 \/ q = p)
        <5> TAKE q \in WouldAdd
        <5>1. q \in Nat
          BY PathNumbers, PathOrder
        <5> QED BY <1>1, <5>1
      <4> QED BY <3>3, <4>1 DEF AddedTo
    <3>9. FirstNames(p) = FirstNames(p - 1) \cup {e.name}
      BY <3>4, <3>8 DEF FirstNames
    <3>10. /\ Grown(skills, a.entries) /\ DistinctNames(a.entries)
           /\ Added(skills, a.entries) = AddedTo(p - 1)
      BY DEF ScannedSoFar
    <3>11. Grown(skills, b.entries) /\ Added(skills, b.entries) = AddedTo(p)
      BY <1>1, <3>4, <3>6, <3>8, <3>10, MoreAdded
    <3>12. DistinctNames(b.entries) /\ Names(b.entries) = FirstNames(p)
      BY <1>1, <2>6, <3>4, <3>5, <3>6, <3>9, <3>10, NamesOfMore
    <3>13. b \in ScanResult
      BY <2>1 DEF b
    <3>14. ScannedSoFar(b, p)
      BY <3>6, <3>7, <3>11, <3>12, <3>13 DEF ScannedSoFar
    <3> QED BY <3>14 DEF b
  <2> QED BY <2>1, <2>2, <2>3, <2>4, <2>5, <2>6
<1> QED BY <1>2, <1>3

LEMMA ScanDone ==
    ASSUME disk \in [Paths -> Files], skills \in Registry, DistinctNames(skills)
    PROVE  ScannedSoFar(ScannedTo[LastPath], LastPath)
<1> DEFINE n == LastPath
<1>1. PICK g : ScanRuns(g) /\ ScannedTo[n] = g[n]
  BY ScannedIs
<1> DEFINE P == {i \in 0..n : ScannedSoFar(g[i], i)}
<1>2. n \in Nat /\ Paths = 1..n
  BY PathNumbers
<1>3. 0 \in P
  BY <1>1, <1>2, NothingScanned DEF ScanRuns
<1>4. \A i \in 1..n : i - 1 \in P => i \in P
  <2> TAKE i \in 1..n
  <2> HAVE i - 1 \in P
  <2>1. ScannedSoFar(g[i - 1], i - 1) /\ i \in Paths /\ i \in 0..n
    BY <1>2
  <2>2. ScannedSoFar(IF i \in Visible THEN ScanStep(g[i - 1], i) ELSE g[i - 1], i)
    BY <2>1, ScanMoves
  <2>3. g[i] = IF i \in Visible THEN ScanStep(g[i - 1], i) ELSE g[i - 1]
    BY <1>1 DEF ScanRuns
  <2> QED BY <2>1, <2>2, <2>3
<1> HIDE DEF P
<1>5. \A i \in 0..n : i \in P
  BY <1>2, <1>3, <1>4, Induction
<1>6. n \in P
  BY <1>2, <1>5
<1> QED BY <1>1, <1>6 DEF P

-----------------------------------------------------------------------------
LEMMA SkillsFoundType ==
    ASSUME disk \in [Paths -> Files] PROVE SkillsFound \in Registry
<1> DEFINE n == LastPath
           b == <<>>
           Here(i) == i \in Visible /\ disk[i].kind = "skill"
           step == [i \in 1..n |-> [x \in Registry |-> IF Here(i) THEN Append(x, LoadedFrom(i)) ELSE x]]
           to == CHOOSE f : f = [i \in 0..n |-> IF i = 0 THEN <<>>
                   ELSE IF Here(i) THEN Append(f[i - 1], LoadedFrom(i)) ELSE f[i - 1]]
<1>1. n \in Nat /\ <<>> \in Registry /\ n \in 0..n
  BY PathNumbers DEF Registry
<1>2. /\ \A i \in 1..n, x \in Registry :
           step[i][x] = IF Here(i) THEN Append(x, LoadedFrom(i)) ELSE x
      /\ Steps(step, n, Registry)
  <2>1. \A i \in 1..n, x \in Registry :
           step[i][x] = IF Here(i) THEN Append(x, LoadedFrom(i)) ELSE x
    OBVIOUS
  <2>2. \A i \in 1..n, x \in Registry : Here(i) => Append(x, LoadedFrom(i)) \in Registry
    BY FileKinds, OneMoreEntry
  <2> HIDE DEF step, n, Here
  <2>3. \A i \in 1..n, x \in Registry : step[i][x] \in Registry
    BY <2>1, <2>2
  <2> QED BY <2>1, <2>3 DEF Steps
<1>3. PICK g : Goes(g, n, Registry, b, step)
  <2> HIDE DEF step, n
  <2> QED BY <1>1, <1>2, Recursion
<1>4. /\ g \in [0..n -> Registry] /\ g[0] = <<>>
      /\ \A i \in 1..n : i - 1 \in 0..n /\ i \in 0..n /\ i # 0
      /\ \A i \in 1..n : g[i] = IF Here(i) THEN Append(g[i - 1], LoadedFrom(i)) ELSE g[i - 1]
  <2>1. \A i \in 1..n : i - 1 \in 0..n /\ i \in 0..n /\ i # 0
    BY <1>1
  <2> HIDE DEF step, n, Here
  <2>2. g \in [0..n -> Registry] /\ g[0] = <<>> /\ \A i \in 1..n : g[i] = step[i][g[i - 1]]
    BY <1>3 DEF Goes
  <2>3. \A i \in 1..n : g[i - 1] \in Registry
    BY <2>1, <2>2
  <2> QED BY <1>2, <2>1, <2>2, <2>3
<1>5. g = [i \in 0..n |-> IF i = 0 THEN <<>>
             ELSE IF Here(i) THEN Append(g[i - 1], LoadedFrom(i)) ELSE g[i - 1]]
  <2>1. \A i \in 0..n : i = 0 \/ i \in 1..n
    BY <1>1
  <2> HIDE DEF n, Here
  <2> QED BY <1>4, <2>1
<1>6. to = [i \in 0..n |-> IF i = 0 THEN <<>>
              ELSE IF Here(i) THEN Append(to[i - 1], LoadedFrom(i)) ELSE to[i - 1]]
  BY <1>5
<1>7. SkillsFound = to[n]
  BY DEF SkillsFound, LastPath
<1> HIDE DEF to, n, step, Here
<1>8. to[0] = b /\ Unrolls(to, n, Registry, step)
  <2>1. to[0] = <<>>
    BY <1>1, <1>6
  <2>2. \A i \in 1..n : to[i] = IF Here(i) THEN Append(to[i - 1], LoadedFrom(i)) ELSE to[i - 1]
    BY <1>4, <1>6
  <2>3. ASSUME NEW i \in 1..n, to[i - 1] \in Registry PROVE to[i] = step[i][to[i - 1]]
    BY <1>2, <2>2, <2>3
  <2> QED BY <2>1, <2>3 DEF Unrolls
<1>9. to[n] = g[n]
  <2> HIDE DEF b
  <2>1. n \in Nat /\ to[0] = b
    BY <1>1, <1>8
  <2>2. \A i \in 0..n : to[i] = g[i]
    BY <1>3, <1>8, <2>1, Unrolled
  <2> QED BY <1>1, <2>2
<1> QED BY <1>1, <1>4, <1>7, <1>9

LEMMA LoaderInitially == LoaderInit => LoaderInv
<1> SUFFICES ASSUME LoaderInit PROVE LoaderInv
  OBVIOUS
<1>1. disk \in [Paths -> Files]
  BY DEF LoaderInit, Files
<1>2. skills \in Seq(Entries) /\ plugins \in Seq(PluginEntries) /\ Len(skills) = 0
  BY DEF LoaderInit
<1>3. edits \in 0..MaxEdits /\ scans \in 0..MaxScans /\ ended = "none"
  BY LoaderAssumption DEF LoaderInit
<1>4. DistinctNames(skills)
  BY <1>2 DEF DistinctNames
<1> QED BY <1>1, <1>2, <1>3, <1>4 DEF LoaderInv, LoaderTypeOK

\* What the actions on the registry of skills share.
LEMMA SkillsMove ==
    ASSUME LoaderInv, skills' \in Seq(Entries), DistinctNames(skills'),
           UNCHANGED <<disk, plugins, ended, edits, scans>>
    PROVE  LoaderInv'
  BY DEF LoaderInv, LoaderTypeOK, DistinctNames

LEMMA PluginsMove ==
    ASSUME LoaderInv, plugins' \in Seq(PluginEntries), UNCHANGED <<disk, skills, ended, edits, scans>>
    PROVE  LoaderInv'
  BY DEF LoaderInv, LoaderTypeOK, DistinctNames

LEMMA EditSafe ==
    ASSUME LoaderInv, NEW p \in Paths, NEW f \in Files, Edit(p, f) PROVE LoaderInv'
<1>1. edits' \in 0..MaxEdits
  BY LoaderAssumption DEF LoaderInv, LoaderTypeOK, Edit
<1>2. disk' \in [Paths -> Files]
  BY DEF LoaderInv, LoaderTypeOK, Edit
<1> QED BY <1>1, <1>2 DEF LoaderInv, LoaderTypeOK, Edit, DistinctNames

LEMMA RegisterSkillSafe ==
    ASSUME LoaderInv, NEW p \in Paths, RegisterSkill(p) PROVE LoaderInv'
<1>1. /\ disk \in [Paths -> Files] /\ skills \in Registry /\ DistinctNames(skills)
      /\ disk[p].kind = "skill" /\ disk[p].name \notin Names(skills)
      /\ skills' = Append(skills, LoadedFrom(p))
      /\ UNCHANGED <<disk, plugins, ended, edits, scans>>
  BY DEF LoaderInv, LoaderTypeOK, RegisterSkill, Registry
<1>2. LoadedFrom(p) \in Entries /\ LoadedFrom(p).name = disk[p].name
  BY <1>1, SkillFile DEF LoadedFrom
<1>3. Append(skills, LoadedFrom(p)) \in Registry
  BY <1>1, <1>2, OneMoreEntry
<1>4. DistinctNames(Append(skills, LoadedFrom(p)))
  BY <1>1, <1>2, NamesOfMore
<1> QED BY <1>1, <1>3, <1>4, SkillsMove DEF Registry

LEMMA LoadSafe ==
    ASSUME LoaderInv, NEW i \in DOMAIN skills, Load(i) PROVE LoaderInv'
<1> DEFINE e == skills[i]
           f == disk[e.path]
           d == [e EXCEPT !.body = f.body]
<1>1. /\ disk \in [Paths -> Files] /\ skills \in Seq(Entries) /\ DistinctNames(skills)
      /\ f.kind = "skill" /\ skills' = [skills EXCEPT ![i] = d]
      /\ UNCHANGED <<disk, plugins, ended, edits, scans>>
  BY DEF LoaderInv, LoaderTypeOK, Load
<1>2. i \in 1..Len(skills) /\ e \in Entries
  BY <1>1, ElementOfSeq
<1>3. e.path \in Paths
  BY <1>2 DEF Entries
<1>4. f.body \in Bodies
  BY <1>1, <1>3, SkillFile
<1>5. d \in Entries /\ d.name = e.name
  BY <1>2, <1>4 DEF Entries
<1> HIDE DEF d, f
<1>6. skills' \in Seq(Entries) /\ Len(skills') = Len(skills)
  BY <1>1, <1>2, <1>5
<1>7. \A j \in 1..Len(skills) : skills'[j].name = skills[j].name
  BY <1>1, <1>2, <1>5
<1>8. DistinctNames(skills')
  BY <1>1, <1>6, <1>7 DEF DistinctNames
<1> QED BY <1>1, <1>6, <1>8, SkillsMove

LEMMA RegisterDirectorySafe == ASSUME LoaderInv, RegisterDirectory PROVE LoaderInv'
<1> DEFINE a == ScannedTo[LastPath]
<1>1. /\ disk \in [Paths -> Files] /\ skills \in Registry /\ DistinctNames(skills)
      /\ skills' = a.entries /\ ended' = a.ended /\ UNCHANGED <<disk, plugins, edits>>
      /\ scans' \in 0..MaxScans
  BY LoaderAssumption DEF LoaderInv, LoaderTypeOK, RegisterDirectory, Registry, LastPath
<1>2. a \in ScanResult /\ DistinctNames(a.entries)
  BY <1>1, ScanDone DEF ScannedSoFar
<1> HIDE DEF a
<1>3. skills' \in Seq(Entries) /\ ended' \in {"none", "returned", "conflict", "raised"}
  BY <1>1, <1>2 DEF ScanResult, Registry
<1> QED BY <1>1, <1>2, <1>3 DEF LoaderInv, LoaderTypeOK, DistinctNames

LEMMA RegisterPluginSafe ==
    ASSUME LoaderInv, NEW d \in DOMAIN Bundles, RegisterPlugin(d) PROVE LoaderInv'
<1>1. /\ disk \in [Paths -> Files] /\ plugins \in Seq(PluginEntries)
      /\ plugins' = Append(plugins, Loaded(d)) /\ UNCHANGED <<disk, skills, ended, edits, scans>>
  BY DEF LoaderInv, LoaderTypeOK, RegisterPlugin
<1>2. SkillsFound \in Seq(Entries)
  BY <1>1, SkillsFoundType DEF Registry
<1>3. Loaded(d) \in PluginEntries
  BY <1>2 DEF Loaded, PluginEntries
<1>4. plugins' \in Seq(PluginEntries)
  BY <1>1, <1>3, AppendProperties
<1> QED BY <1>1, <1>4, PluginsMove

LEMMA SetActiveSafe ==
    ASSUME LoaderInv, NEW i \in DOMAIN plugins, NEW b \in BOOLEAN, SetActive(i, b) PROVE LoaderInv'
<1> DEFINE e == [plugins[i] EXCEPT !.active = b]
<1>1. /\ plugins \in Seq(PluginEntries) /\ plugins' = [plugins EXCEPT ![i] = e]
      /\ UNCHANGED <<disk, skills, ended, edits, scans>>
  BY DEF LoaderInv, LoaderTypeOK, SetActive
<1>2. i \in 1..Len(plugins) /\ plugins[i] \in PluginEntries
  BY <1>1, ElementOfSeq
<1>3. e \in PluginEntries
  BY <1>2 DEF PluginEntries
<1> HIDE DEF e
<1>4. plugins' \in Seq(PluginEntries)
  BY <1>1, <1>2, <1>3
<1> QED BY <1>1, <1>4, PluginsMove

LEMMA LoaderStep == ASSUME LoaderInv, [LoaderNext]_loaderVars PROVE LoaderInv'
<1>1. ASSUME NEW p \in Paths, RegisterSkill(p) PROVE LoaderInv'
  BY <1>1, RegisterSkillSafe
<1>2. ASSUME NEW p \in Paths, NEW f \in Files, Edit(p, f) PROVE LoaderInv'
  BY <1>2, EditSafe
<1>3. ASSUME RegisterDirectory PROVE LoaderInv'
  BY <1>3, RegisterDirectorySafe
<1>4. ASSUME ClearSkills PROVE LoaderInv'
  <2>1. skills' \in Seq(Entries) /\ Len(skills') = 0 /\ UNCHANGED <<disk, plugins, ended, edits, scans>>
    BY <1>4 DEF ClearSkills
  <2>2. DistinctNames(skills')
    BY <2>1 DEF DistinctNames
  <2> QED BY <2>1, <2>2, SkillsMove
<1>5. ASSUME ClearPlugins PROVE LoaderInv'
  <2>1. plugins' \in Seq(PluginEntries) /\ UNCHANGED <<disk, skills, ended, edits, scans>>
    BY <1>5 DEF ClearPlugins
  <2> QED BY <2>1, PluginsMove
<1>6. ASSUME NEW i \in DOMAIN skills, Load(i) PROVE LoaderInv'
  BY <1>6, LoadSafe
<1>7. ASSUME NEW d \in DOMAIN Bundles, RegisterPlugin(d) PROVE LoaderInv'
  BY <1>7, RegisterPluginSafe
<1>8. ASSUME NEW i \in DOMAIN plugins, NEW b \in BOOLEAN, SetActive(i, b) PROVE LoaderInv'
  BY <1>8, SetActiveSafe
<1>9. CASE UNCHANGED loaderVars
  BY <1>9 DEF loaderVars, LoaderInv, LoaderTypeOK, DistinctNames
<1> QED BY <1>1, <1>2, <1>3, <1>4, <1>5, <1>6, <1>7, <1>8, <1>9 DEF LoaderNext

LEMMA LoaderInvHolds == LoaderSpec => []LoaderInv
<1>1. LoaderInv /\ [LoaderNext]_loaderVars => LoaderInv'
  BY LoaderStep
<1> QED BY <1>1, LoaderInitially, PTL DEF LoaderSpec

-----------------------------------------------------------------------------
LEMMA NamesCount ==
    ASSUME NEW s \in Registry, DistinctNames(s) PROVE Cardinality(Names(s)) = Len(s)
<1> DEFINE n == Len(s)
           f == [i \in 1..n |-> s[i].name]
<1>1. n \in Nat /\ Names(s) = {s[i].name : i \in 1..n}
  <2>1. DOMAIN s = 1..Len(s) /\ Len(s) \in Nat
    BY LenProperties DEF Registry
  <2> QED BY <2>1 DEF Names
<1>2. f \in [1..n -> Names(s)]
  BY <1>1
<1>3. \A i, j \in 1..n : f[i] = f[j] => i = j
  BY DEF DistinctNames
<1>4. \A x \in Names(s) : \E i \in 1..n : f[i] = x
  BY <1>1
<1> HIDE DEF f, n
<1>5. f \in Bijection(1..n, Names(s))
  BY <1>2, <1>3, <1>4, Fun_IsBij
<1> QED BY <1>1, <1>5, FS_CountingElements DEF ExistsBijection, n

LEMMA GrownIsPrefix ==
    ASSUME NEW s \in Registry, NEW t \in Registry, Grown(s, t) PROVE IsPrefix(s, t)
<1> DEFINE n == Len(s)
           a == SubSeq(s, 1, n)
           b == SubSeq(t, 1, n)
<1>1. /\ n \in Nat /\ n \in Int /\ 1 \in Int /\ n - 1 + 1 = n /\ (1 <= n \/ n = 0)
      /\ Len(t) \in Nat /\ n <= Len(t) /\ \A i \in 1..n : t[i] = s[i]
  BY DEF Grown, Registry
<1>2. /\ \A i \in 1..n : s[i] \in Entries
      /\ \A i \in 1..n : t[i] \in Entries
  <2>1. \A i \in 1..n : s[i] \in Entries
    BY ElementOfSeq DEF Registry
  <2> QED BY <1>1, <2>1
<1>3. a \in Seq(Entries) /\ Len(a) = n /\ \A i \in 1..n : a[i] = s[i]
  BY <1>1, <1>2, SubSeqProperties
<1>4. b \in Seq(Entries) /\ Len(b) = n /\ \A i \in 1..n : b[i] = t[i]
  BY <1>1, <1>2, SubSeqProperties
<1>5. a = b
  BY <1>1, <1>3, <1>4, SeqEqual
<1> QED BY <1>1, <1>5 DEF IsPrefix

\* A scan that met no trouble added all the skills there are, and only then.
LEMMA ScanWhole ==
    (\A s \in Stops : LastPath < s) <=>
        (WouldAdd = Skilled /\ \A p \in Visible : disk[p].kind # "unreadable")
<1>1. \A s \in Stops : ~(LastPath < s) /\ ~(s < s)
  <2>1. \A p \in Paths : p \in Nat /\ ~(LastPath < p) /\ ~(p < p)
    BY PathNumbers
  <2> QED BY <2>1, PathOrder
<1>2. ASSUME Stops = {} PROVE WouldAdd = Skilled /\ \A p \in Visible : disk[p].kind # "unreadable"
  BY <1>2 DEF WouldAdd, Stops
<1>3. ASSUME WouldAdd = Skilled, \A p \in Visible : disk[p].kind # "unreadable" PROVE Stops = {}
  <2> SUFFICES ASSUME NEW s \in Stops PROVE FALSE
    OBVIOUS
  <2>1. s \in WouldAdd
    BY <1>3 DEF Stops
  <2>2. s < s
    BY <2>1 DEF WouldAdd
  <2> QED BY <1>1, <2>2
<1>4. (\A s \in Stops : LastPath < s) <=> Stops = {}
  BY <1>1
<1> QED BY <1>2, <1>3, <1>4

\* register_directory registers what stands before the first file that cannot be
\* read or whose name is taken, reports whether that was all, and replaces no
\* entry, whatever the paths, the files and the skills registered before.
THEOREM ScanPrefixHolds == LoaderSpec => ScanKeepsPrefix
<1>1. ASSUME LoaderInv, [LoaderNext]_loaderVars, scans' # scans
      PROVE  /\ IsPrefix(skills, skills')
             /\ Added(skills, skills') = WouldAdd
             /\ Cardinality(Names(skills')) = Len(skills')
             /\ (ended' = "returned") <=>
                  WouldAdd = Skilled /\ \A p \in Visible : disk[p].kind # "unreadable"
  <2>1. RegisterDirectory
    BY <1>1 DEF LoaderNext, loaderVars, RegisterSkill, Edit, ClearSkills, ClearPlugins, Load,
                RegisterPlugin, SetActive
  <2> DEFINE a == ScannedTo[LastPath]
  <2>2. skills' = a.entries /\ ended' = a.ended
    BY <2>1 DEF RegisterDirectory, LastPath
  <2>3. disk \in [Paths -> Files] /\ skills \in Registry /\ DistinctNames(skills)
    BY <1>1 DEF LoaderInv, LoaderTypeOK, Registry
  <2>4. ScannedSoFar(a, LastPath)
    BY <2>3, ScanDone
  <2> HIDE DEF a
  <2>5. /\ skills' \in Registry /\ Grown(skills, skills') /\ DistinctNames(skills')
        /\ Added(skills, skills') = AddedTo(LastPath)
        /\ (ended' = "returned") <=> (\A s \in Stops : LastPath < s)
    BY <2>2, <2>4 DEF ScannedSoFar, ScanResult
  <2>6. AddedTo(LastPath) = WouldAdd
    <3>1. \A p \in Paths : p <= LastPath
      BY PathNumbers
    <3> QED BY <3>1, PathOrder DEF AddedTo
  <2> QED BY <2>3, <2>5, <2>6, GrownIsPrefix, NamesCount, ScanWhole
<1> QED BY <1>1, LoaderInvHolds, PTL DEF LoaderSpec, ScanKeepsPrefix

-----------------------------------------------------------------------------
(* The types of the parts, and the parts side by side *)

LEMMA GateTypeHolds == GateSpec => []GateTypeOK
<1>1. GateInv => GateTypeOK
  BY DEF GateInv
<1> QED BY <1>1, GateInvHolds, PTL

LEMMA BridgeTypeHolds == BridgeSpec => []BridgeTypeOK
<1>1. BridgeInv => BridgeTypeOK
  BY DEF BridgeInv
<1> QED BY <1>1, BridgeInvHolds, PTL

LEMMA ConnectorTypeHolds == ConnectorSpec => []ConnectorTypeOK
<1>1. ConnectorInv => ConnectorTypeOK
  BY DEF ConnectorInv
<1> QED BY <1>1, ConnectorBegins, ConnectorStep, PTL DEF ConnectorSpec

LEMMA McpTypeHolds == McpSpec => []McpTypeOK
<1>1. McpInv => McpTypeOK
  BY DEF McpInv
<1> QED BY <1>1, McpInvHolds, PTL

LEMMA StreamTypeHolds == StreamSpec => []StreamTypeOK
  BY StreamTypes, StreamInvHolds, PTL

LEMMA LoaderTypeHolds == LoaderSpec => []LoaderTypeOK
<1>1. LoaderInv => LoaderTypeOK
  BY DEF LoaderInv
<1> QED BY <1>1, LoaderInvHolds, PTL

LEMMA WithoutType ==
    ASSUME NEW S, NEW s \in Seq(S), NEW e PROVE Without(s, e) \in Seq(S)
<1> DEFINE n == Len(s)
           step == [i \in 1..n |-> [x \in Seq(S) |-> IF s[i] # e THEN Append(x, s[i]) ELSE x]]
           kept == CHOOSE f : f = [i \in 0..n |-> IF i = 0 THEN <<>>
                     ELSE IF s[i] # e THEN Append(f[i - 1], s[i]) ELSE f[i - 1]]
<1>1. n \in Nat /\ <<>> \in Seq(S) /\ n \in 0..n
  OBVIOUS
<1>2. /\ \A i \in 1..n, x \in Seq(S) : step[i][x] = IF s[i] # e THEN Append(x, s[i]) ELSE x
      /\ Steps(step, n, Seq(S))
  <2>1. \A i \in 1..n, x \in Seq(S) : step[i][x] = IF s[i] # e THEN Append(x, s[i]) ELSE x
    OBVIOUS
  <2>2. \A i \in 1..n, x \in Seq(S) : Append(x, s[i]) \in Seq(S)
    BY ElementOfSeq, AppendProperties
  <2> HIDE DEF step, n
  <2>3. \A i \in 1..n, x \in Seq(S) : step[i][x] \in Seq(S)
    BY <2>1, <2>2
  <2> QED BY <2>1, <2>3 DEF Steps
<1>3. PICK g : Goes(g, n, Seq(S), <<>>, step)
  <2> HIDE DEF step, n
  <2> QED BY <1>1, <1>2, Recursion
<1>4. /\ g \in [0..n -> Seq(S)] /\ g[0] = <<>>
      /\ \A i \in 1..n : i - 1 \in 0..n /\ i \in 0..n /\ i # 0
      /\ \A i \in 1..n : g[i] = IF s[i] # e THEN Append(g[i - 1], s[i]) ELSE g[i - 1]
  <2>1. \A i \in 1..n : i - 1 \in 0..n /\ i \in 0..n /\ i # 0
    BY <1>1
  <2> HIDE DEF step, n
  <2>2. g \in [0..n -> Seq(S)] /\ g[0] = <<>> /\ \A i \in 1..n : g[i] = step[i][g[i - 1]]
    BY <1>3 DEF Goes
  <2>3. \A i \in 1..n : g[i - 1] \in Seq(S)
    BY <2>1, <2>2
  <2> QED BY <1>2, <2>1, <2>2, <2>3
<1>5. g = [i \in 0..n |-> IF i = 0 THEN <<>>
             ELSE IF s[i] # e THEN Append(g[i - 1], s[i]) ELSE g[i - 1]]
  <2>1. \A i \in 0..n : i = 0 \/ i \in 1..n
    BY <1>1
  <2> HIDE DEF n
  <2> QED BY <1>4, <2>1
<1>6. kept = [i \in 0..n |-> IF i = 0 THEN <<>>
                ELSE IF s[i] # e THEN Append(kept[i - 1], s[i]) ELSE kept[i - 1]]
  BY <1>5
<1>7. Without(s, e) = kept[n]
  BY DEF Without
<1> HIDE DEF kept, n, step
<1>8. kept[0] = <<>> /\ Unrolls(kept, n, Seq(S), step)
  <2>1. kept[0] = <<>>
    BY <1>1, <1>6
  <2>2. \A i \in 1..n : kept[i] = IF s[i] # e THEN Append(kept[i - 1], s[i]) ELSE kept[i - 1]
    BY <1>4, <1>6
  <2>3. ASSUME NEW i \in 1..n, kept[i - 1] \in Seq(S) PROVE kept[i] = step[i][kept[i - 1]]
    BY <1>2, <2>2, <2>3
  <2> QED BY <2>1, <2>3 DEF Unrolls
<1>9. kept[n] = g[n]
  <2>1. \A i \in 0..n : kept[i] = g[i]
    BY <1>1, <1>3, <1>8, Unrolled
  <2> QED BY <1>1, <2>1
<1> QED BY <1>1, <1>4, <1>7, <1>9

\* What no token depends on, and how often an endpoint can grant.
SubscribedTyped ==
    /\ granted \in [Stored -> 1..MaxGrants] /\ subscriptions \in [Stored -> Seq(EventTypes)]

LEMMA ServiceTypeHolds == ServiceSpec => []ServiceTypeOK
<1>1. ServiceInit => SubscribedTyped
  BY ServiceAssumption, EmptySeq DEF ServiceInit, SubscribedTyped
<1>2. ServiceInv /\ SubscribedTyped /\ [ServiceNext]_serviceVars => SubscribedTyped'
  <2> SUFFICES ASSUME ServiceInv, SubscribedTyped, [ServiceNext]_serviceVars PROVE SubscribedTyped'
    OBVIOUS
  <2>1. \/ UNCHANGED <<granted, subscriptions>>
        \/ \E r \in Requests : EndpointGrants(r)
        \/ \E r \in Requests, c \in Stored, e \in EventTypes : Subscribe(r, c, e) \/ Unsubscribe(r, c, e)
    BY Zenon DEF ServiceNext, Handlers, GraceEnds, serviceVars, NotFound, EndpointRefuses, TokensStored, AnswerLost, SendingEnds,
                 RefreshPosted, Refused, AnsweredAtOnce, Sent
  <2>2. CASE UNCHANGED <<granted, subscriptions>>
    BY <2>2 DEF SubscribedTyped
  <2>3. ASSUME NEW r \in Requests, EndpointGrants(r) PROVE SubscribedTyped'
    <3> DEFINE c == request[r].id
               n == granted[c] + 1
    <3>1. /\ request[r].pc = "posted" /\ n <= MaxGrants /\ granted' = [granted EXCEPT ![c] = n]
          /\ subscriptions' = subscriptions
      BY <2>3 DEF EndpointGrants
    <3>2. c \in Stored
      BY <3>1 DEF ServiceInv, TokensTyped
    <3>3. granted[c] \in 1..MaxGrants /\ MaxGrants \in Nat
      BY <3>2, ServiceAssumption DEF SubscribedTyped
    <3>4. n \in 1..MaxGrants
      BY <3>1, <3>3
    <3> QED BY <3>1, <3>4 DEF SubscribedTyped
  <2>4. ASSUME NEW r \in Requests, NEW c \in Stored, NEW e \in EventTypes, Subscribe(r, c, e)
        PROVE  SubscribedTyped'
    <3>1. subscriptions' = [subscriptions EXCEPT ![c] = Append(subscriptions[c], e)] /\ granted' = granted
      BY <2>4 DEF Subscribe
    <3>2. Append(subscriptions[c], e) \in Seq(EventTypes)
      BY AppendProperties DEF SubscribedTyped
    <3> QED BY <3>1, <3>2 DEF SubscribedTyped
  <2>5. ASSUME NEW r \in Requests, NEW c \in Stored, NEW e \in EventTypes, Unsubscribe(r, c, e)
        PROVE  SubscribedTyped'
    <3>1. subscriptions' = [subscriptions EXCEPT ![c] = Without(subscriptions[c], e)] /\ granted' = granted
      BY <2>5 DEF Unsubscribe
    <3>2. Without(subscriptions[c], e) \in Seq(EventTypes)
      BY WithoutType DEF SubscribedTyped
    <3> QED BY <3>1, <3>2 DEF SubscribedTyped
  <2> QED BY <2>1, <2>2, <2>3, <2>4, <2>5
<1>3. ServiceInv /\ SubscribedTyped => ServiceTypeOK
  BY DEF ServiceInv, TokensTyped, SubscribedTyped, ServiceTypeOK
<1> QED BY <1>1, <1>2, <1>3, ServiceInvHolds, PTL DEF ServiceSpec

\* What the run explores: every behaviour of the composition is one of each part, so
\* all that is proved of a part holds of it there.
THEOREM EdgePartsApart ==
    Spec => /\ ConnectorSpec /\ McpSpec /\ ServiceSpec /\ BridgeSpec
            /\ LoaderSpec /\ StreamSpec /\ GateSpec
<1>1. Init => /\ ConnectorInit /\ McpInit /\ ServiceInit /\ BridgeInit
              /\ LoaderInit /\ StreamInit /\ GateInit
  BY DEF Init
<1>2. [Next]_vars => /\ [ConnectorNext]_connectorVars /\ [McpNext]_mcpVars
                     /\ [ServiceNext]_serviceVars /\ [BridgeNext]_bridgeVars
                     /\ [LoaderNext]_loaderVars /\ [StreamNext]_streamVars
                     /\ [GateNext]_gateVars
  BY Zenon DEF Next, ConnectorSide, ChatSide, vars, connectorSideVars, chatSideVars
<1> QED BY <1>1, <1>2, PTL DEF Spec, ConnectorSpec, McpSpec, ServiceSpec, BridgeSpec,
                              LoaderSpec, StreamSpec, GateSpec

\* Every variable of every part stays in its type, for any constants.
THEOREM EdgeTypeHolds == Spec => []EdgeTypeOK
<1>1. /\ ConnectorTypeOK /\ McpTypeOK /\ ServiceTypeOK /\ BridgeTypeOK
      /\ LoaderTypeOK /\ StreamTypeOK /\ GateTypeOK
      => EdgeTypeOK
  BY DEF EdgeTypeOK
<1> QED BY <1>1, EdgePartsApart, ConnectorTypeHolds, McpTypeHolds, ServiceTypeHolds, BridgeTypeHolds,
           LoaderTypeHolds, StreamTypeHolds, GateTypeHolds, PTL
===============================================================================
