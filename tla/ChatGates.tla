------------------------------ MODULE ChatGates ------------------------------
(***************************************************************************)
(* What stands before a chat turn in agentcook_app: the Turnstile check of *)
(* chat_stream (routers/chat.py, middleware/turnstile.py) and the choice   *)
(* of a model by quota (middleware/quota.py), which chat_stream does not   *)
(* call yet.                                                               *)
(*                                                                         *)
(* Both ask a service over HTTP and decide on its answer, on its failure   *)
(* or on its silence.  Cloudflare redeems a token once; the answer to a    *)
(* redemption may be lost.                                                 *)
(***************************************************************************)
EXTENDS Naturals, FiniteSets

CONSTANTS
    Visits,         \* requests
    VisitTokens,    \* Turnstile tokens
    NoVisitToken,   \* no header, or a blank one
    Accounts,       \* users; Anonymous is none
    Anonymous,
    FreeQuota       \* AGENTCOOK_FREE_QUOTA_DEFAULT

ASSUME GateAssumption ==
    /\ NoVisitToken \notin VisitTokens /\ Anonymous \notin Accounts /\ FreeQuota \in Nat

VARIABLES
    gate,           \* the environment: [enforce, mock, short, upstream]
    genuine,        \* tokens Cloudflare issued
    redeemed,       \* token -> the requests Cloudflare vouched for with it
    asked,          \* account -> questions it has asked, as in Java's table
    visit           \* what each request does

gateVars == <<gate, genuine, redeemed, asked, visit>>

VisitState == [at : {"new", "verifying", "told", "looking", "over"},
               token : VisitTokens \cup {NoVisitToken},
               success : BOOLEAN,
               account : Accounts \cup {Anonymous},
               answer : {"none", "admitted", "bad_request", "rejected", "raised",
                         "primary", "fallback", "override"}]

FreshVisit == [at |-> "new", token |-> NoVisitToken, success |-> FALSE,
               account |-> Anonymous, answer |-> "none"]

GateInit ==
    /\ gate \in [enforce : BOOLEAN, mock : BOOLEAN, short : BOOLEAN, upstream : BOOLEAN]
    /\ genuine \in SUBSET VisitTokens /\ redeemed = [t \in VisitTokens |-> {}]
    /\ asked \in [Accounts -> 0..FreeQuota]
    /\ visit = [v \in Visits |-> FreshVisit]

-----------------------------------------------------------------------------
(* Turnstile *)

\* _turnstile_enforced, and the modes of verify that ask nobody.
Enforced == gate.enforce /\ ~gate.mock
AsksNobody == gate.short \/ ~gate.upstream

\* What chat_stream does before its first await.
Arrive(v, blankSession, t) ==
    LET over(answer) == [FreshVisit EXCEPT !.at = "over", !.token = t, !.answer = answer] IN
    /\ visit[v].at = "new"
    /\ visit' = [visit EXCEPT ![v] =
         CASE blankSession -> over("bad_request")
           [] ~blankSession /\ (~Enforced \/ AsksNobody) -> over("admitted")
           [] ~blankSession /\ Enforced /\ ~AsksNobody /\ t = NoVisitToken -> over("rejected")
           [] OTHER -> [FreshVisit EXCEPT !.at = "verifying", !.token = t]]
    /\ UNCHANGED <<gate, genuine, redeemed, asked>>

\* Cloudflare, itself or behind the Worker, gets the request.
Redeem(v) ==
    LET t == visit[v].token
        good == t \in genuine /\ redeemed[t] = {} IN
    /\ visit[v].at = "verifying"
    /\ redeemed' = IF good THEN [redeemed EXCEPT ![t] = {v}] ELSE redeemed
    /\ visit' = [visit EXCEPT ![v] = [@ EXCEPT !.at = "told", !.success = good]]
    /\ UNCHANGED <<gate, genuine, asked>>

\* Slip: everything that is no refusal passes.
VerdictOpen(outcome, success) ==
    IF outcome = "answered" /\ ~success THEN "rejected" ELSE "admitted"

\* _call_upstream: an error of the connection, a status from 500 on and a body that
\* is no JSON reject; JSON that is no object raises, which is a 500; any other body
\* is read, whatever the status below 500.
Verdict(outcome, success) ==
    CASE outcome = "answered" /\ success -> "admitted"
      [] outcome = "odd" -> "raised"
      [] OTHER -> "rejected"

\* The answer comes, or something else instead of it, before or after the redemption.
Decide(v, outcome) ==
    /\ visit[v].at \in {"verifying", "told"}
    /\ outcome = "answered" => visit[v].at = "told"
    /\ visit' = [visit EXCEPT ![v] = [@ EXCEPT !.at = "over", !.answer = Verdict(outcome, visit[v].success)]]
    /\ UNCHANGED <<gate, genuine, redeemed, asked>>

-----------------------------------------------------------------------------
(* Quota *)

\* resolve, up to the lookup.
Resolve(v, account, override) ==
    /\ visit[v].at = "new"
    /\ visit' = [visit EXCEPT ![v] =
         CASE override -> [FreshVisit EXCEPT !.at = "over", !.answer = "override"]
           [] ~override /\ account = Anonymous -> [FreshVisit EXCEPT !.at = "over", !.answer = "fallback"]
           [] OTHER -> [FreshVisit EXCEPT !.at = "looking", !.account = account]]
    /\ UNCHANGED <<gate, genuine, redeemed, asked>>

\* QuotaResponse has these keys; _fetch_java_quota returns it unchanged.
QuotaAnswer(account) ==
    [used |-> asked[account], quota |-> FreeQuota, remaining |-> FreeQuota - asked[account]]
GetOr(answer, key, default) == IF key \in DOMAIN answer THEN answer[key] ELSE default

\* resolve, after the lookup: a status that is not 200, an error of the connection
\* and a body that is no JSON count as no answer.
Choose(v, answered) ==
    LET info == QuotaAnswer(visit[v].account)
        within == GetOr(info, "free_questions_used", 0) < GetOr(info, "free_questions_quota", FreeQuota) IN
    /\ visit[v].at = "looking"
    /\ visit' = [visit EXCEPT ![v] =
         [@ EXCEPT !.at = "over", !.answer = IF answered /\ within THEN "primary" ELSE "fallback"]]
    /\ UNCHANGED <<gate, genuine, redeemed, asked>>

GateNext ==
    \E v \in Visits :
        \/ \E b \in BOOLEAN, t \in VisitTokens \cup {NoVisitToken} : Arrive(v, b, t)
        \/ Redeem(v)
        \/ \E outcome \in {"answered", "unreachable", "status5xx", "garbled", "odd"} : Decide(v, outcome)
        \/ \E account \in Accounts \cup {Anonymous}, b \in BOOLEAN : Resolve(v, account, b)
        \/ \E b \in BOOLEAN : Choose(v, b)

GateSpec == GateInit /\ [][GateNext]_gateVars

-----------------------------------------------------------------------------
GateTypeOK ==
    /\ gate \in [enforce : BOOLEAN, mock : BOOLEAN, short : BOOLEAN, upstream : BOOLEAN]
    /\ genuine \subseteq VisitTokens /\ redeemed \in [VisitTokens -> SUBSET Visits]
    /\ asked \in [Accounts -> 0..FreeQuota] /\ visit \in [Visits -> VisitState]

\* No failure opens the gate: where tokens are enforced and there is an upstream to
\* ask, every turn that was let in had a genuine token which Cloudflare redeemed for
\* that very request, so that no token lets two turns in, whatever answers were lost
\* and whoever sent the token again.
GateFailsClosed ==
    Enforced /\ ~AsksNobody =>
        \A v \in Visits : visit[v].answer = "admitted" =>
            /\ visit[v].token \in genuine
            /\ redeemed[visit[v].token] = {v}
=============================================================================
