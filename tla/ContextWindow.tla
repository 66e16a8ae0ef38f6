---------------------------- MODULE ContextWindow ----------------------------
(***************************************************************************)
(* agentcook_core/compaction.py and pruning.py: the strategies that shrink *)
(* the messages sent to a model, applied again and again to a conversation *)
(* that grows in between.                                                  *)
(*                                                                         *)
(* A message has an identity, which the code does not see, so that what a  *)
(* strategy keeps can be told from what it drops.  Texts, tool calls and   *)
(* token counts are data.  A similarity times a decay that falls with age  *)
(* reaches min_score up to some age: FadesAfter gives it for two texts.    *)
(***************************************************************************)
EXTENDS Integers, Sequences, SequencesExt

CONSTANTS
    Kinds,          \* messages people and models write: [role, text, call, tok]
    NoText, NoCall, \* empty content, no tool calls
    FadesAfter,     \* <<anchor, text>> -> last age at which it is relevant, or -1
    Preamble,       \* token counts of the identity provider's messages
    Clipped,        \* texts longer than the preview a summarizer is given
    SummaryTok,     \* content of a summary message -> its tokens
    Unavailable,    \* the content that says that the summarizer's model failed
    KeepRecent, MinToSummarize,         \* SummaryCompaction
    WindowSize,                         \* SlidingWindowCompaction
    Budget, MinRecent,                  \* TokenBudgetPruning
    ProtectRelevant, ProtectDuplicate,  \* protect_recent of the two pruners
    MaxSaid,        \* bound: messages said
    MaxShrinks      \* bound: strategies applied

Roles == {"system", "user", "assistant", "tool"}
Answers == DOMAIN SummaryTok

ASSUME ContextAssumption ==
    /\ KeepRecent \in Nat \ {0} /\ MinToSummarize \in Nat \ {0} /\ WindowSize \in Nat \ {0}
    /\ MinRecent \in Nat \ {0} /\ ProtectRelevant \in Nat /\ ProtectDuplicate \in Nat
    /\ MaxSaid \in Nat /\ MaxShrinks \in Nat
    /\ Budget \in Nat /\ Preamble \in Seq(Nat)
    /\ SummaryTok \in [Answers -> Nat] /\ Unavailable \in Answers
    \* Only an assistant's message has tool calls (types.py, Message).
    /\ \A k \in Kinds : /\ k.role \in Roles /\ k.tok \in Nat
                        /\ k.call # NoCall => k.role = "assistant"

VARIABLES
    context,        \* the messages
    said, shrinks,  \* messages said, strategies applied
    gone,           \* ids a lossy strategy or a failed summarizer dropped (history)
    clipped,        \* ids whose content a summarizer was not given in full (history)
    last            \* the latest strategy, its input and its result (history)

contextVars == <<context, said, shrinks, gone, clipped, last>>

Message == [id : Nat, role : Roles, text : {k.text : k \in Kinds} \cup {NoText} \cup Answers,
            call : {k.call : k \in Kinds} \cup {NoCall}, tok : Nat, covers : SUBSET Nat]

AsMessage(k, id) == [id |-> id, role |-> k.role, text |-> k.text, call |-> k.call, tok |-> k.tok, covers |-> {}]
System(text, tok, covers) == [id |-> 0, role |-> "system", text |-> text, call |-> NoCall, tok |-> tok, covers |-> covers]

Tokens(s) ==
    LET sum[i \in 0..Len(s)] == IF i = 0 THEN 0 ELSE sum[i - 1] + s[i].tok IN sum[Len(s)]
Ids(s) == {s[i].id : i \in DOMAIN s} \ {0}
Covered(s) == UNION {s[i].covers : i \in DOMAIN s}
LastOf(s, n) == SubSeq(s, Len(s) - n + 1, Len(s))
AllBut(s, n) == SubSeq(s, 1, Len(s) - n)
PreambleMessages == [i \in DOMAIN Preamble |-> System(NoText, Preamble[i], {})]

Shrinks == {"summary", "sliding", "budget", "budget_summary", "relevance", "duplicate", "composite"}

Nothing == [op |-> "none", before |-> <<>>, dropped |-> 0]

ContextInit ==
    /\ context = <<>> /\ said = 0 /\ shrinks = 0 /\ gone = {} /\ clipped = {}
    /\ last = Nothing

Say(k) ==
    /\ said < MaxSaid /\ said' = said + 1
    /\ context' = Append(context, AsMessage(k, said + 1))
    /\ last' = Nothing
    /\ UNCHANGED <<shrinks, gone, clipped>>

-----------------------------------------------------------------------------
(* Compaction.  A result has the messages and the reported dropped_count. *)

Result(messages, dropped) == [messages |-> messages, dropped |-> dropped]

\* MemorySummarizer shows its model the first characters of each content, and no
\* tool calls; the summary of an earlier compaction is a content like any other.
GivenWhole(msg) == msg.call = NoCall /\ msg.text \notin Clipped

\* The said messages that the messages at some positions stand for.
StoodFor(s, positions) == UNION {({s[i].id} \cup s[i].covers) \ {0} : i \in positions}
Whole(s) == {i \in DOMAIN s : GivenWhole(s[i])}
Told(s) == StoodFor(s, Whole(s))
Curtailed(s) == StoodFor(s, DOMAIN s \ Whole(s))

\* Slip: a summary of a summary forgets what that one covered.
SummaryFlat(older, answer) ==
    System(answer, SummaryTok[answer], IF answer = Unavailable THEN {} ELSE Told(older) \cap Ids(older))

\* A MemorySummarizer whose model fails returns a placeholder instead.
Summary(older, answer) ==
    System(answer, SummaryTok[answer], IF answer = Unavailable THEN {} ELSE Told(older))

SummaryCompaction(s, answer) ==
    IF Len(s) <= KeepRecent THEN Result(s, 0)
    ELSE LET older == AllBut(s, KeepRecent)  recent == LastOf(s, KeepRecent) IN
         IF Len(older) < MinToSummarize
         THEN Result(PreambleMessages \o s, 0)
         ELSE Result(PreambleMessages \o <<Summary(older, answer)>> \o recent, Len(older))

SlidingWindow(s) ==
    IF Len(s) <= WindowSize THEN Result(s, 0)
    ELSE Result(PreambleMessages \o LastOf(s, WindowSize), Len(s) - WindowSize)

\* Slip: the message that passes the budget is kept before the loop stops.
KeptCountOver(s, rest) ==
    LET least == IF Len(s) < MinRecent THEN Len(s) ELSE MinRecent
        stops(k) == k = Len(s) \/ Tokens(LastOf(s, k)) >= rest
    IN  CHOOSE k \in least..Len(s) : stops(k) /\ \A j \in least..(k - 1) : ~stops(j)

\* How many messages the loop of TokenBudgetPruning keeps from the end: at least
\* MinRecent, then it stops once the rest of the budget is used or would be passed.
KeptCount(s, rest) ==
    LET least == IF Len(s) < MinRecent THEN Len(s) ELSE MinRecent
        stops(k) == \/ k = Len(s)
                    \/ Tokens(LastOf(s, k)) >= rest
                    \/ Tokens(LastOf(s, k + 1)) > rest
    IN  CHOOSE k \in least..Len(s) : stops(k) /\ \A j \in least..(k - 1) : ~stops(j)

TokenBudget(s, summarizes, answer) ==
    IF Tokens(s) <= Budget THEN Result(s, 0)
    ELSE LET kept == KeptCount(s, Budget - Tokens(PreambleMessages))
             pruned == AllBut(s, kept)
             summary == IF pruned # <<>> /\ summarizes THEN <<Summary(pruned, answer)>> ELSE <<>>
         IN  Result(PreambleMessages \o summary \o LastOf(s, kept), Len(pruned))

-----------------------------------------------------------------------------
(* Pruning *)

Spoken(s) == {i \in DOMAIN s : s[i].role = "user" /\ s[i].text # NoText}

\* The messages at some positions, one after the other.
Keeping(s, positions) ==
    LET kept[i \in 0..Len(s)] ==
          IF i = 0 THEN <<>>
          ELSE IF i \in positions THEN Append(kept[i - 1], s[i]) ELSE kept[i - 1]
    IN  kept[Len(s)]

\* Slip: the protected tail is one message short.
ProtectedShort(s, i, n) == s[i].role = "system" \/ i > Len(s) - n + 1

Protected(s, i, n) == s[i].role = "system" \/ i > Len(s) - n

RelevancePruning(s) ==
    IF Spoken(s) = {} THEN Result(s, 0)
    ELSE LET anchor == s[Max(Spoken(s))].text
             relevant == {i \in DOMAIN s :
                \/ Protected(s, i, ProtectRelevant)
                \/ s[i].text = NoText /\ s[i].call # NoCall
                \/ s[i].text # NoText /\ Len(s) - i <= FadesAfter[<<anchor, s[i].text>>]}
             kept == Keeping(s, relevant)
         IN  Result(kept, Len(s) - Len(kept))

IsCallOnly(msg) == msg.role = "assistant" /\ msg.text = NoText /\ msg.call # NoCall

IsEmptyTurn(msg) == msg.role = "assistant" /\ msg.text = NoText /\ msg.call = NoCall

\* One step of DuplicatePruning over kept messages, the last tool call signature
\* and the last user content; a turn that only calls tools leaves the latter.
DuplicateStep(s, acc, i) ==
    LET msg == s[i]  keep == Append(acc.kept, msg) IN
    IF Protected(s, i, ProtectDuplicate) THEN [kept |-> keep, sig |-> <<>>, user |-> <<>>]
    ELSE CASE IsEmptyTurn(msg) -> acc
           [] msg.role = "user" -> IF acc.user = <<msg.text>> THEN acc
                                   ELSE [kept |-> keep, sig |-> <<>>, user |-> <<msg.text>>]
           [] IsCallOnly(msg) -> IF acc.sig = <<msg.call>> THEN acc
                                 ELSE [kept |-> keep, sig |-> <<msg.call>>, user |-> acc.user]
           [] OTHER -> [kept |-> keep, sig |-> <<>>, user |-> <<>>]

Untracked == [kept |-> <<>>, sig |-> <<>>, user |-> <<>>]

DuplicatePruning(s) ==
    LET acc[i \in 0..Len(s)] == IF i = 0 THEN Untracked ELSE DuplicateStep(s, acc[i - 1], i)
        kept == acc[Len(s)].kept
    IN  IF Len(s) < 2 THEN Result(s, 0) ELSE Result(kept, Len(s) - Len(kept))

\* CompositePruning, duplicates first.
Composite(s) ==
    LET first == DuplicatePruning(s)  second == RelevancePruning(first.messages)
    IN  Result(second.messages, first.dropped + second.dropped)

-----------------------------------------------------------------------------
Summarizing == {"summary", "budget_summary"}

Shrunk(op, s, answer) ==
    CASE op = "summary" -> SummaryCompaction(s, answer)
      [] op = "sliding" -> SlidingWindow(s)
      [] op = "budget" -> TokenBudget(s, FALSE, answer)
      [] op = "budget_summary" -> TokenBudget(s, TRUE, answer)
      [] op = "relevance" -> RelevancePruning(s)
      [] op = "duplicate" -> DuplicatePruning(s)
      [] op = "composite" -> Composite(s)

\* compact or prune; the answer of the model matters to a strategy that summarizes.
Shrink(op, answer) ==
    LET r == Shrunk(op, context, answer)
        lost == (Ids(context) \cup Covered(context)) \ (Ids(r.messages) \cup Covered(r.messages))
        lossy == op \notin Summarizing \/ answer = Unavailable
    IN
    /\ shrinks < MaxShrinks /\ shrinks' = shrinks + 1
    /\ op \notin Summarizing => answer = Unavailable
    /\ context' = r.messages
    /\ last' = [op |-> op, before |-> context, dropped |-> r.dropped]
    /\ gone' = IF lossy THEN gone \cup lost ELSE gone
    /\ clipped' = IF lossy THEN clipped ELSE clipped \cup (lost \cap Curtailed(context))
    /\ UNCHANGED said

ContextNext ==
    \/ \E k \in Kinds : Say(k)
    \/ \E op \in Shrinks, answer \in Answers : Shrink(op, answer)

ContextSpec == ContextInit /\ [][ContextNext]_contextVars

-----------------------------------------------------------------------------
ContextTypeOK ==
    /\ context \in Seq(Message) /\ said \in 0..MaxSaid /\ shrinks \in 0..MaxShrinks
    /\ gone \subseteq 1..said /\ clipped \subseteq 1..said
    /\ last.op \in Shrinks \cup {"none"} /\ last.before \in Seq(Message) /\ last.dropped \in Nat

\* Whatever strategies run in whatever order, a message is in the context or covered
\* by a summary in it, also by a summary of a summary, unless a strategy dropped it
\* without a summary, or the summarizer failed, or the preview a summarizer was given
\* left something out: its own tool calls, the rest of its own text, or the rest of an
\* earlier summary that covered it.  Everything else survives any chain of summaries.
\* What duplicate pruning drops is an empty assistant turn, or an equal message
\* said before it is still there.
NothingLost ==
    /\ 1..said \subseteq Ids(context) \cup Covered(context) \cup gone \cup clipped
    /\ last.op = "duplicate" =>
         \A i \in DOMAIN last.before :
            LET msg == last.before[i] IN
            \/ IsEmptyTurn(msg)
            \/ \E kept \in Range(context) : /\ kept.id <= msg.id
                  /\ kept.role = msg.role /\ kept.text = msg.text /\ kept.call = msg.call

MinOf(m, n) == IF m < n THEN m ELSE n
TailSize(op) ==
    CASE op = "summary" -> KeepRecent
      [] op = "sliding" -> WindowSize
      [] op \in {"budget", "budget_summary"} -> MinRecent
      [] op = "relevance" -> ProtectRelevant
      [] op = "duplicate" -> ProtectDuplicate
      [] op = "composite" -> MinOf(ProtectDuplicate, ProtectRelevant)

\* The newest messages a strategy promises to keep are at the end of the context,
\* untouched, and what it keeps stays in the order it was said.
TailVerbatim ==
    /\ last.op # "none" =>
         LET n == MinOf(TailSize(last.op), Len(last.before)) IN
         n <= Len(context) /\ LastOf(context, n) = LastOf(last.before, n)
    /\ \A i, j \in DOMAIN context :
         i < j /\ context[i].id # 0 /\ context[j].id # 0 => context[i].id < context[j].id

\* Without a summarizer, budget pruning ends within the budget, unless the
\* preamble and the newest messages it must keep are already more than that.
BudgetKept ==
    last.op = "budget" =>
        \/ Tokens(context) <= Budget
        \/ Len(context) = Len(Preamble) + MinOf(MinRecent, Len(last.before))
=============================================================================
