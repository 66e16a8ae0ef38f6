---------------------------- MODULE ProviderStream ----------------------------
(***************************************************************************)
(* agentcook_providers: how the OpenAI and the Anthropic provider turn what *)
(* a vendor streams into ChatChunks.                                       *)
(*                                                                         *)
(* A tool call arrives in fragments, its index telling which call they     *)
(* belong to; the fragments of several calls may alternate, with text      *)
(* between them.  The OpenAI provider collects them and yields the calls    *)
(* when the stream says so; the Anthropic one yields text only.             *)
(***************************************************************************)
EXTENDS Naturals, Sequences, FiniteSets, SequencesExt

CONSTANTS
    Texts,          \* pieces of content
    NoText,         \* "", None
    Pieces,         \* what names and arguments of tool calls are made of
    Fragments,      \* [index, id, name, args]: id may be Fresh (the vendor sent none),
                    \* name and args are sequences of pieces
    Fresh,          \* an id made from a uuid
    WholeArgs,      \* the sequences of pieces that are JSON when put together
    Finishes,       \* finish reasons and stop reasons of the vendors
    NoFinish,
    KnownFinish,    \* "openai", "anthropic" -> finish reason of the vendor -> FinishReason
    MaxReceived     \* bound: events of one stream

ASSUME StreamAssumption ==
    /\ MaxReceived \in Nat /\ NoText \notin Texts /\ NoFinish \notin Finishes
    /\ \A v \in DOMAIN KnownFinish : DOMAIN KnownFinish[v] \subseteq Finishes
    /\ \A f \in Fragments :
         f \in [index : {f.index}, id : {f.id}, name : Seq(Pieces), args : Seq(Pieces)]

VARIABLES
    vendor,         \* which provider streams
    received,       \* what the vendor has sent: [kind, text, fragments, finish]
    accumulated,    \* the slots of the calls, in the order they were first seen
    finalFinish,    \* Anthropic: final_finish
    yielded,        \* the ChatChunks
    stream          \* "open", "ended", "raised"

streamVars == <<vendor, received, accumulated, finalFinish, yielded, stream>>

\* _STOP_REASON_MAP, and the reasons OpenAIProvider knows.
FinishOf(raw) == IF raw \in DOMAIN KnownFinish[vendor] THEN KnownFinish[vendor][raw] ELSE NoFinish

Chunk(text, calls, finish) == [text |-> text, calls |-> calls, finish |-> finish]
Event(kind, text, fragments, finish) ==
    [kind |-> kind, text |-> text, fragments |-> fragments, finish |-> finish]

StreamInit ==
    /\ vendor \in DOMAIN KnownFinish
    /\ received = <<>> /\ accumulated = <<>> /\ yielded = <<>>
    /\ finalFinish = NoFinish /\ stream = "open"

Receive(e) ==
    /\ stream = "open" /\ Len(received) < MaxReceived
    /\ received' = Append(received, e)
    /\ UNCHANGED vendor

-----------------------------------------------------------------------------
(* OpenAI *)

Extend(slot, f) == [slot EXCEPT !.name = @ \o f.name, !.args = @ \o f.args]

\* Slip: the slot keeps the last fragment of the arguments only.
CollectLast(slots, f) ==
    LET at == {i \in DOMAIN slots : slots[i].index = f.index} IN
    IF at = {} THEN Append(slots, f)
    ELSE LET i == CHOOSE j \in at : TRUE
         IN  [slots EXCEPT ![i] = [Extend(slots[i], f) EXCEPT !.args = f.args]]

\* accumulated.setdefault(index), then name and arguments are appended to.
Collect(slots, f) ==
    LET at == {i \in DOMAIN slots : slots[i].index = f.index} IN
    IF at = {} THEN Append(slots, f)
    ELSE LET i == CHOOSE j \in at : TRUE IN [slots EXCEPT ![i] = Extend(slots[i], f)]

\* The slots after some fragments.
CollectAll(slots, fragments) ==
    LET after[i \in 0..Len(fragments)] ==
          IF i = 0 THEN slots ELSE Collect(after[i - 1], fragments[i])
    IN  after[Len(fragments)]

\* One chunk with a choice; on "tool_calls" arguments that are no JSON raise.
OpenAIChunk(text, fragments, raw) ==
    LET slots == CollectAll(accumulated, fragments)
        calls == IF FinishOf(raw) = "tool_calls" THEN slots ELSE <<>> IN
    /\ vendor = "openai" /\ Receive(Event("chunk", text, fragments, raw))
    /\ accumulated' = slots
    /\ IF \E i \in DOMAIN calls : calls[i].args \notin WholeArgs \cup {<<>>}
       THEN stream' = "raised" /\ UNCHANGED yielded
       ELSE yielded' = Append(yielded, Chunk(text, calls, FinishOf(raw))) /\ UNCHANGED stream
    /\ UNCHANGED finalFinish

\* A chunk without choices, such as the one that carries the usage.
OpenAIEmptyChunk ==
    /\ vendor = "openai" /\ Receive(Event("empty", NoText, <<>>, NoFinish))
    /\ UNCHANGED <<accumulated, finalFinish, yielded, stream>>

OpenAIEnd ==
    /\ vendor = "openai" /\ stream = "open" /\ stream' = "ended"
    /\ UNCHANGED <<vendor, received, accumulated, finalFinish, yielded>>

-----------------------------------------------------------------------------
(* Anthropic *)

TextDelta(text) ==
    /\ vendor = "anthropic" /\ Receive(Event("text", text, <<>>, NoFinish))
    /\ yielded' = IF text = NoText THEN yielded ELSE Append(yielded, Chunk(text, <<>>, NoFinish))
    /\ UNCHANGED <<accumulated, finalFinish, stream>>

\* A fragment of a tool call, and every other kind of event.
OtherDelta(f) ==
    /\ vendor = "anthropic" /\ Receive(Event("other", NoText, <<f>>, NoFinish))
    /\ UNCHANGED <<accumulated, finalFinish, yielded, stream>>

MessageDelta(raw) ==
    /\ vendor = "anthropic" /\ Receive(Event("message", NoText, <<>>, raw))
    /\ finalFinish' = FinishOf(raw)
    /\ UNCHANGED <<accumulated, yielded, stream>>

AnthropicEnd ==
    /\ vendor = "anthropic" /\ stream = "open" /\ stream' = "ended"
    /\ yielded' = Append(yielded, Chunk(NoText, <<>>, finalFinish))
    /\ UNCHANGED <<vendor, received, accumulated, finalFinish>>

-----------------------------------------------------------------------------
\* The connection breaks, or the SDK raises.
StreamBreaks ==
    /\ stream = "open" /\ stream' = "raised"
    /\ UNCHANGED <<vendor, received, accumulated, finalFinish, yielded>>

StreamNext ==
    \/ \E text \in Texts \cup {NoText} : TextDelta(text)
    \/ \E raw \in Finishes \cup {NoFinish} : MessageDelta(raw)
    \/ \E f \in Fragments : OtherDelta(f)
    \/ \E f, g \in Fragments : OpenAIChunk(NoText, <<f, g>>, NoFinish)
    \/ \E text \in Texts \cup {NoText}, raw \in Finishes \cup {NoFinish} :
          OpenAIChunk(text, <<>>, raw) \/ \E f \in Fragments : OpenAIChunk(text, <<f>>, raw)
    \/ OpenAIEmptyChunk \/ OpenAIEnd \/ AnthropicEnd \/ StreamBreaks

StreamSpec == StreamInit /\ [][StreamNext]_streamVars

-----------------------------------------------------------------------------
StreamTypeOK ==
    /\ vendor \in DOMAIN KnownFinish /\ stream \in {"open", "ended", "raised"}
    /\ \A i \in DOMAIN received : received[i].finish \in Finishes \cup {NoFinish}
    /\ \A i \in DOMAIN accumulated : accumulated[i].index \in {f.index : f \in Fragments}
    /\ \A i \in DOMAIN yielded : yielded[i].text \in Texts \cup {NoText}

\* The text that is not empty, and the fragments of the first n events.
Spoken(seq) ==
    LET said[i \in 0..Len(seq)] ==
          IF i = 0 THEN <<>>
          ELSE IF seq[i].text = NoText THEN said[i - 1] ELSE Append(said[i - 1], seq[i].text)
    IN  said[Len(seq)]

FragmentsTo(events, n) ==
    LET all[i \in 0..n] == IF i = 0 THEN <<>> ELSE all[i - 1] \o events[i].fragments
    IN  all[n]

\* What the fragments of one index add up to: every piece once and in order.
Joined(fragments, index) ==
    LET sum[i \in 0..Len(fragments)] ==
          IF i = 0 THEN [name |-> <<>>, args |-> <<>>]
          ELSE IF fragments[i].index # index THEN sum[i - 1]
          ELSE [name |-> sum[i - 1].name \o fragments[i].name,
                args |-> sum[i - 1].args \o fragments[i].args]
    IN  sum[Len(fragments)]

\* Call i is first spoken of in fragment p, whose id it has; the calls before it
\* have been by then.
FirstOf(calls, i, fragments, p) ==
    /\ calls[i].index = fragments[p].index /\ calls[i].id = fragments[p].id
    /\ \A q \in 1..(p - 1) : fragments[q].index # calls[i].index
    /\ \A j \in 1..(i - 1) : \E q \in 1..(p - 1) : fragments[q].index = calls[j].index

\* Every fragment belongs to a call, and a call is what its fragments add up to.
CallsOf(calls, fragments) ==
    /\ \A q \in DOMAIN fragments : \E i \in DOMAIN calls : calls[i].index = fragments[q].index
    /\ \A i \in DOMAIN calls :
         /\ \E p \in DOMAIN fragments : FirstOf(calls, i, fragments, p)
         /\ Joined(fragments, calls[i].index) = [name |-> calls[i].name, args |-> calls[i].args]

\* Event n is the k-th chunk with a choice.
ChunksTo(events, n) == {i \in 1..n : events[i].kind = "chunk"}
IsChunk(events, k, n) == n \in ChunksTo(events, n) /\ Cardinality(ChunksTo(events, n)) = k

\* What is yielded for that chunk.
Answers(chunk, events, k, n) ==
    /\ IsChunk(events, k, n)
    /\ chunk.finish = "tool_calls" =>
         /\ CallsOf(chunk.calls, FragmentsTo(events, n))
         /\ \A i \in DOMAIN chunk.calls : chunk.calls[i].args \in WholeArgs \cup {<<>>}

\* The text of the stream is yielded whole and in order.  Every chunk is answered by
\* one, but for a last one with arguments that cannot be parsed, which ends the
\* stream instead.  Calls are yielded only with the finish reason "tool_calls", then
\* all of them, whole and in the order of their first fragments, whatever text or
\* other calls came between.  Anthropic never yields a call.
StreamFaithful ==
    LET chunks == Cardinality(ChunksTo(received, Len(received)))
        unparsed == vendor = "openai" /\ Len(yielded) < chunks IN
    /\ unparsed => stream = "raised" /\ chunks = Len(yielded) + 1
    /\ Spoken(yielded) = Spoken(IF unparsed THEN Front(received) ELSE received)
    /\ \A k \in DOMAIN yielded : yielded[k].calls # <<>> => yielded[k].finish = "tool_calls"
    /\ vendor = "anthropic" => \A k \in DOMAIN yielded : yielded[k].calls = <<>>
    /\ vendor = "openai" =>
         \A k \in DOMAIN yielded : \E n \in DOMAIN received :
            Answers(yielded[k], received, k, n) /\ yielded[k].finish = FinishOf(received[n].finish)
=============================================================================
