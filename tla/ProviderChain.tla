---------------------------- MODULE ProviderChain ----------------------------
(***************************************************************************)
(* agentcook_providers/fallback.py: FallbackProvider, with the nesting it  *)
(* allows: an outer chain of inner chains, each with its own retryable     *)
(* status codes.  A provider that is no chain is an inner chain of one,    *)
(* which never falls back either.                                          *)
(*                                                                         *)
(* chat() answers in one step.  stream_chat() hands over one chunk per     *)
(* step and waits at each for its consumer, who may stop asking; both may  *)
(* be cancelled.  Cancellation is no Exception, so nothing falls back.     *)
(***************************************************************************)
EXTENDS Naturals, Sequences, SequencesExt

CONSTANTS
    Chain,          \* outer chain: sequence of [members |-> length, codes |-> given codes]
    GivenOuter,     \* retryable_status_codes given to the outer chain
    DefaultCodes,   \* DEFAULT_RETRYABLE_STATUS_CODES
    StatusCodes,    \* status codes of the providers' errors
    NoStatus,       \* an error without one
    MaxChunks       \* bound: chunks a provider streams

ASSUME ChainAssumption ==
    /\ Chain \in Seq([members : Nat \ {0}, codes : SUBSET StatusCodes]) /\ Chain # <<>>
    /\ NoStatus \notin StatusCodes /\ MaxChunks \in Nat

VARIABLES
    mode,           \* "idle" | "chat" | "stream"
    outcome,        \* "pending" | "answered" | "raised" | "cancelled"
    called,         \* providers called so far, as <<group, member>>
    errors,         \* the error of each call that failed
    chunks          \* chunks the consumer got: the provider of each

chainVars == <<mode, outcome, called, errors, chunks>>

\* `busy': the message holds one of the retryable keywords.
Errors == [status : StatusCodes \cup {NoStatus}, busy : BOOLEAN]
IsRetryable(codes, e) == e.status \in codes \/ e.busy

\* `or': an empty set of codes is no set of codes.
Resolved(given) == IF given = {} THEN DefaultCodes ELSE given
InnerCodes(g) == Resolved(Chain[g].codes)
OuterCodes == Resolved(GivenOuter)

Providers == {p \in (DOMAIN Chain) \X Nat : p[2] \in 1..Chain[p[1]].members}
Current == called[Len(called)]
Running == mode # "idle" /\ outcome = "pending"

ChainInit ==
    /\ mode = "idle" /\ outcome = "pending"
    /\ called = <<>> /\ errors = <<>> /\ chunks = <<>>

Ask(m) ==
    /\ mode = "idle" /\ mode' = m
    /\ called' = << <<1, 1>> >>
    /\ UNCHANGED <<outcome, errors, chunks>>

ProviderYields ==
    /\ Running /\ mode = "stream"
    /\ Len(SelectSeq(chunks, LAMBDA c : c = Current)) < MaxChunks
    /\ chunks' = Append(chunks, Current)
    /\ UNCHANGED <<mode, outcome, called, errors>>

ProviderAnswers ==
    /\ Running /\ outcome' = "answered"
    /\ UNCHANGED <<mode, called, errors, chunks>>

\* Slip: an error the inner chain would not retry never reaches the outer one.
NextProviderInner(p, e) ==
    IF p[2] < Chain[p[1]].members
    THEN IF IsRetryable(InnerCodes(p[1]), e) THEN << <<p[1], p[2] + 1>> >> ELSE <<>>
    ELSE IF p[1] < Len(Chain) /\ IsRetryable(OuterCodes, e) THEN << <<p[1] + 1, 1>> >> ELSE <<>>

\* Who is called after an error: the next member, else the next group, else nobody.
NextProvider(p, e) ==
    IF p[2] < Chain[p[1]].members /\ IsRetryable(InnerCodes(p[1]), e)
    THEN << <<p[1], p[2] + 1>> >>
    ELSE IF p[1] < Len(Chain) /\ IsRetryable(OuterCodes, e) THEN << <<p[1] + 1, 1>> >>
    ELSE <<>>

\* The chunks the failed provider handed over are not taken back.
ProviderRaises(e) ==
    /\ Running /\ errors' = Append(errors, e)
    /\ called' = called \o NextProvider(Current, e)
    /\ outcome' = IF NextProvider(Current, e) = <<>> THEN "raised" ELSE "pending"
    /\ UNCHANGED <<mode, chunks>>

CallCancelled ==
    /\ Running /\ outcome' = "cancelled"
    /\ UNCHANGED <<mode, called, errors, chunks>>

ChainNext ==
    \/ \E m \in {"chat", "stream"} : Ask(m)
    \/ ProviderYields \/ ProviderAnswers \/ CallCancelled
    \/ \E e \in Errors : ProviderRaises(e)

ChainSpec == ChainInit /\ [][ChainNext]_chainVars

-----------------------------------------------------------------------------
ChainTypeOK ==
    /\ mode \in {"idle", "chat", "stream"}
    /\ outcome \in {"pending", "answered", "raised", "cancelled"}
    /\ called \in Seq(Providers) /\ errors \in Seq(Errors) /\ chunks \in Seq(Providers)

Before(p, q) == p[1] < q[1] \/ (p[1] = q[1] /\ p[2] < q[2])

\* A chain never goes back, and gives up only when it must: providers are called in
\* order and at most once, each only after the failure of the one before; a member
\* is passed over only when its own chain would not retry the error and the outer
\* one would; an error reaches the caller only when every chain it passed through
\* has no provider left or would not retry it; and the consumer got the chunks of
\* the providers in the order they were called.
FallbackOrder ==
    /\ \A i, j \in DOMAIN called : i < j => Before(called[i], called[j])
    /\ \A i \in 1..(Len(called) - 1) :
         LET p == called[i]  q == called[i + 1] IN
         IF p[1] = q[1] THEN q[2] = p[2] + 1 /\ IsRetryable(InnerCodes(p[1]), errors[i])
         ELSE /\ q = <<p[1] + 1, 1>> /\ IsRetryable(OuterCodes, errors[i])
              /\ p[2] < Chain[p[1]].members => ~IsRetryable(InnerCodes(p[1]), errors[i])
    /\ outcome = "raised" =>
         LET p == Current  e == errors[Len(errors)] IN
         /\ Len(errors) = Len(called)
         /\ p[2] = Chain[p[1]].members \/ ~IsRetryable(InnerCodes(p[1]), e)
         /\ p[1] = Len(Chain) \/ ~IsRetryable(OuterCodes, e)
    /\ outcome = "answered" => Len(errors) = Len(called) - 1
    /\ \A i, j \in DOMAIN chunks : i < j => ~Before(chunks[j], chunks[i])
=============================================================================
