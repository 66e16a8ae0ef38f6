---------------------------- MODULE HookPipeline ----------------------------
(***************************************************************************)
(* agentcook_core/hook_runtime.py: the registry of hooks, the pipeline     *)
(* that runs them around a core callable, and the built-in MetricsHook.    *)
(*                                                                         *)
(* A hook call and the core call are one step each.  Executions nest: a    *)
(* hook or a core may run the pipeline again, so executions form a stack   *)
(* whose top is the one that moves; a nested execution happens inside the  *)
(* call its outer execution makes next.  The registry may change between   *)
(* any two steps, because hooks and cores may call it.  A hook may return, *)
(* cancel, raise, or cancel and then raise; MetricsHook only returns.      *)
(* LoggingHook only logs: it is one of the hooks that return.              *)
(***************************************************************************)
EXTENDS Naturals, Sequences, FiniteSets, SequencesExt

CONSTANTS
    Hooks,          \* hook objects, each with a name of its own
    MetricsHook,    \* the one that is a MetricsHook
    HookEvents,     \* event types
    MaxRuns,        \* bound: executions started
    MaxChanges      \* bound: changes of the registry

ASSUME HookAssumption == MetricsHook \in Hooks /\ MaxRuns \in Nat /\ MaxChanges \in Nat

VARIABLES
    globals,        \* _global_hooks
    specific,       \* _hooks: event -> list
    stack,          \* executions in progress, innermost last
    counts,         \* MetricsHook._counts
    timed,          \* number of MetricsHook._durations per event
    finished,       \* the execution that returned last, with its result
    runs, changes   \* counters behind the bounds

hookVars == <<globals, specific, stack, counts, timed, finished, runs, changes>>

Phases == {"pre", "core", "post", "drain", "done"}
CoreEnds == {"none", "returned", "raised"}
Execution == [event : HookEvents, failFast : BOOLEAN, hooks : Seq(Hooks), phase : Phases,
              i : Nat, cancelled : BOOLEAN, started : BOOLEAN, executed : Nat,
              core : CoreEnds, aborted : BOOLEAN, success : BOOLEAN,
              pres : Seq(Hooks), posts : Seq(Hooks), returned : Nat, vetoed : BOOLEAN]

HookInit ==
    /\ globals = <<>> /\ specific = [e \in HookEvents |-> <<>>]
    /\ stack = <<>> /\ finished = <<>>
    /\ counts = [e \in HookEvents |-> 0] /\ timed = [e \in HookEvents |-> 0]
    /\ runs = 0 /\ changes = 0

-----------------------------------------------------------------------------
(* The registry *)

RegistryChange ==
    /\ changes < MaxChanges /\ changes' = changes + 1
    /\ UNCHANGED <<stack, counts, timed, finished, runs>>

RegisterHook(e, h, isGlobal) ==
    /\ RegistryChange
    /\ globals' = IF isGlobal THEN Append(globals, h) ELSE globals
    /\ specific' = IF isGlobal THEN specific ELSE [specific EXCEPT ![e] = Append(@, h)]

\* The list that keeps all but h, in order (not by SelectSeq, which is recursive).
Without(s, h) ==
    LET kept == {i \in DOMAIN s : s[i] # h}
        rank(i) == Cardinality({j \in kept : j <= i})
    IN  [k \in 1..Cardinality(kept) |-> s[CHOOSE i \in kept : rank(i) = k]]

UnregisterHook(h) ==
    /\ RegistryChange
    /\ globals' = Without(globals, h)
    /\ specific' = [e \in HookEvents |-> Without(specific[e], h)]

ClearHooks ==
    /\ RegistryChange
    /\ globals' = <<>> /\ specific' = [e \in HookEvents |-> <<>>]

GetHooks(e) == globals \o specific[e]

-----------------------------------------------------------------------------
(* The pipeline *)

Top == stack[Len(stack)]
Replace(x) == [stack EXCEPT ![Len(stack)] = x]

ExecutePipeline(e, failFast) ==
    /\ runs < MaxRuns /\ runs' = runs + 1
    /\ stack' = Append(stack,
         [event |-> e, failFast |-> failFast, hooks |-> GetHooks(e),
          phase |-> IF GetHooks(e) = <<>> THEN "core" ELSE "pre",
          i |-> 1, cancelled |-> FALSE, started |-> FALSE, executed |-> 0,
          core |-> "none", aborted |-> FALSE, success |-> FALSE,
          pres |-> <<>>, posts |-> <<>>, returned |-> 0, vetoed |-> FALSE])
    /\ UNCHANGED <<globals, specific, counts, timed, finished, changes>>

\* A HookResult is returned: the execution leaves the stack.
Return(x) ==
    /\ finished' = <<[x EXCEPT !.phase = "done"]>>
    /\ stack' = SubSeq(stack, 1, Len(stack) - 1)

Continue(x) == stack' = Replace(x) /\ UNCHANGED finished

\* Slip: the list is not copied; a change of the registry reaches a pipeline under way.
HookOfLive(x) ==
    IF x.i <= Len(GetHooks(x.event)) THEN GetHooks(x.event)[x.i] ELSE x.hooks[x.i]

HookOf(x) == x.hooks[x.i]

Outcomes(h) == IF h = MetricsHook THEN {"ok"} ELSE {"ok", "cancel", "raise", "cancelRaise"}
Cancels(out) == out \in {"cancel", "cancelRaise"}
Raises(out) == out \in {"raise", "cancelRaise"}
One(b) == IF b THEN 1 ELSE 0

\* The loop of pre_execute calls; `started' is metadata["_metrics_start_ns"].
PreCall(out) ==
    /\ stack # <<>> /\ Top.phase = "pre" /\ out \in Outcomes(HookOf(Top))
    /\ LET cancelled == Top.cancelled \/ Cancels(out)
           x == [Top EXCEPT !.cancelled = cancelled,
                   !.started = @ \/ HookOf(Top) = MetricsHook,
                   !.executed = @ + One(~Raises(out)), !.returned = @ + One(~Raises(out)),
                   !.pres = Append(@, HookOf(Top)), !.vetoed = cancelled]
       IN  IF Raises(out) /\ Top.failFast
           THEN Return([x EXCEPT !.aborted = TRUE])
           ELSE Continue(IF cancelled THEN [x EXCEPT !.phase = "post", !.i = Len(Top.hooks)]
                         ELSE IF Top.i = Len(Top.hooks) THEN [x EXCEPT !.phase = "core"]
                         ELSE [x EXCEPT !.i = @ + 1])
    /\ UNCHANGED <<globals, specific, counts, timed, runs, changes>>

\* core(): under fail_fast an exception leads to the second post loop (352-356).
CoreCall(raises) ==
    /\ stack # <<>> /\ Top.phase = "core"
    /\ Continue([Top EXCEPT !.core = IF raises THEN "raised" ELSE "returned",
                   !.phase = IF raises /\ Top.failFast THEN "drain" ELSE "post",
                   !.i = Len(Top.hooks)])
    /\ UNCHANGED <<globals, specific, counts, timed, runs, changes>>

Measure(x) ==
    IF HookOf(x) = MetricsHook
    THEN /\ counts' = [counts EXCEPT ![x.event] = @ + 1]
         /\ timed' = [timed EXCEPT ![x.event] = @ + One(x.started)]
    ELSE UNCHANGED <<counts, timed>>

\* A post_execute call of either loop; only the ordinary loop counts and aborts.
PostCall(out) ==
    /\ stack # <<>> /\ Top.phase \in {"post", "drain"} /\ Top.i > 0
    /\ out \in Outcomes(HookOf(Top))
    /\ Measure(Top)
    /\ LET x == [Top EXCEPT !.cancelled = @ \/ Cancels(out), !.i = @ - 1,
                   !.executed = @ + One(~Raises(out) /\ Top.phase = "post"),
                   !.returned = @ + One(~Raises(out)),
                   !.posts = Append(@, HookOf(Top))]
       IN  IF Raises(out) /\ Top.failFast /\ Top.phase = "post"
           THEN Return([x EXCEPT !.aborted = TRUE]) ELSE Continue(x)
    /\ UNCHANGED <<globals, specific, runs, changes>>

\* Slip: a cancelled pipeline counts as a success.
ConcludeCancelled ==
    /\ stack # <<>> /\ Top.phase \in {"post", "drain"} /\ Top.i = 0
    /\ Return([Top EXCEPT !.success = Top.core # "raised"])
    /\ UNCHANGED <<globals, specific, counts, timed, runs, changes>>

Conclude ==
    /\ stack # <<>> /\ Top.phase \in {"post", "drain"} /\ Top.i = 0
    /\ Return([Top EXCEPT !.success = Top.core # "raised" /\ ~Top.cancelled])
    /\ UNCHANGED <<globals, specific, counts, timed, runs, changes>>

\* MetricsHook.reset
ResetMetrics ==
    /\ changes < MaxChanges /\ changes' = changes + 1
    /\ counts' = [e \in HookEvents |-> 0] /\ timed' = [e \in HookEvents |-> 0]
    /\ UNCHANGED <<globals, specific, stack, finished, runs>>

HookNext ==
    \/ \E e \in HookEvents, h \in Hooks, g \in BOOLEAN : RegisterHook(e, h, g)
    \/ \E h \in Hooks : UnregisterHook(h)
    \/ ClearHooks
    \/ ResetMetrics
    \/ \E e \in HookEvents, f \in BOOLEAN : ExecutePipeline(e, f)
    \/ \E out \in {"ok", "cancel", "raise", "cancelRaise"} : PreCall(out) \/ PostCall(out)
    \/ \E r \in BOOLEAN : CoreCall(r)
    \/ Conclude

HookSpec == HookInit /\ [][HookNext]_hookVars

-----------------------------------------------------------------------------
HookTypeOK ==
    /\ globals \in Seq(Hooks) /\ specific \in [HookEvents -> Seq(Hooks)]
    /\ stack \in Seq(Execution) /\ finished \in Seq(Execution)
    /\ counts \in [HookEvents -> Nat] /\ timed \in [HookEvents -> Nat]
    /\ runs \in 0..MaxRuns /\ changes \in 0..MaxChanges

Executions == Range(stack) \cup Range(finished)

\* Onion order: whatever registrations and nested executions happen meanwhile,
\* an execution calls the hooks it found at its start, in order before the core
\* and in exactly the reverse order after it; no hook is skipped or called
\* twice, except after a cancel (pre) or a fail_fast abort.
OnionOrder ==
    \A x \in Executions :
        /\ IsPrefix(x.pres, x.hooks)
        /\ IsPrefix(x.posts, Reverse(x.hooks))
        /\ x.phase \in {"core", "drain"} => x.pres = x.hooks
        /\ x.phase = "done" /\ ~x.aborted => Len(x.posts) = Len(x.hooks)
        /\ x.posts # <<>> => x.pres = x.hooks \/ x.vetoed

\* The HookResult tells what happened: success exactly when the core returned,
\* no hook cancelled and no hook aborted; the core never ran after a pre hook
\* cancelled; hooks_executed is the number of hook calls that returned, except
\* that the loop run after a core failure under fail_fast is not counted.
ResultHonest ==
    \A x \in Range(finished) :
        /\ x.success <=> x.core = "returned" /\ ~x.cancelled /\ ~x.aborted
        /\ x.vetoed => x.core = "none"
        /\ x.executed <= x.returned
        /\ ~(x.failFast /\ x.core = "raised") => x.executed = x.returned
=============================================================================
