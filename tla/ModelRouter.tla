----------------------------- MODULE ModelRouter -----------------------------
(***************************************************************************)
(* agentcook_core/model_router.py: the registry of model configurations    *)
(* and the router that picks one by policy, and a caller that fails over:  *)
(* it selects again, excluding every model that failed so far, as          *)
(* select_with_fallback does with the fallback_chain policy.               *)
(*                                                                         *)
(* Models may be registered, replaced, removed, and go up and down between *)
(* any two picks.  A dictionary keeps the position of an overwritten key.  *)
(* Names are numbers, so that sorting by name has a meaning; `provider'    *)
(* and `tag' restrict the candidates alike, and one filter stands for both.*)
(***************************************************************************)
EXTENDS Naturals, Sequences, FiniteSets, SequencesExt

CONSTANTS
    ModelConfigs,   \* records [name, provider, cost, quality, order, enabled]
    AnyProvider,    \* no provider filter
    MaxRegistered,  \* bound: register and unregister calls
    MaxPicks        \* bound: picks

ModelNames == {c.name : c \in ModelConfigs}
Filters == {AnyProvider} \cup {c.provider : c \in ModelConfigs}
Policies == {"cost_optimized", "quality_first", "round_robin", "fallback_chain"}

ASSUME RouterAssumption ==
    /\ ModelNames \subseteq Nat /\ \A c \in ModelConfigs : c.provider # AnyProvider
    /\ \A c \in ModelConfigs : {c.cost, c.quality, c.order} \subseteq Nat
    /\ MaxRegistered \in Nat /\ MaxPicks \in Nat

VARIABLES
    models,         \* ModelRegistry._models, in insertion order
    up,             \* what the availability checker answers True for
    counter,        \* _round_robin_counter
    policy,         \* policy of the caller that fails over
    failed,         \* its failed_models
    spent,          \* that caller got ModelRouterError
    steady,         \* nothing it depends on changed since its first pick (history)
    window,         \* the latest round-robin picks over one and the same set (history)
    lastSet,        \* that set (history)
    registered, picks  \* counters behind the bounds

routerVars == <<models, up, counter, policy, failed, spent, steady, window, lastSet, registered, picks>>

RouterInit ==
    /\ models = <<>> /\ up = ModelNames /\ counter = 0
    /\ policy = "fallback_chain" /\ failed = <<>> /\ spent = FALSE /\ steady = TRUE
    /\ window = <<>> /\ lastSet = {} /\ registered = 0 /\ picks = 0

Idle == failed = <<>> /\ ~spent

RegistryStep ==
    /\ registered < MaxRegistered /\ registered' = registered + 1
    /\ steady' = Idle
    /\ UNCHANGED <<up, counter, policy, failed, spent, window, lastSet, picks>>

Registered(n) == \E i \in DOMAIN models : models[i].name = n

\* Slip: a name registered again gets a second entry.
RegisterModelTwice(c) == RegistryStep /\ models' = Append(models, c)

RegisterModel(c) ==
    /\ RegistryStep
    /\ models' = IF Registered(c.name)
                 THEN [i \in DOMAIN models |-> IF models[i].name = c.name THEN c ELSE models[i]]
                 ELSE Append(models, c)

UnregisterModel(n) ==
    /\ RegistryStep
    /\ \/ ~Registered(n) /\ UNCHANGED models
       \/ \E i \in DOMAIN models : models[i].name = n /\ models' = RemoveAt(models, i)

ClearModels == RegistryStep /\ models' = <<>>

ChangeAvailability(n) ==
    /\ up' = IF n \in up THEN up \ {n} ELSE up \cup {n}
    /\ steady' = Idle
    /\ UNCHANGED <<models, counter, policy, failed, spent, window, lastSet, registered, picks>>

-----------------------------------------------------------------------------
\* The positions of the models a list holds; lists keep the registry's order.
ListEnabled(filter) ==
    {i \in DOMAIN models : models[i].enabled /\ filter \in {AnyProvider, models[i].provider}}

\* Slip: exclude is not applied.
AvailableFailed(filter, exclude) == {i \in ListEnabled(filter) : models[i].name \in up}

Available(filter, exclude) ==
    {i \in ListEnabled(filter) : models[i].name \notin exclude /\ models[i].name \in up}

NamesAt(I) == {models[i].name : i \in I}

\* The order a policy prefers models in.
Prefers(p, c, d) ==
    CASE p = "cost_optimized" -> c.cost < d.cost
      [] p = "quality_first" -> c.quality > d.quality
      [] p = "fallback_chain" -> c.order < d.order

\* min() and max() return the first of several extremal elements.
FirstBest(I, p) ==
    CHOOSE i \in I :
        \A j \in I : ~Prefers(p, models[j], models[i]) /\ (j < i => Prefers(p, models[i], models[j]))

\* The name at index k of the sorted names.
NthName(S, k) == CHOOSE n \in S : Cardinality({m \in S : m < n}) = k

\* Slip: round robin over the order of registration.
ApplyPolicyUnsorted(I, p) ==
    IF p = "round_robin"
    THEN models[CHOOSE i \in I : Cardinality({j \in I : j < i}) = counter % Cardinality(I)].name
    ELSE models[FirstBest(I, p)].name

\* The name of the model that is selected.
ApplyPolicy(I, p) ==
    IF p = "round_robin" THEN NthName(NamesAt(I), counter % Cardinality(NamesAt(I)))
    ELSE models[FirstBest(I, p)].name

\* A round-robin pick.  select raises ModelRouterError when nothing is available.
SelectRoundRobin(filter, exclude) ==
    LET I == Available(filter, exclude)
        n == ApplyPolicy(I, "round_robin")
    IN  /\ picks < MaxPicks /\ I # {} /\ picks' = picks + 1
        /\ counter' = counter + 1
        /\ lastSet' = NamesAt(I)
        /\ window' = IF lastSet = NamesAt(I) THEN Append(window, n) ELSE <<n>>
        /\ UNCHANGED <<models, up, policy, failed, spent, steady, registered>>

\* select with the caller's policy, and the call to the model it named fails.
PickAndFail(p) ==
    LET I == Available(AnyProvider, Range(failed)) IN
    /\ picks < MaxPicks /\ picks' = picks + 1
    /\ ~spent /\ (failed # <<>> => p = policy) /\ policy' = p
    /\ IF I = {} THEN spent' = TRUE /\ UNCHANGED failed
       ELSE failed' = Append(failed, ApplyPolicy(I, p)) /\ UNCHANGED spent
    /\ UNCHANGED <<models, up, counter, steady, window, lastSet, registered>>

\* The call succeeds, or the caller gives up: its next request starts afresh.
FailoverDone ==
    /\ ~Idle
    /\ policy' = "fallback_chain" /\ failed' = <<>> /\ spent' = FALSE /\ steady' = TRUE
    /\ UNCHANGED <<models, up, counter, window, lastSet, registered, picks>>

RouterNext ==
    \/ \E c \in ModelConfigs : RegisterModel(c)
    \/ \E n \in ModelNames : UnregisterModel(n) \/ ChangeAvailability(n)
    \/ ClearModels
    \/ \E f \in Filters, x \in SUBSET ModelNames : SelectRoundRobin(f, x)
    \/ \E p \in Policies \ {"round_robin"} : PickAndFail(p)
    \/ FailoverDone

RouterSpec == RouterInit /\ [][RouterNext]_routerVars

-----------------------------------------------------------------------------
RouterTypeOK ==
    /\ models \in Seq(ModelConfigs) /\ up \subseteq ModelNames
    /\ policy \in Policies /\ failed \in Seq(ModelNames) /\ window \in Seq(ModelNames)
    /\ \A i, j \in DOMAIN models : models[i].name = models[j].name => i = j

\* Round robin is fair to whatever set it meets: as long as the models
\* available to consecutive picks are the same ones, any n picks in a row, n
\* the size of the set, are all different, even when models were registered
\* again or removed in between.
RoundRobinFair ==
    \A i, j \in DOMAIN window :
        i < j /\ j - i < Cardinality(lastSet) => window[i] # window[j]

\* A failover tries no model twice whatever happens to the registry meanwhile;
\* when nothing changed under it, it tries the models in the order its policy
\* prefers, and it gives up only after every enabled and reachable one.
FailoverExhausts ==
    /\ \A i, j \in DOMAIN failed : i # j => failed[i] # failed[j]
    /\ steady =>
        /\ \A i, j \in DOMAIN failed, c, d \in Range(models) :
               i < j /\ c.name = failed[i] /\ d.name = failed[j] => ~Prefers(policy, d, c)
        /\ spent => NamesAt(Available(AnyProvider, {})) = Range(failed)
=============================================================================
