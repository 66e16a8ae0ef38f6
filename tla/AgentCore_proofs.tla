-------------------------- MODULE AgentCore_proofs ---------------------------
(* What holds of the libraries an agent is built from whatever the constants:   *)
(* the model router, the nested provider chains of fallback.py, the routing     *)
(* configurations of multi_agent.py and the hook pipeline; then of all of them, *)
(* with what an agent remembers, side by side as MCAgentCore composes them.     *)
EXTENDS MCAgentCore, AgentMemory_proofs

-----------------------------------------------------------------------------
(* ModelRouter: what a failover has tried, and how round robin takes turns *)

LEMMA OneMore ==
    ASSUME NEW k \in Nat
    PROVE  /\ k + 1 \in Nat /\ k + 1 # 0 /\ k + 1 \notin 1..k
           /\ 1..(k + 1) = (1..k) \cup {k + 1}
           /\ \A i \in 1..k : i \in Nat /\ i < k + 1
  OBVIOUS

\* A finite set of names has a name at every index below its size: the least k
\* without one would have one just above that of k - 1.
LEMMA NthNameIsNth ==
    ASSUME NEW S \in SUBSET Nat, IsFiniteSet(S), NEW k \in Nat, k < Cardinality(S)
    PROVE  NthName(S, k) \in S /\ Cardinality({m \in S : m < NthName(S, k)}) = k
<1> DEFINE Below(x) == {m \in S : m < x}
           Bad == {q \in Nat : q < Cardinality(S) /\ \A x \in S : Cardinality(Below(x)) # q}
<1>0. Cardinality(S) \in Nat
  BY FS_CardinalityType
<1>1. ASSUME Bad # {} PROVE FALSE
  <2>1. PICK q \in Bad : \A r \in Bad : q <= r
    BY <1>1, LeastElement
  <2>2. q \in Nat /\ q < Cardinality(S) /\ \A x \in S : Cardinality(Below(x)) # q
    BY <2>1
  <2>3. CASE q = 0
    <3>1. S # {}
      BY <1>0, <2>2, FS_EmptySet
    <3>2. PICK x \in S : \A j \in S : x <= j
      BY <3>1, LeastElement
    <3>3. Below(x) = {}
      <4>1. \A m \in S : m \in Nat /\ x \in Nat /\ x <= m
        BY <3>2
      <4>2. \A m \in S : ~(m < x)
        BY <4>1
      <4> QED BY <4>2
    <3> QED BY <2>2, <2>3, <3>2, <3>3, FS_EmptySet
  <2>4. CASE q # 0
    <3>1. q - 1 \in Nat /\ q - 1 < Cardinality(S) /\ q - 1 \notin Bad
      <4>1. q - 1 \in Nat /\ q - 1 < q
        BY <2>2, <2>4
      <4> QED BY <1>0, <2>1, <2>2, <4>1
    <3>2. PICK x \in S : Cardinality(Below(x)) = q - 1
      BY <3>1
    <3>3. IsFiniteSet(Below(x)) /\ x \notin Below(x)
      BY FS_Subset
    <3>4. Cardinality(Below(x) \cup {x}) = q
      <4>1. Cardinality(Below(x) \cup {x}) = Cardinality(Below(x)) + 1
        BY <3>3, FS_AddElement
      <4> HIDE DEF Below
      <4> QED BY <2>2, <3>2, <4>1
    <3>5. {m \in S : x < m} # {}
      <4>1. ASSUME {m \in S : x < m} = {} PROVE S = Below(x) \cup {x}
        <5>1. \A m \in S : m \in Nat /\ x \in Nat /\ ~(x < m)
          BY <4>1
        <5>2. \A m \in S : m = x \/ m < x
          BY <5>1
        <5> QED BY <5>2
      <4> HIDE DEF Below
      <4> QED BY <2>2, <3>4, <4>1
    <3>6. PICK y \in {m \in S : x < m} : \A j \in {m \in S : x < m} : y <= j
      BY <3>5, LeastElement
    <3>7. Below(y) = Below(x) \cup {x}
      <4>1. \A m \in S : m \in Nat /\ x \in Nat /\ y \in Nat /\ x < y /\ (x < m => y <= m)
        BY <3>6
      <4>2. \A m \in S : m < y <=> m < x \/ m = x
        BY <4>1
      <4> QED BY <4>2
    <3> QED BY <2>2, <3>4, <3>6, <3>7
  <2> QED BY <2>3, <2>4
<1>2. \E x \in S : Cardinality(Below(x)) = k
  BY <1>1
<1> QED BY <1>2 DEF NthName

LEMMA Division ==
    ASSUME NEW a \in Nat, NEW n \in Nat \ {0}
    PROVE  /\ a \div n \in Nat /\ a % n \in Nat /\ a % n < n
           /\ a = n * (a \div n) + (a % n)
<1>1. a \div n \in Nat /\ a % n \in Nat /\ a % n < n
  OBVIOUS
<1>2. a = n * (a \div n) + (a % n)
  BY SMTT(30)
<1> QED BY <1>1, <1>2

LEMMA SameRemainder ==
    ASSUME NEW a \in Nat, NEW b \in Nat, NEW n \in Nat \ {0}, NEW p \in Nat, NEW q \in Nat, NEW r \in Nat,
           a = n * p + r, b = n * q + r, a < b
    PROVE  b - a >= n
<1>1. b - a = n * (q - p)
  OBVIOUS
<1>2. q - p >= 1
  BY <1>1
<1>3. n * (q - p) >= n
  BY <1>2
<1> QED BY <1>1, <1>3

LEMMA ModDistinct ==
    ASSUME NEW a \in Nat, NEW b \in Nat, NEW n \in Nat \ {0}, a < b, b - a < n
    PROVE  a % n # b % n
<1> SUFFICES ASSUME a % n = b % n PROVE FALSE
  OBVIOUS
<1>1. a \div n \in Nat /\ a % n \in Nat /\ a = n * (a \div n) + (a % n)
  BY Division
<1>2. b \div n \in Nat /\ b = n * (b \div n) + (a % n)
  BY Division
<1>3. b - a >= n
  BY <1>1, <1>2, SameRemainder
<1>4. a \in Nat /\ b \in Nat /\ n \in Nat
  OBVIOUS
<1> QED BY <1>3, <1>4

\* Picks fewer than a round apart name different models.
LEMMA TurnsDiffer ==
    ASSUME NEW S \in SUBSET Nat, IsFiniteSet(S), S # {}, NEW a \in Nat, NEW b \in Nat,
           a < b, b - a < Cardinality(S)
    PROVE  NthName(S, a % Cardinality(S)) # NthName(S, b % Cardinality(S))
<1>1. Cardinality(S) \in Nat \ {0}
  BY FS_CardinalityType, FS_EmptySet
<1>2. /\ a % Cardinality(S) \in Nat /\ a % Cardinality(S) < Cardinality(S)
      /\ b % Cardinality(S) \in Nat /\ b % Cardinality(S) < Cardinality(S)
  BY <1>1, Division
<1>3. a % Cardinality(S) # b % Cardinality(S)
  BY <1>1, ModDistinct
<1>4. /\ Cardinality({m \in S : m < NthName(S, a % Cardinality(S))}) = a % Cardinality(S)
      /\ Cardinality({m \in S : m < NthName(S, b % Cardinality(S))}) = b % Cardinality(S)
  BY <1>2, NthNameIsNth
<1> QED BY <1>3, <1>4

ByValue == Policies \ {"round_robin"}

LEMMA ConfigTyped ==
    ASSUME NEW c \in ModelConfigs
    PROVE  c.cost \in Nat /\ c.quality \in Nat /\ c.order \in Nat /\ c.name \in ModelNames
  BY RouterAssumption DEF ModelNames

\* A policy's order is strict, and what is not preferred to d is not preferred to
\* what is below d.
LEMMA PrefersOrder ==
    ASSUME NEW p \in ByValue, NEW c \in ModelConfigs, NEW d \in ModelConfigs, NEW e \in ModelConfigs
    PROVE  /\ ~Prefers(p, c, c)
           /\ Prefers(p, c, d) /\ ~Prefers(p, e, d) => Prefers(p, c, e) /\ ~Prefers(p, e, c)
<1>1. /\ c.cost \in Nat /\ d.cost \in Nat /\ e.cost \in Nat
      /\ c.quality \in Nat /\ d.quality \in Nat /\ e.quality \in Nat
      /\ c.order \in Nat /\ d.order \in Nat /\ e.order \in Nat
  BY ConfigTyped
<1>2. CASE p = "cost_optimized"
  BY <1>1, <1>2 DEF Prefers
<1>3. CASE p = "quality_first"
  BY <1>1, <1>3 DEF Prefers
<1>4. CASE p = "fallback_chain"
  BY <1>1, <1>4 DEF Prefers
<1> QED BY <1>2, <1>3, <1>4 DEF ByValue, Policies

IsBest(I, p, i) ==
    \A j \in I : ~Prefers(p, models[j], models[i]) /\ (j < i => Prefers(p, models[i], models[j]))

\* min() and max() find one: the least prefix of the list without a best would get
\* one from the prefix before it.
LEMMA FirstBestIsBest ==
    ASSUME models \in Seq(ModelConfigs), NEW p \in ByValue,
           NEW I \in SUBSET DOMAIN models, I # {}
    PROVE  FirstBest(I, p) \in I /\ IsBest(I, p, FirstBest(I, p))
<1> DEFINE Upto(k) == {i \in I : i <= k}
           Bad == {k \in Nat : Upto(k) # {} /\ \A i \in Upto(k) : ~IsBest(Upto(k), p, i)}
<1>1. I \in SUBSET (Nat \ {0}) /\ \A i \in I : models[i] \in ModelConfigs /\ i <= Len(models)
  BY LenProperties, ElementOfSeq
<1>2. ASSUME Bad # {} PROVE FALSE
  <2>1. PICK k \in Bad : \A r \in Bad : k <= r
    BY <1>2, LeastElement
  <2>2. k \in Nat /\ Upto(k) # {} /\ \A i \in Upto(k) : ~IsBest(Upto(k), p, i)
    BY <2>1
  <2>3. k # 0
    BY <1>1, <2>2
  <2>4. k - 1 \in Nat /\ k - 1 \notin Bad
    <3>1. k - 1 \in Nat /\ ~(k <= k - 1)
      BY <2>2, <2>3
    <3> HIDE DEF Bad
    <3> QED BY <2>1, <3>1
  <2>5. k \in I
    <3>1. ASSUME k \notin I PROVE Upto(k) = Upto(k - 1)
      BY <1>1, <2>2, <2>4, <3>1
    <3> HIDE DEF Upto
    <3>2. ASSUME k \notin I PROVE k - 1 \in Bad
      <4>1. Upto(k - 1) # {} /\ \A i \in Upto(k - 1) : ~IsBest(Upto(k - 1), p, i)
        BY <2>2, <3>1, <3>2
      <4> QED BY <2>4, <4>1
    <3> QED BY <2>4, <3>2
  <2>6. Upto(k) = Upto(k - 1) \cup {k} /\ \A j \in Upto(k - 1) : j \in I /\ j < k
    BY <1>1, <2>2, <2>4, <2>5
  <2>7. ~Prefers(p, models[k], models[k])
    BY <1>1, <2>5, PrefersOrder
  <2>8. CASE Upto(k - 1) = {}
    <3>1. Upto(k) = {k}
      BY <2>6, <2>8
    <3>2. IsBest(Upto(k), p, k)
      BY <2>2, <2>7, <3>1 DEF IsBest
    <3> QED BY <2>2, <3>1, <3>2
  <2>9. CASE Upto(k - 1) # {}
    <3>1. PICK b \in Upto(k - 1) : IsBest(Upto(k - 1), p, b)
      BY <2>4, <2>9
    <3>2. b \in I /\ b < k /\ b \in Nat /\ k \in Nat
      BY <1>1, <2>2, <2>6, <3>1
    <3>3. CASE Prefers(p, models[k], models[b])
      <4>1. ASSUME NEW j \in Upto(k - 1)
            PROVE  ~Prefers(p, models[j], models[k]) /\ Prefers(p, models[k], models[j])
        <5>1. ~Prefers(p, models[j], models[b]) /\ j \in I
          BY <3>1, <4>1 DEF IsBest
        <5> QED BY <1>1, <2>5, <3>2, <3>3, <5>1, PrefersOrder
      <4>2. ~(k < k)
        BY <2>2
      <4> HIDE DEF Upto
      <4>3. IsBest(Upto(k), p, k)
        BY <2>6, <2>7, <4>1, <4>2 DEF IsBest
      <4> QED BY <2>2, <2>6, <4>3
    <3>4. CASE ~Prefers(p, models[k], models[b])
      <4>1. ~(k < b)
        BY <3>2
      <4> HIDE DEF Upto
      <4>2. IsBest(Upto(k), p, b)
        BY <2>6, <3>1, <3>4, <4>1 DEF IsBest
      <4> QED BY <2>2, <2>6, <3>1, <4>2
    <3> QED BY <3>3, <3>4
  <2> QED BY <2>8, <2>9
<1>3. Upto(Len(models)) = I /\ Len(models) \in Nat
  BY <1>1, LenProperties
<1>4. \E i \in I : IsBest(I, p, i)
  BY <1>2, <1>3
<1>5. FirstBest(I, p) = CHOOSE i \in I : IsBest(I, p, i)
  BY DEF FirstBest, IsBest
<1> QED BY <1>4, <1>5

-----------------------------------------------------------------------------
Reachable == Available(AnyProvider, {})

RegistryInv ==
    /\ models \in Seq(ModelConfigs)
    /\ \A i, j \in DOMAIN models : models[i].name = models[j].name => i = j

\* Inductive strengthening of FailoverExhausts: under a registry that did not change,
\* what was tried is reachable, and was best among what was not tried before it.
FailoverInv ==
    /\ failed \in Seq(ModelNames) /\ policy \in ByValue
    /\ \A i, j \in DOMAIN failed : i # j => failed[i] # failed[j]
    /\ steady =>
        /\ Range(failed) \subseteq NamesAt(Reachable)
        /\ \A i \in DOMAIN failed, k \in Reachable, l \in DOMAIN models :
               models[l].name = failed[i] /\ (\A m \in 1..(i - 1) : failed[m] # models[k].name)
               => ~Prefers(policy, models[k], models[l])
        /\ spent => NamesAt(Reachable) \subseteq Range(failed)

\* The count of picks before the i-th pick of the window.
PicksBefore(i) == counter - Len(window) + (i - 1)

\* Inductive strengthening of RoundRobinFair: the window's picks had consecutive counts.
RoundInv ==
    /\ window \in Seq(ModelNames) /\ counter \in Nat /\ Len(window) <= counter
    /\ lastSet \in SUBSET ModelNames /\ IsFiniteSet(lastSet)
    /\ window # <<>> => lastSet # {}
    /\ \A i \in DOMAIN window :
           window[i] = NthName(lastSet, PicksBefore(i) % Cardinality(lastSet))

LEMMA RouterBegins == RouterInit => RegistryInv /\ FailoverInv /\ RoundInv
<1> SUFFICES ASSUME RouterInit PROVE RegistryInv /\ FailoverInv /\ RoundInv
  OBVIOUS
<1>1. /\ <<>> \in Seq(ModelConfigs) /\ <<>> \in Seq(ModelNames) /\ Len(<<>>) = 0 /\ DOMAIN <<>> = {}
      /\ IsFiniteSet({})
  BY EmptySeq, FS_EmptySet
<1>2. /\ models = <<>> /\ counter = 0 /\ policy = "fallback_chain" /\ failed = <<>> /\ ~spent
      /\ window = <<>> /\ lastSet = {}
  BY DEF RouterInit
<1>3. RegistryInv
  BY <1>1, <1>2 DEF RegistryInv
<1>4. FailoverInv
  BY <1>1, <1>2 DEF FailoverInv, ByValue, Policies, Range
<1>5. RoundInv
  BY <1>1, <1>2 DEF RoundInv
<1> QED BY <1>3, <1>4, <1>5

LEMMA RemoveAtElements ==
    ASSUME NEW S, NEW s \in Seq(S), NEW i \in DOMAIN s
    PROVE  /\ RemoveAt(s, i) \in Seq(S)
           /\ DOMAIN RemoveAt(s, i) = 1..(Len(s) - 1)
           /\ \A j \in 1..(Len(s) - 1) : RemoveAt(s, i)[j] = IF j < i THEN s[j] ELSE s[j + 1]
<1> DEFINE before == SubSeq(s, 1, i - 1)
           after == SubSeq(s, i + 1, Len(s))
<1>1. Len(s) \in Nat /\ i \in 1..Len(s)
  BY LenProperties
<1>2. /\ before \in Seq(S) /\ Len(before) = i - 1
      /\ \A j \in 1..(i - 1) : before[j] = s[j]
  <2>1. 1 \in 1..(Len(s) + 1) /\ i - 1 \in (1 - 1)..Len(s)
    BY <1>1
  <2>2. /\ before \in Seq(S) /\ Len(before) = IF 1 <= i - 1 THEN (i - 1) - 1 + 1 ELSE 0
        /\ \A j \in 1..((i - 1) - 1 + 1) : before[j] = s[1 + j - 1]
    BY <2>1, SubSeqProperties
  <2> HIDE DEF before
  <2>3. (i - 1) - 1 + 1 = i - 1 /\ (IF 1 <= i - 1 THEN (i - 1) - 1 + 1 ELSE 0) = i - 1
    BY <1>1
  <2>4. \A j \in 1..(i - 1) : 1 + j - 1 = j
    BY <1>1
  <2> QED BY <2>2, <2>3, <2>4
<1>3. /\ after \in Seq(S) /\ Len(after) = Len(s) - i
      /\ \A j \in 1..(Len(s) - i) : after[j] = s[i + j]
  <2>1. i + 1 \in 1..(Len(s) + 1) /\ Len(s) \in ((i + 1) - 1)..Len(s)
    BY <1>1
  <2>2. /\ after \in Seq(S) /\ Len(after) = IF i + 1 <= Len(s) THEN Len(s) - (i + 1) + 1 ELSE 0
        /\ \A j \in 1..(Len(s) - (i + 1) + 1) : after[j] = s[(i + 1) + j - 1]
    BY <2>1, SubSeqProperties
  <2> HIDE DEF after
  <2>3. Len(s) - (i + 1) + 1 = Len(s) - i
    BY <1>1
  <2>4. (IF i + 1 <= Len(s) THEN Len(s) - (i + 1) + 1 ELSE 0) = Len(s) - i
    BY <1>1
  <2>5. \A j \in 1..(Len(s) - i) : (i + 1) + j - 1 = i + j
    BY <1>1
  <2> QED BY <2>2, <2>3, <2>4, <2>5
<1>4. RemoveAt(s, i) = before \o after
  BY DEF RemoveAt
<1> HIDE DEF before, after
<1>5. /\ before \o after \in Seq(S) /\ Len(before \o after) = Len(before) + Len(after)
      /\ \A j \in 1..(Len(before) + Len(after)) :
             (before \o after)[j] = IF j <= Len(before) THEN before[j] ELSE after[j - Len(before)]
  BY <1>2, <1>3, ConcatProperties
<1>6. Len(before) + Len(after) = Len(s) - 1
  BY <1>1, <1>2, <1>3
<1>7. DOMAIN (before \o after) = 1..(Len(s) - 1)
  BY <1>5, <1>6, LenProperties
<1>8. ASSUME NEW j \in 1..(Len(s) - 1)
      PROVE  (before \o after)[j] = IF j < i THEN s[j] ELSE s[j + 1]
  <2>1. CASE j < i
    <3>1. j \in 1..(i - 1) /\ j <= Len(before)
      BY <1>1, <1>2, <2>1
    <3> QED BY <1>2, <1>5, <1>6, <2>1, <3>1
  <2>2. CASE ~(j < i)
    <3>1. /\ j - (i - 1) \in 1..(Len(s) - i) /\ ~(j <= i - 1) /\ i + (j - (i - 1)) = j + 1
      BY <1>1, <2>2
    <3>2. (before \o after)[j] = after[j - (i - 1)]
      BY <1>2, <1>5, <1>6, <3>1
    <3> QED BY <1>3, <2>2, <3>1, <3>2
  <2> QED BY <2>1, <2>2
<1> QED BY <1>4, <1>5, <1>7, <1>8

\* A change of the registry leaves one entry per name, whatever it is.
LEMMA RegistryKept ==
    ASSUME RegistryInv, RouterNext
    PROVE  RegistryInv'
<1>1. ASSUME NEW c \in ModelConfigs, RegisterModel(c) PROVE RegistryInv'
  <2>1. CASE Registered(c.name)
    <3>1. models' = [i \in DOMAIN models |-> IF models[i].name = c.name THEN c ELSE models[i]]
      BY <1>1, <2>1 DEF RegisterModel
    <3>2. DOMAIN models = 1..Len(models) /\ Len(models) \in Nat
          /\ \A i \in DOMAIN models : models[i] \in ModelConfigs
      BY LenProperties, ElementOfSeq DEF RegistryInv
    <3>3. models' \in Seq(ModelConfigs)
      <4>1. models' \in [1..Len(models) -> ModelConfigs]
        BY <3>1, <3>2
      <4> QED BY <3>2, <4>1, SeqDef
    <3>4. \A i \in DOMAIN models' : models'[i].name = models[i].name /\ i \in DOMAIN models
      BY <3>1
    <3> QED BY <3>3, <3>4 DEF RegistryInv
  <2>2. CASE ~Registered(c.name)
    <3>1. models' = Append(models, c)
      BY <1>1, <2>2 DEF RegisterModel
    <3>2. Len(models) \in Nat /\ DOMAIN models = 1..Len(models)
      BY LenProperties DEF RegistryInv
    <3>3. /\ models' \in Seq(ModelConfigs) /\ Len(models') = Len(models) + 1
          /\ models'[Len(models) + 1] = c /\ \A i \in DOMAIN models : models'[i] = models[i]
      BY <3>1, <3>2, AppendProperties DEF RegistryInv
    <3>4. DOMAIN models' = DOMAIN models \cup {Len(models) + 1}
      <4>1. DOMAIN models' = 1..(Len(models) + 1)
        BY <3>3, LenProperties
      <4> QED BY <3>2, <4>1, OneMore
    <3>5. \A i \in DOMAIN models : models'[i].name # c.name
      BY <2>2, <3>3 DEF Registered
    <3> QED BY <3>3, <3>4, <3>5 DEF RegistryInv
  <2> QED BY <2>1, <2>2
<1>2. ASSUME NEW n \in ModelNames, UnregisterModel(n) PROVE RegistryInv'
  <2>1. CASE UNCHANGED models
    BY <2>1 DEF RegistryInv
  <2>2. CASE \E i \in DOMAIN models : models' = RemoveAt(models, i)
    <3>1. PICK i \in DOMAIN models : models' = RemoveAt(models, i)
      BY <2>2
    <3>2. Len(models) \in Nat /\ DOMAIN models = 1..Len(models)
      BY LenProperties DEF RegistryInv
    <3>3. /\ models' \in Seq(ModelConfigs) /\ DOMAIN models' = 1..(Len(models) - 1)
          /\ \A j \in 1..(Len(models) - 1) : models'[j] = IF j < i THEN models[j] ELSE models[j + 1]
      BY <3>1, RemoveAtElements DEF RegistryInv
    <3>4. ASSUME NEW j \in DOMAIN models', NEW k \in DOMAIN models', models'[j].name = models'[k].name
          PROVE  j = k
      <4> DEFINE at(x) == IF x < i THEN x ELSE x + 1
      <4>1. at(j) \in DOMAIN models /\ at(k) \in DOMAIN models
        BY <3>2, <3>3
      <4>2. models'[j] = models[at(j)] /\ models'[k] = models[at(k)]
        BY <3>3
      <4>3. at(j) = at(k)
        BY <3>4, <4>1, <4>2 DEF RegistryInv
      <4>4. i \in Nat /\ j \in Nat /\ k \in Nat
        BY <3>2, <3>3
      <4> QED BY <4>3, <4>4
    <3> QED BY <3>3, <3>4 DEF RegistryInv
  <2> QED BY <1>2, <2>1, <2>2 DEF UnregisterModel
<1>3. CASE ClearModels
  BY <1>3, EmptySeq DEF ClearModels, RegistryInv
<1>4. ASSUME UNCHANGED models PROVE RegistryInv'
  BY <1>4 DEF RegistryInv
<1> QED
  BY <1>1, <1>2, <1>3, <1>4 DEF RouterNext, ChangeAvailability, SelectRoundRobin, PickAndFail, FailoverDone

LEMMA ReachableModels ==
    ASSUME RegistryInv, NEW filter, NEW exclude
    PROVE  LET I == Available(filter, exclude) IN
           /\ I \in SUBSET DOMAIN models /\ I \in SUBSET Nat
           /\ NamesAt(I) \in SUBSET ModelNames /\ NamesAt(I) \in SUBSET Nat
           /\ IsFiniteSet(NamesAt(I)) /\ (I # {} => NamesAt(I) # {})
<1> DEFINE I == Available(filter, exclude)
<1>1. I \in SUBSET DOMAIN models
  BY DEF Available, ListEnabled
<1>2. /\ DOMAIN models = 1..Len(models) /\ Len(models) \in Nat
      /\ \A i \in DOMAIN models : models[i] \in ModelConfigs
  BY LenProperties, ElementOfSeq DEF RegistryInv
<1> HIDE DEF I
<1>3. IsFiniteSet(I)
  <2>1. IsFiniteSet(1..Len(models))
    BY <1>2, FS_Interval
  <2> QED BY <1>1, <1>2, <2>1, FS_Subset
<1>4. IsFiniteSet(NamesAt(I))
  <2> DEFINE f == [i \in I |-> models[i].name]
  <2>1. f \in Surjection(I, NamesAt(I))
    BY DEF Surjection, NamesAt
  <2> QED BY <1>3, <2>1, FS_Surjection
<1>5. NamesAt(I) \in SUBSET ModelNames
  BY <1>1, <1>2 DEF NamesAt, ModelNames
<1>6. I \in SUBSET Nat /\ NamesAt(I) \in SUBSET Nat
  <2>1. DOMAIN models \in SUBSET Nat
    BY <1>2
  <2>2. ModelNames \in SUBSET Nat
    BY RouterAssumption
  <2> QED BY <1>1, <1>5, <2>1, <2>2
<1>7. I # {} => NamesAt(I) # {}
  BY DEF NamesAt
<1> QED BY <1>1, <1>4, <1>5, <1>6, <1>7 DEF I

\* What PickAndFail picks is reachable, was not tried, and none of those left is preferred.
LEMMA PickIsBest ==
    ASSUME RegistryInv, FailoverInv, NEW p \in ByValue, NEW I, I = Available(AnyProvider, Range(failed)),
           I # {}
    PROVE  \E b \in Reachable :
             /\ b \in DOMAIN models /\ ApplyPolicy(I, p) = models[b].name
             /\ models[b].name \in ModelNames /\ models[b].name \notin Range(failed)
             /\ \A k \in Reachable :
                  models[k].name \notin Range(failed) => ~Prefers(p, models[k], models[b])
<1> DEFINE b == FirstBest(I, p)
<1>1. I \in SUBSET DOMAIN models
  BY ReachableModels
<1>2. models \in Seq(ModelConfigs)
  BY DEF RegistryInv
<1>3. b \in I /\ IsBest(I, p, b)
  BY <1>1, <1>2, FirstBestIsBest
<1>4. p # "round_robin"
  BY DEF ByValue
<1>5. ApplyPolicy(I, p) = models[b].name
  BY <1>4 DEF ApplyPolicy
<1>6. I = {k \in Reachable : models[k].name \notin Range(failed)}
  BY DEF Available, Reachable
<1>7. models[b].name \in ModelNames
  BY <1>1, <1>2, <1>3, ElementOfSeq, LenProperties, ConfigTyped
<1> HIDE DEF b
<1> QED BY <1>1, <1>3, <1>5, <1>6, <1>7 DEF IsBest

LEMMA PickKeepsFailover ==
    ASSUME RegistryInv, FailoverInv, NEW p \in ByValue, PickAndFail(p)
    PROVE  FailoverInv'
<1> DEFINE I == Available(AnyProvider, Range(failed))
<1>1. /\ ~spent /\ (failed # <<>> => p = policy) /\ policy' = p
      /\ IF I = {} THEN spent' = TRUE /\ UNCHANGED failed
         ELSE failed' = Append(failed, ApplyPolicy(I, p)) /\ UNCHANGED spent
      /\ UNCHANGED <<models, up, steady>>
  BY DEF PickAndFail
<1>2. Reachable' = Reachable /\ NamesAt(Reachable)' = NamesAt(Reachable)
  BY <1>1 DEF Reachable, NamesAt, Available, ListEnabled
<1>3. /\ failed \in Seq(ModelNames) /\ Len(failed) \in Nat /\ DOMAIN failed = 1..Len(failed)
      /\ DOMAIN failed # {} => p = policy
  BY <1>1, LenProperties, EmptySeq DEF FailoverInv
<1>4. CASE I = {}
  <2>1. \A k \in Reachable : models[k].name \in Range(failed)
    BY <1>4 DEF Available, Reachable
  <2>2. NamesAt(Reachable) \subseteq Range(failed)
    BY <2>1 DEF NamesAt
  <2>3. spent' = TRUE /\ failed' = failed
    BY <1>1, <1>4
  <2>4. \A i \in DOMAIN failed : policy' = policy
    BY <1>1, <1>3
  <2>5. steady' =>
          \A i \in DOMAIN failed', k \in Reachable', l \in DOMAIN models' :
              models'[l].name = failed'[i] /\ (\A m \in 1..(i - 1) : failed'[m] # models'[k].name)
              => ~Prefers(policy', models'[k], models'[l])
    BY <1>1, <1>2, <2>3, <2>4 DEF FailoverInv
  <2>6. steady' => Range(failed') \subseteq NamesAt(Reachable) /\ NamesAt(Reachable) \subseteq Range(failed')
    BY <1>1, <2>2, <2>3 DEF FailoverInv
  <2> QED BY <1>1, <1>2, <2>3, <2>5, <2>6 DEF FailoverInv
<1>5. CASE I # {}
  <2>1. PICK b \in Reachable :
             /\ b \in DOMAIN models /\ ApplyPolicy(I, p) = models[b].name
             /\ models[b].name \in ModelNames /\ models[b].name \notin Range(failed)
             /\ \A k \in Reachable :
                  models[k].name \notin Range(failed) => ~Prefers(p, models[k], models[b])
    BY <1>5, PickIsBest
  <2>2. PICK n \in ModelNames : n = models[b].name
    BY <2>1
  <2>3. failed' = Append(failed, n) /\ ~spent'
    BY <1>1, <1>5, <2>1, <2>2
  <2>4. PICK z \in Nat : z = Len(failed) + 1
    BY <1>3, OneMore
  <2>5. /\ failed' \in Seq(ModelNames) /\ Len(failed') = z /\ failed'[z] = n
        /\ \A i \in DOMAIN failed : failed'[i] = failed[i]
    BY <1>3, <2>3, <2>4, AppendProperties
  <2>6. DOMAIN failed' = DOMAIN failed \cup {z} /\ z \notin DOMAIN failed
    <3>1. DOMAIN failed' = 1..z
      BY <2>5, LenProperties
    <3> QED BY <1>3, <2>4, <3>1, OneMore
  <2>7. \A i \in DOMAIN failed : failed[i] # n
    BY <2>1, <2>2 DEF Range
  <2>8. \A i, j \in DOMAIN failed' : i # j => failed'[i] # failed'[j]
    BY <2>5, <2>6, <2>7 DEF FailoverInv
  <2>9. Range(failed') = Range(failed) \cup {n}
    BY <2>5, <2>6 DEF Range
  <2>10. n \in NamesAt(Reachable)
    BY <2>1, <2>2 DEF NamesAt
  <2>11. ASSUME steady, NEW i \in DOMAIN failed', NEW k \in Reachable, NEW l \in DOMAIN models,
                models[l].name = failed'[i], \A m \in 1..(i - 1) : failed'[m] # models[k].name
         PROVE  ~Prefers(p, models[k], models[l])
    <3>1. CASE i \in DOMAIN failed
      <4>1. p = policy /\ models[l].name = failed[i]
        BY <1>3, <2>5, <2>11, <3>1
      <4>2. \A m \in 1..(i - 1) : m \in DOMAIN failed
        BY <1>3, <3>1
      <4>3. \A m \in 1..(i - 1) : failed[m] # models[k].name
        BY <2>5, <2>11, <4>2
      <4> QED BY <2>11, <3>1, <4>1, <4>3 DEF FailoverInv
    <3>2. CASE i = z
      <4>1. l = b
        BY <2>1, <2>2, <2>5, <2>11, <3>2 DEF RegistryInv
      <4>2. 1..(i - 1) = DOMAIN failed
        BY <1>3, <2>4, <3>2
      <4>3. models[k].name \notin Range(failed)
        BY <2>5, <2>11, <4>2 DEF Range
      <4> QED BY <2>1, <4>1, <4>3
    <3> QED BY <2>6, <3>1, <3>2
  <2>12. steady' =>
           /\ Range(failed)' \subseteq NamesAt(Reachable)'
           /\ \A i \in DOMAIN failed', k \in Reachable', l \in DOMAIN models' :
                  models'[l].name = failed'[i] /\ (\A m \in 1..(i - 1) : failed'[m] # models'[k].name)
                  => ~Prefers(policy', models'[k], models'[l])
    <3>1. steady => Range(failed') \subseteq NamesAt(Reachable)
      BY <2>9, <2>10 DEF FailoverInv
    <3> QED BY <1>1, <1>2, <2>11, <3>1
  <2> QED BY <1>1, <2>3, <2>5, <2>8, <2>12 DEF FailoverInv
<1> QED BY <1>4, <1>5

LEMMA FailoverKept ==
    ASSUME RegistryInv, FailoverInv, RouterNext
    PROVE  FailoverInv'
<1>1. ASSUME UNCHANGED <<policy, failed, spent>>, steady' = Idle PROVE FailoverInv'
  <2>1. CASE Idle
    <3>1. failed' = <<>> /\ ~spent' /\ DOMAIN failed' = {}
      BY <1>1, <2>1, EmptySeq DEF Idle
    <3>2. Range(failed') = {}
      BY <3>1 DEF Range
    <3> QED BY <1>1, <3>1, <3>2 DEF FailoverInv
  <2>2. CASE ~Idle
    <3>1. ~steady'
      BY <1>1, <2>2
    <3> QED BY <1>1, <3>1 DEF FailoverInv
  <2> QED BY <2>1, <2>2
<1>2. ASSUME RegistryStep PROVE FailoverInv'
  BY <1>1, <1>2 DEF RegistryStep
<1>3. ASSUME NEW n \in ModelNames, ChangeAvailability(n) PROVE FailoverInv'
  BY <1>1, <1>3 DEF ChangeAvailability
<1>4. ASSUME NEW f \in Filters, NEW x \in SUBSET ModelNames, SelectRoundRobin(f, x) PROVE FailoverInv'
  <2>1. UNCHANGED <<models, up, policy, failed, spent, steady>>
    BY <1>4 DEF SelectRoundRobin
  <2>2. Reachable' = Reachable /\ NamesAt(Reachable)' = NamesAt(Reachable)
    BY <2>1 DEF Reachable, NamesAt, Available, ListEnabled
  <2> QED BY <2>1, <2>2 DEF FailoverInv
<1>5. CASE FailoverDone
  <2>1. failed' = <<>> /\ ~spent' /\ policy' = "fallback_chain" /\ <<>> \in Seq(ModelNames) /\ DOMAIN <<>> = {}
    BY <1>5, EmptySeq DEF FailoverDone
  <2>2. Range(failed') = {}
    BY <2>1 DEF Range
  <2>3. policy' \in ByValue
    BY <2>1 DEF ByValue, Policies
  <2> QED BY <2>1, <2>2, <2>3 DEF FailoverInv
<1> QED BY <1>2, <1>3, <1>4, <1>5, PickKeepsFailover
        DEF RouterNext, RegisterModel, UnregisterModel, ClearModels, ByValue

LEMMA RoundKept ==
    ASSUME RegistryInv, RoundInv, RouterNext
    PROVE  RoundInv'
<1>1. ASSUME UNCHANGED <<counter, window, lastSet>> PROVE RoundInv'
  <2>1. \A i : PicksBefore(i)' = PicksBefore(i)
    BY <1>1 DEF PicksBefore
  <2> QED BY <1>1, <2>1 DEF RoundInv
<1>2. ASSUME NEW f \in Filters, NEW x \in SUBSET ModelNames, SelectRoundRobin(f, x) PROVE RoundInv'
  <2> DEFINE S == NamesAt(Available(f, x))
             n == NthName(S, counter % Cardinality(S))
  <2>1. /\ Available(f, x) # {} /\ counter' = counter + 1 /\ lastSet' = S
        /\ window' = IF lastSet = S THEN Append(window, n) ELSE <<n>>
    BY <1>2 DEF SelectRoundRobin, ApplyPolicy
  <2>2. S \in SUBSET ModelNames /\ S \in SUBSET Nat /\ IsFiniteSet(S) /\ S # {}
    BY <2>1, ReachableModels
  <2>3. n \in ModelNames
    <3>1. Cardinality(S) \in Nat \ {0} /\ counter \in Nat
      BY <2>2, FS_CardinalityType, FS_EmptySet DEF RoundInv
    <3>2. n \in S
      BY <2>2, <3>1, Division, NthNameIsNth
    <3> QED BY <2>2, <3>2
  <2> HIDE DEF S
  <2>4. Len(window) \in Nat /\ DOMAIN window = 1..Len(window) /\ counter \in Nat /\ Len(window) <= counter
    BY LenProperties DEF RoundInv
  <2>5. CASE lastSet = S
    <3>1. PICK z \in Nat : z = Len(window) + 1
      BY <2>4, OneMore
    <3>2. /\ window' \in Seq(ModelNames) /\ Len(window') = z /\ window'[z] = n
          /\ \A i \in DOMAIN window : window'[i] = window[i]
      BY <2>1, <2>3, <2>4, <2>5, <3>1, AppendProperties DEF RoundInv
    <3>3. DOMAIN window' = DOMAIN window \cup {z}
      <4>1. DOMAIN window' = 1..z
        BY <3>2, LenProperties
      <4> QED BY <2>4, <3>1, <4>1, OneMore
    <3>4. ASSUME NEW i \in Nat PROVE PicksBefore(i)' = PicksBefore(i)
      <4>1. counter' - Len(window') = counter - Len(window)
        BY <2>1, <2>4, <3>1, <3>2
      <4> QED BY <4>1 DEF PicksBefore
    <3>5. PicksBefore(z) = counter
      BY <2>4, <3>1 DEF PicksBefore
    <3>6. ASSUME NEW i \in DOMAIN window'
          PROVE  window'[i] = NthName(lastSet', PicksBefore(i)' % Cardinality(lastSet'))
      <4>1. CASE i = z
        BY <2>1, <3>1, <3>2, <3>4, <3>5, <4>1 DEF n
      <4>2. CASE i \in DOMAIN window
        <5>1. PicksBefore(i)' = PicksBefore(i) /\ lastSet' = lastSet /\ window'[i] = window[i]
          BY <2>1, <2>4, <2>5, <3>2, <3>4, <4>2
        <5> QED BY <4>2, <5>1 DEF RoundInv
      <4> QED BY <3>3, <4>1, <4>2
    <3>7. counter' \in Nat /\ Len(window') <= counter'
      BY <2>1, <2>4, <3>1, <3>2
    <3> QED BY <2>1, <2>2, <3>2, <3>6, <3>7 DEF RoundInv
  <2>6. CASE lastSet # S
    <3>1. window' = <<n>>
      BY <2>1, <2>6
    <3>2. window' \in Seq(ModelNames) /\ Len(window') = 1 /\ DOMAIN window' = 1..1 /\ window'[1] = n
      BY <2>3, <3>1
    <3>3. PicksBefore(1)' = counter
      BY <2>1, <2>4, <3>2 DEF PicksBefore
    <3>4. counter' \in Nat /\ Len(window') <= counter'
      BY <2>1, <2>4, <3>2
    <3>5. \A i \in DOMAIN window' : window'[i] = NthName(lastSet', PicksBefore(i)' % Cardinality(lastSet'))
      BY <2>1, <3>2, <3>3 DEF n
    <3> QED BY <2>1, <2>2, <3>2, <3>4, <3>5 DEF RoundInv
  <2> QED BY <2>5, <2>6
<1> QED BY <1>1, <1>2 DEF RouterNext, RegisterModel, UnregisterModel, ClearModels, RegistryStep,
                          ChangeAvailability, PickAndFail, FailoverDone

LEMMA RouterKeeps ==
    RegistryInv /\ FailoverInv /\ RoundInv /\ [RouterNext]_routerVars
    => (RegistryInv /\ FailoverInv /\ RoundInv)'
<1> SUFFICES ASSUME RegistryInv, FailoverInv, RoundInv, [RouterNext]_routerVars
             PROVE  RegistryInv' /\ FailoverInv' /\ RoundInv'
  OBVIOUS
<1>1. CASE RouterNext
  BY <1>1, RegistryKept, FailoverKept, RoundKept
<1>2. CASE UNCHANGED routerVars
  <2>1. Reachable' = Reachable /\ NamesAt(Reachable)' = NamesAt(Reachable) /\ \A i : PicksBefore(i)' = PicksBefore(i)
    BY <1>2 DEF routerVars, Reachable, NamesAt, Available, ListEnabled, PicksBefore
  <2> QED BY <1>2, <2>1 DEF routerVars, RegistryInv, FailoverInv, RoundInv
<1> QED BY <1>1, <1>2

\* A failover tries no model twice whatever happens to the registry meanwhile; when
\* nothing changed under it, it tries them in the order of its policy and gives up
\* only after all that are enabled and reachable, for any models and any ties.
THEOREM FailoverTriesAll == RouterSpec => []FailoverExhausts
<1>1. RegistryInv /\ FailoverInv => FailoverExhausts
  <2> SUFFICES ASSUME RegistryInv, FailoverInv PROVE FailoverExhausts
    OBVIOUS
  <2>1. \A i, j \in DOMAIN failed : i # j => failed[i] # failed[j]
    BY DEF FailoverInv
  <2>2. ASSUME steady, NEW i \in DOMAIN failed, NEW j \in DOMAIN failed,
               NEW c \in Range(models), NEW d \in Range(models),
               i < j, c.name = failed[i], d.name = failed[j]
        PROVE  ~Prefers(policy, d, c)
    <3>1. PICK l \in DOMAIN models : models[l] = c
      BY DEF Range
    <3>2. PICK q \in DOMAIN models : models[q] = d
      BY DEF Range
    <3>3. PICK k \in Reachable : models[k].name = failed[j]
      BY <2>2 DEF FailoverInv, NamesAt, Range
    <3>4. k = q
      BY <2>2, <3>2, <3>3 DEF RegistryInv, Reachable, Available, ListEnabled
    <3>5. DOMAIN failed = 1..Len(failed) /\ Len(failed) \in Nat
      BY LenProperties DEF FailoverInv
    <3>6. \A m \in 1..(i - 1) : m \in DOMAIN failed /\ m # j
      BY <2>2, <3>5
    <3>7. \A m \in 1..(i - 1) : failed[m] # models[k].name
      BY <2>1, <3>3, <3>6
    <3> QED BY <2>2, <3>1, <3>2, <3>3, <3>4, <3>7 DEF FailoverInv
  <2>3. steady /\ spent => NamesAt(Available(AnyProvider, {})) = Range(failed)
    BY DEF FailoverInv, Reachable
  <2> QED BY <2>1, <2>2, <2>3 DEF FailoverExhausts
<1> QED BY <1>1, RouterBegins, RouterKeeps, PTL DEF RouterSpec

\* Any n picks in a row over one set of n available models name n different models,
\* for any set, and however the registry is changed and put back in between.
THEOREM RoundRobinTakesTurns == RouterSpec => []RoundRobinFair
<1>1. RoundInv => RoundRobinFair
  <2> SUFFICES ASSUME RoundInv, NEW i \in DOMAIN window, NEW j \in DOMAIN window,
                      i < j, j - i < Cardinality(lastSet)
               PROVE  window[i] # window[j]
    BY DEF RoundRobinFair
  <2>1. Len(window) \in Nat /\ DOMAIN window = 1..Len(window) /\ counter \in Nat /\ Len(window) <= counter
    BY LenProperties DEF RoundInv
  <2>2. lastSet \in SUBSET Nat /\ IsFiniteSet(lastSet) /\ lastSet # {}
    <3>1. window # <<>>
      BY EmptySeq
    <3> QED BY <3>1, RouterAssumption DEF RoundInv
  <2>3. /\ PicksBefore(i) \in Nat /\ PicksBefore(j) \in Nat
        /\ PicksBefore(i) < PicksBefore(j) /\ PicksBefore(j) - PicksBefore(i) = j - i
    BY <2>1 DEF PicksBefore
  <2>4. NthName(lastSet, PicksBefore(i) % Cardinality(lastSet))
        # NthName(lastSet, PicksBefore(j) % Cardinality(lastSet))
    BY <2>2, <2>3, TurnsDiffer
  <2> QED BY <2>4 DEF RoundInv
<1> QED BY <1>1, RouterBegins, RouterKeeps, PTL DEF RouterSpec

-----------------------------------------------------------------------------
(* ProviderChain: a chain never goes back, and gives up only when it must *)

\* q is called because p failed with e: the parts of FallbackOrder for one error.
CalledNext(p, q, e) ==
    IF p[1] = q[1] THEN q[2] = p[2] + 1 /\ IsRetryable(InnerCodes(p[1]), e)
    ELSE /\ q = <<p[1] + 1, 1>> /\ IsRetryable(OuterCodes, e)
         /\ p[2] < Chain[p[1]].members => ~IsRetryable(InnerCodes(p[1]), e)

\* Nobody is called after p failed with e.
GivesUp(p, e) ==
    /\ p[2] = Chain[p[1]].members \/ ~IsRetryable(InnerCodes(p[1]), e)
    /\ p[1] = Len(Chain) \/ ~IsRetryable(OuterCodes, e)

\* Every call but the last was followed for a reason, and came before those after it.
CallsInOrder ==
    /\ \A i, j \in DOMAIN called : i < j => Before(called[i], called[j])
    /\ \A i \in 1..(Len(called) - 1) : CalledNext(called[i], called[i + 1], errors[i])

\* Inductive strengthening of FallbackOrder: while a call runs, each provider but
\* the current one has failed, and no chunk is of a provider after it.
ChainInv ==
    /\ ChainTypeOK
    /\ mode = "idle" => outcome = "pending" /\ called = <<>> /\ errors = <<>> /\ chunks = <<>>
    /\ mode # "idle" => called # <<>>
    /\ Running \/ outcome = "answered" => Len(errors) = Len(called) - 1
    /\ CallsInOrder
    /\ outcome = "raised" => Len(errors) = Len(called) /\ GivesUp(Current, errors[Len(errors)])
    /\ \A i \in DOMAIN chunks : ~Before(Current, chunks[i])
    /\ \A i, j \in DOMAIN chunks : i < j => ~Before(chunks[j], chunks[i])

LEMMA ChainIsSequence ==
    /\ DOMAIN Chain = 1..Len(Chain) /\ Len(Chain) \in Nat \ {0}
    /\ \A g \in DOMAIN Chain : Chain[g].members \in Nat \ {0}
<1> DEFINE Group == [members : Nat \ {0}, codes : SUBSET StatusCodes]
<1>1. Chain \in Seq(Group) /\ Chain # <<>>
  BY ChainAssumption
<1>2. DOMAIN Chain = 1..Len(Chain) /\ Len(Chain) \in Nat \ {0}
  BY <1>1, LenProperties, EmptySeq
<1>3. \A g \in DOMAIN Chain : Chain[g] \in Group
  BY <1>1, <1>2, ElementOfSeq
<1> QED BY <1>2, <1>3

LEMMA ProviderType ==
    ASSUME NEW p \in Providers
    PROVE  /\ p[1] \in DOMAIN Chain /\ p[1] \in Nat /\ p[1] <= Len(Chain) /\ Len(Chain) \in Nat
           /\ p[2] \in Nat /\ p[2] >= 1 /\ p[2] <= Chain[p[1]].members /\ Chain[p[1]].members \in Nat
  BY ChainIsSequence DEF Providers

\* Whom NextProvider names comes next, and when it names nobody the chain gives up.
LEMMA NextProviderFollows ==
    ASSUME NEW p \in Providers, NEW e
    PROVE  \/ NextProvider(p, e) = <<>> /\ GivesUp(p, e)
           \/ \E q \in Providers : NextProvider(p, e) = <<q>> /\ CalledNext(p, q, e) /\ Before(p, q)
<1>1. /\ p[1] \in DOMAIN Chain /\ p[1] \in Nat /\ p[1] <= Len(Chain) /\ Len(Chain) \in Nat
      /\ p[2] \in Nat /\ p[2] >= 1 /\ p[2] <= Chain[p[1]].members /\ Chain[p[1]].members \in Nat
  BY ProviderType
<1>2. CASE p[2] < Chain[p[1]].members /\ IsRetryable(InnerCodes(p[1]), e)
  <2> DEFINE q == <<p[1], p[2] + 1>>
  <2>1. q[1] = p[1] /\ q[2] = p[2] + 1 /\ q \in (DOMAIN Chain) \X Nat
    BY <1>1
  <2>2. q[2] \in 1..Chain[q[1]].members
    BY <1>1, <1>2, <2>1
  <2>3. q \in Providers
    BY <2>1, <2>2 DEF Providers
  <2>4. Before(p, q)
    BY <1>1, <2>1 DEF Before
  <2>5. CalledNext(p, q, e)
    BY <1>2, <2>1 DEF CalledNext
  <2>6. NextProvider(p, e) = <<q>>
    BY <1>2 DEF NextProvider
  <2> QED BY <2>3, <2>4, <2>5, <2>6
<1>3. CASE /\ ~(p[2] < Chain[p[1]].members /\ IsRetryable(InnerCodes(p[1]), e))
           /\ p[1] < Len(Chain) /\ IsRetryable(OuterCodes, e)
  <2> DEFINE q == <<p[1] + 1, 1>>
  <2>1. q[1] = p[1] + 1 /\ q[2] = 1 /\ p[1] + 1 \in DOMAIN Chain
    BY <1>1, <1>3, ChainIsSequence
  <2>2. q \in Providers
    <3>1. 1 \in 1..Chain[p[1] + 1].members
      BY <2>1, ChainIsSequence
    <3> QED BY <2>1, <3>1 DEF Providers
  <2>3. p[1] # q[1] /\ Before(p, q)
    BY <1>1, <2>1 DEF Before
  <2>4. CalledNext(p, q, e)
    BY <1>3, <2>3 DEF CalledNext
  <2>5. NextProvider(p, e) = <<q>>
    BY <1>3 DEF NextProvider
  <2> QED BY <2>2, <2>3, <2>4, <2>5
<1>4. CASE /\ ~(p[2] < Chain[p[1]].members /\ IsRetryable(InnerCodes(p[1]), e))
           /\ ~(p[1] < Len(Chain) /\ IsRetryable(OuterCodes, e))
  <2>1. NextProvider(p, e) = <<>>
    BY <1>4 DEF NextProvider
  <2>2. GivesUp(p, e)
    BY <1>1, <1>4 DEF GivesUp
  <2> QED BY <2>1, <2>2
<1> QED BY <1>2, <1>3, <1>4

LEMMA BeforeIsOrder ==
    ASSUME NEW p \in Providers, NEW q \in Providers, NEW r \in Providers
    PROVE  /\ Before(p, q) /\ Before(q, r) => Before(p, r)
           /\ ~Before(p, p)
           /\ Before(p, q) /\ ~Before(p, r) => ~Before(q, r)
  BY ProviderType DEF Before

LEMMA CurrentType ==
    ASSUME ChainInv, mode # "idle"
    PROVE  /\ Current \in Providers /\ Len(called) \in Nat \ {0} /\ DOMAIN called = 1..Len(called)
           /\ called \in Seq(Providers)
<1>1. called \in Seq(Providers) /\ called # <<>>
  BY DEF ChainInv, ChainTypeOK
<1>2. Len(called) \in Nat \ {0} /\ DOMAIN called = 1..Len(called)
  BY <1>1, EmptySeq, LenProperties
<1> QED BY <1>1, <1>2, ElementOfSeq DEF Current

LEMMA ChainBegins == ChainInit => ChainInv
<1> SUFFICES ASSUME ChainInit PROVE ChainInv
  OBVIOUS
<1>1. <<>> \in Seq(Providers) /\ <<>> \in Seq(Errors) /\ Len(<<>>) = 0 /\ DOMAIN <<>> = {}
  BY EmptySeq, LenProperties
<1> QED BY <1>1 DEF ChainInit, ChainInv, ChainTypeOK, CallsInOrder, Running

LEMMA AskKeeps ==
    ASSUME ChainInv, NEW m \in {"chat", "stream"}, Ask(m)
    PROVE  ChainInv'
<1>1. called' = << <<1, 1>> >> /\ mode' = m /\ outcome' = "pending" /\ errors' = <<>> /\ chunks' = <<>>
  BY DEF Ask, ChainInv
<1>2. <<1, 1>> \in Providers
  <2>1. 1 \in DOMAIN Chain /\ 1 \in 1..Chain[1].members
    BY ChainIsSequence
  <2> QED BY <2>1 DEF Providers
<1>3. /\ called' \in Seq(Providers) /\ Len(called') = 1 /\ DOMAIN called' = 1..1
      /\ called' # <<>>
  BY <1>1, <1>2
<1>4. <<>> \in Seq(Providers) /\ <<>> \in Seq(Errors) /\ Len(<<>>) = 0 /\ DOMAIN <<>> = {}
  BY EmptySeq, LenProperties
<1>5. CallsInOrder'
  BY <1>3 DEF CallsInOrder
<1> QED BY <1>1, <1>3, <1>4, <1>5 DEF ChainInv, ChainTypeOK, Running

LEMMA YieldKeeps ==
    ASSUME ChainInv, ProviderYields
    PROVE  ChainInv'
<1>1. mode # "idle" /\ outcome = "pending" /\ UNCHANGED <<mode, outcome, called, errors>>
      /\ chunks' = Append(chunks, Current)
  BY DEF ProviderYields, Running
<1>2. Current \in Providers
  BY <1>1, CurrentType
<1>3. chunks \in Seq(Providers) /\ Len(chunks) \in Nat /\ DOMAIN chunks = 1..Len(chunks)
  BY LenProperties DEF ChainInv, ChainTypeOK
<1>4. /\ chunks' \in Seq(Providers) /\ Len(chunks') = Len(chunks) + 1
      /\ \A i \in 1..Len(chunks) : chunks'[i] = chunks[i]
      /\ chunks'[Len(chunks) + 1] = Current
  BY <1>1, <1>2, <1>3, AppendProperties
<1>5. DOMAIN chunks' = 1..(Len(chunks) + 1)
  BY <1>4, LenProperties
<1>6. ~Before(Current, Current)
  BY <1>2, BeforeIsOrder
<1>7. \A i \in DOMAIN chunks' : ~Before(Current, chunks'[i])
  BY <1>3, <1>4, <1>5, <1>6 DEF ChainInv
<1>8. ASSUME NEW i \in DOMAIN chunks', NEW j \in DOMAIN chunks', i < j
      PROVE  ~Before(chunks'[j], chunks'[i])
  <2>1. i \in DOMAIN chunks /\ chunks'[i] = chunks[i]
    BY <1>3, <1>4, <1>5, <1>8
  <2>2. CASE j \in DOMAIN chunks
    BY <1>3, <1>4, <1>8, <2>1, <2>2 DEF ChainInv
  <2>3. CASE j = Len(chunks) + 1
    BY <1>4, <2>1, <2>3 DEF ChainInv
  <2> QED BY <1>3, <1>5, <2>2, <2>3
<1>9. UNCHANGED <<Current, CallsInOrder, Running>>
  BY <1>1 DEF Current, CallsInOrder, Running
<1> QED BY <1>1, <1>4, <1>7, <1>8, <1>9 DEF ChainInv, ChainTypeOK, Current

LEMMA EndKeeps ==
    ASSUME ChainInv, ProviderAnswers \/ CallCancelled
    PROVE  ChainInv'
<1>1. /\ mode # "idle" /\ outcome = "pending" /\ UNCHANGED <<mode, called, errors, chunks>>
      /\ outcome' \in {"answered", "cancelled"}
  BY DEF ProviderAnswers, CallCancelled, Running
<1>2. UNCHANGED <<Current, CallsInOrder>>
  BY <1>1 DEF Current, CallsInOrder
<1> QED BY <1>1, <1>2 DEF ChainInv, ChainTypeOK, Running, Current

\* An error moves the chain to whom NextProvider names, or ends it.
LEMMA RaiseKeeps ==
    ASSUME ChainInv, NEW e \in Errors, ProviderRaises(e)
    PROVE  ChainInv'
<1> DEFINE p == Current
           n == Len(called)
<1>1. /\ mode # "idle" /\ outcome = "pending" /\ Running /\ UNCHANGED <<mode, chunks>>
      /\ errors' = Append(errors, e) /\ called' = called \o NextProvider(p, e)
      /\ outcome' = IF NextProvider(p, e) = <<>> THEN "raised" ELSE "pending"
  BY DEF ProviderRaises, Running
<1>2. /\ p \in Providers /\ n \in Nat \ {0} /\ DOMAIN called = 1..n /\ called \in Seq(Providers)
      /\ p = called[n]
  BY <1>1, CurrentType DEF Current
<1> HIDE DEF n
<1>3. errors \in Seq(Errors) /\ Len(errors) = n - 1 /\ Len(errors) + 1 = n
  <2>1. errors \in Seq(Errors) /\ Len(errors) = n - 1
    BY <1>1 DEF ChainInv, ChainTypeOK, n
  <2> QED BY <1>2, <2>1
<1>4. /\ errors' \in Seq(Errors) /\ Len(errors') = n /\ errors'[n] = e
      /\ \A i \in 1..(n - 1) : errors'[i] = errors[i]
  <2>1. e \in Errors
    OBVIOUS
  <2>2. /\ errors' \in Seq(Errors) /\ Len(errors') = Len(errors) + 1
        /\ \A i \in 1..Len(errors) : errors'[i] = errors[i]
        /\ errors'[Len(errors) + 1] = e
    BY <1>1, <1>3, <2>1, AppendProperties
  <2> QED BY <1>3, <2>2
<1>5. CallsInOrder /\ n = Len(called)
  BY DEF ChainInv, n
<1>6. CASE NextProvider(p, e) = <<>> /\ GivesUp(p, e)
  <2>1. called' = called
    BY <1>1, <1>2, <1>6, ConcatEmptySeq
  <2>2. outcome' = "raised" /\ Current' = p
    BY <1>1, <1>6, <2>1 DEF Current
  <2>3. CallsInOrder'
    BY <1>4, <1>5, <2>1 DEF CallsInOrder
  <2>4. GivesUp(Current', errors'[Len(errors')])
    BY <1>4, <1>6, <2>2
  <2>5. Len(errors') = Len(called') /\ called' # <<>>
    BY <1>1, <1>4, <1>5, <2>1 DEF ChainInv
  <2>6. \A i \in DOMAIN chunks' : ~Before(Current', chunks'[i])
    BY <1>1, <2>2 DEF ChainInv
  <2> QED BY <1>1, <1>4, <2>1, <2>2, <2>3, <2>4, <2>5, <2>6 DEF ChainInv, ChainTypeOK, Running
<1>7. CASE \E q \in Providers : NextProvider(p, e) = <<q>> /\ CalledNext(p, q, e) /\ Before(p, q)
  <2>1. PICK q \in Providers : NextProvider(p, e) = <<q>> /\ CalledNext(p, q, e) /\ Before(p, q)
    BY <1>7
  <2>2. called' = Append(called, q) /\ outcome' = "pending"
    BY <1>1, <1>2, <2>1, AppendIsConcat
  <2>3. /\ called' \in Seq(Providers) /\ Len(called') = n + 1 /\ called'[n + 1] = q
        /\ \A i \in 1..n : called'[i] = called[i]
    BY <1>2, <2>2, AppendProperties
  <2>4. DOMAIN called' = 1..(n + 1) /\ Current' = q /\ called' # <<>>
    BY <1>2, <2>2, <2>3, LenProperties, AppendProperties DEF Current
  <2>5. ASSUME NEW i \in 1..n PROVE Before(called'[i], q)
    <3>1. called[i] \in Providers /\ called'[i] = called[i]
      BY <1>2, <2>3, ElementOfSeq
    <3>2. CASE i = n
      BY <1>2, <2>1, <3>1, <3>2
    <3>3. CASE i # n
      <4>1. i < n
        BY <1>2, <3>3
      <4>2. Before(called[i], p)
        BY <1>2, <1>5, <4>1 DEF CallsInOrder
      <4> QED BY <1>2, <2>1, <3>1, <4>2, BeforeIsOrder
    <3> QED BY <3>2, <3>3
  <2>6. \A i, j \in DOMAIN called' : i < j => Before(called'[i], called'[j])
    <3> SUFFICES ASSUME NEW i \in 1..(n + 1), NEW j \in 1..(n + 1), i < j
                 PROVE  Before(called'[i], called'[j])
      BY <2>4
    <3>1. i \in 1..n
      BY <1>2
    <3>2. CASE j = n + 1
      BY <2>3, <2>5, <3>1, <3>2
    <3>3. CASE j # n + 1
      <4>1. j \in 1..n
        BY <1>2, <3>3
      <4> QED BY <1>2, <1>5, <2>3, <3>1, <4>1 DEF CallsInOrder
    <3> QED BY <3>2, <3>3
  <2>7. \A i \in 1..n : CalledNext(called'[i], called'[i + 1], errors'[i])
    <3> SUFFICES ASSUME NEW i \in 1..n PROVE CalledNext(called'[i], called'[i + 1], errors'[i])
      OBVIOUS
    <3>1. CASE i = n
      BY <1>2, <1>4, <2>1, <2>3, <3>1
    <3>2. CASE i # n
      <4>1. i \in 1..(n - 1) /\ i + 1 \in 1..n
        BY <1>2, <3>2
      <4>2. CalledNext(called[i], called[i + 1], errors[i])
        BY <1>5, <4>1 DEF CallsInOrder
      <4>3. called'[i] = called[i] /\ called'[i + 1] = called[i + 1] /\ errors'[i] = errors[i]
        BY <1>4, <2>3, <4>1
      <4> QED BY <4>2, <4>3
    <3> QED BY <3>1, <3>2
  <2>8. CallsInOrder'
    <3>1. Len(called') - 1 = n
      BY <1>2, <2>3
    <3> QED BY <2>6, <2>7, <3>1 DEF CallsInOrder
  <2>9. ASSUME NEW i \in DOMAIN chunks PROVE ~Before(q, chunks[i])
    <3>1. chunks[i] \in Providers /\ ~Before(p, chunks[i])
      BY LenProperties, ElementOfSeq DEF ChainInv, ChainTypeOK
    <3> QED BY <1>2, <2>1, <3>1, BeforeIsOrder
  <2>10. Len(errors') = Len(called') - 1
    BY <1>2, <1>4, <2>3
  <2> QED BY <1>1, <1>4, <2>2, <2>3, <2>4, <2>8, <2>9, <2>10 DEF ChainInv, ChainTypeOK, Running
<1> QED BY <1>2, <1>6, <1>7, NextProviderFollows

\* The inductive invariant holds.
LEMMA ChainInvHolds == ChainSpec => []ChainInv
<1>1. ChainInv /\ [ChainNext]_chainVars => ChainInv'
  <2> SUFFICES ASSUME ChainInv, [ChainNext]_chainVars PROVE ChainInv'
    OBVIOUS
  <2>1. CASE UNCHANGED chainVars
    BY <2>1 DEF chainVars, ChainInv, ChainTypeOK, CallsInOrder, Current, Running
  <2> QED BY <2>1, AskKeeps, YieldKeeps, EndKeeps, RaiseKeeps DEF ChainNext
<1> QED BY <1>1, ChainBegins, PTL DEF ChainSpec

\* Providers are called in order, each after the failure of the one before, and an
\* error reaches the caller only when every chain it passed through must give up,
\* for any nesting, status codes and errors.
THEOREM FallbackInOrder == ChainSpec => []FallbackOrder
<1>1. ChainInv => FallbackOrder
  <2> SUFFICES ASSUME ChainInv PROVE FallbackOrder
    OBVIOUS
  <2>1. outcome = "answered" => Len(errors) = Len(called) - 1
    BY DEF ChainInv
  <2>2. outcome = "raised" => Len(errors) = Len(called) /\ GivesUp(Current, errors[Len(errors)])
    BY DEF ChainInv
  <2>3. \A i, j \in DOMAIN chunks : i < j => ~Before(chunks[j], chunks[i])
    BY DEF ChainInv
  <2>4. CallsInOrder
    BY DEF ChainInv
  <2> QED BY <2>1, <2>2, <2>3, <2>4 DEF FallbackOrder, CallsInOrder, CalledNext, GivesUp
<1> QED BY <1>1, ChainInvHolds, PTL

-----------------------------------------------------------------------------
(* AgentRouting: appending an agent takes over no task of the agents before it *)

LEMMA LeastIsLeast ==
    ASSUME NEW S \in SUBSET Nat, S # {}
    PROVE  Least(S) \in S /\ \A j \in S : Least(S) <= j
<1>1. \E i \in S : \A j \in S : i <= j
  BY LeastElement
<1> QED BY <1>1 DEF Least

\* An element that is at most every other is the least one.
LEMMA LeastUnique ==
    ASSUME NEW S \in SUBSET Nat, NEW m \in S, \A j \in S : m <= j
    PROVE  Least(S) = m
<1>1. Least(S) \in S /\ Least(S) <= m
  BY LeastIsLeast
<1>2. Least(S) \in Nat /\ m \in Nat /\ m <= Least(S)
  BY <1>1
<1> QED BY <1>1, <1>2

\* A number above all of S leaves the least element where it was.
LEMMA LeastKept ==
    ASSUME NEW S \in SUBSET Nat, S # {}, NEW T \in SUBSET Nat, NEW n \in Nat,
           S \subseteq T, T \subseteq S \cup {n}, \A i \in S : i <= n
    PROVE  Least(T) = Least(S)
<1>1. Least(S) \in S /\ \A j \in S : Least(S) <= j
  BY LeastIsLeast
<1>2. \A j \in T : Least(S) <= j
  BY <1>1
<1> QED BY <1>1, <1>2, LeastUnique

\* What appending a as the n-th agent to cs gives: it adds at most the new index to
\* the agents that match t and to the fallbacks.
Extended(cs, bs, a, n, t) ==
    /\ Len(bs) = n /\ bs # <<>> /\ bs[n] = a /\ Last(bs) = a
    /\ \A i \in DOMAIN cs : bs[i] = cs[i] /\ i \in Nat /\ i < n
    /\ Matching(cs, t) \subseteq DOMAIN cs /\ Fallbacks(cs) \subseteq DOMAIN cs
    /\ Matching(bs, t) = Matching(cs, t) \cup (IF ~a.fallback /\ t \in a.matches THEN {n} ELSE {})
    /\ Fallbacks(bs) = Fallbacks(cs) \cup (IF a.fallback THEN {n} ELSE {})

LEMMA AppendIndexes ==
    ASSUME NEW cs \in Seq(AgentConfigs), NEW a \in AgentConfigs, NEW bs, bs = Append(cs, a), NEW t,
           NEW n \in Nat, n = Len(cs) + 1
    PROVE  Extended(cs, bs, a, n, t)
<1>1. Len(cs) \in Nat /\ DOMAIN cs = 1..Len(cs)
  BY LenProperties
<1>2. /\ bs \in Seq(AgentConfigs) /\ Len(bs) = n /\ bs[n] = a
      /\ \A i \in 1..Len(cs) : bs[i] = cs[i]
  BY AppendProperties
<1>3. DOMAIN bs = 1..n /\ n # 0
  BY <1>1, <1>2, LenProperties, OneMore
<1>4. DOMAIN bs = DOMAIN cs \cup {n} /\ n \notin DOMAIN cs
  BY <1>1, <1>3, OneMore
<1>5. bs # <<>> /\ Last(bs) = a /\ bs[n] = a
  BY <1>2, <1>3, EmptySeq DEF Last
<1>6. \A i \in DOMAIN cs : bs[i] = cs[i] /\ i \in Nat /\ i < n
  <2>1. \A i \in 1..Len(cs) : i \in Nat /\ i < n
    BY <1>1, OneMore
  <2> QED BY <1>1, <1>2, <2>1
<1>7. Matching(bs, t) = Matching(cs, t) \cup (IF ~a.fallback /\ t \in a.matches THEN {n} ELSE {})
  BY <1>4, <1>5, <1>6 DEF Matching
<1>8. Fallbacks(bs) = Fallbacks(cs) \cup (IF a.fallback THEN {n} ELSE {})
  BY <1>4, <1>5, <1>6 DEF Fallbacks
<1>9. Matching(cs, t) \subseteq DOMAIN cs /\ Fallbacks(cs) \subseteq DOMAIN cs
  BY DEF Matching, Fallbacks
<1> QED BY <1>2, <1>5, <1>6, <1>7, <1>8, <1>9 DEF Extended

LEMMA AppendedRoute ==
    ASSUME NEW cs \in Seq(AgentConfigs), cs # <<>>, NEW a \in AgentConfigs,
           NEW bs, bs = Append(cs, a), NEW t, Route(bs, t) # Route(cs, t)
    PROVE  /\ Route(bs, t) = Last(bs).name
           /\ Matching(cs, t) = {}
           /\ Fallbacks(cs) # {} => t \in Last(bs).matches
<1>0. Len(cs) + 1 \in Nat
  BY LenProperties, OneMore
<1> DEFINE n == Len(cs) + 1
<1>1. Extended(cs, bs, a, n, t)
  BY <1>0, AppendIndexes
<1>n. n \in Nat
  BY <1>0
<1> HIDE DEF n
<1> USE DEF Extended
<1>2. ASSUME NEW S \in SUBSET DOMAIN cs, S # {}, NEW T, T = S \/ T = S \cup {n}
      PROVE  Least(T) = Least(S) /\ bs[Least(T)] = cs[Least(S)] /\ T # {}
  <2>1. S \in SUBSET Nat /\ T \in SUBSET Nat /\ \A i \in S : i <= n
    <3>1. \A i \in S : i \in Nat /\ i < n
      BY <1>1
    <3>2. \A i \in S : i <= n
      BY <1>n, <3>1
    <3>3. T \in SUBSET Nat /\ S \in SUBSET Nat
      BY <1>2, <1>n, <3>1
    <3> QED BY <3>2, <3>3
  <2>2. Least(T) = Least(S)
    BY <1>1, <1>2, <2>1, LeastKept
  <2>3. Least(S) \in S
    BY <1>2, <2>1, LeastIsLeast
  <2> QED BY <1>1, <1>2, <2>2, <2>3
<1>3. ASSUME NEW T, T = {n} PROVE bs[Least(T)] = a /\ T # {}
  <2>1. Least(T) = n
    BY <1>n, <1>3, LeastUnique
  <2> QED BY <1>1, <1>3, <2>1
<1>4. Matching(cs, t) = {}
  <2> SUFFICES ASSUME Matching(cs, t) # {} PROVE FALSE
    OBVIOUS
  <2>1. bs[Least(Matching(bs, t))] = cs[Least(Matching(cs, t))] /\ Matching(bs, t) # {}
    BY <1>1, <1>2
  <2> QED BY <1>1, <2>1 DEF Route
<1>5. CASE ~a.fallback /\ t \in a.matches
  <2>1. bs[Least(Matching(bs, t))] = a /\ Matching(bs, t) # {}
    BY <1>1, <1>3, <1>4, <1>5
  <2> QED BY <1>1, <1>4, <1>5, <2>1 DEF Route
<1>6. CASE ~(~a.fallback /\ t \in a.matches)
  <2>1. Matching(bs, t) = {}
    BY <1>1, <1>4, <1>6
  <2>2. Fallbacks(cs) = {}
    <3> SUFFICES ASSUME Fallbacks(cs) # {} PROVE FALSE
      OBVIOUS
    <3>1. bs[Least(Fallbacks(bs))] = cs[Least(Fallbacks(cs))] /\ Fallbacks(bs) # {}
      BY <1>1, <1>2
    <3> QED BY <1>1, <1>4, <2>1, <3>1 DEF Route
  <2>3. CASE a.fallback
    <3>1. bs[Least(Fallbacks(bs))] = a /\ Fallbacks(bs) # {}
      BY <1>1, <1>3, <2>2, <2>3
    <3> QED BY <1>1, <1>4, <2>1, <2>2, <3>1 DEF Route
  <2>4. CASE ~a.fallback
    BY <1>1, <1>4, <2>1, <2>2, <2>4 DEF Route
  <2> QED BY <2>3, <2>4
<1> QED BY <1>5, <1>6

\* The sequence of agents is one of configurations, in every reachable state.
LEMMA AgentsTyped == RoutingSpec => [](agents \in Seq(AgentConfigs))
<1>1. RoutingInit => agents \in Seq(AgentConfigs)
  BY EmptySeq DEF RoutingInit
<1>2. agents \in Seq(AgentConfigs) /\ [RoutingNext]_routingVars => (agents \in Seq(AgentConfigs))'
  <2>1. ASSUME agents \in Seq(AgentConfigs), RoutingNext PROVE (agents \in Seq(AgentConfigs))'
    BY <2>1, AppendProperties DEF RoutingNext, AppendAgent, ChangeNode, RunSimple, RunCompiled, TurnReturns
  <2> QED BY <2>1 DEF routingVars
<1> QED BY <1>1, <1>2, PTL DEF RoutingSpec

\* Adding an agent at the end of a configuration takes over no task an earlier agent
\* matched, and with a fallback marked only tasks it matches: for any configurations,
\* any overlap of what they match, and any number of agents.
THEOREM AppendTakesOverNothing == RoutingSpec => AppendKeepsRoutes
<1> DEFINE Kept == \A t \in Tasks \cup {NoTask} :
             agents # <<>> /\ Route(agents', t) # Route(agents, t) =>
               /\ Route(agents', t) = Last(agents').name
               /\ Matching(agents, t) = {}
               /\ Fallbacks(agents) # {} => t \in Last(agents').matches
<1>1. agents \in Seq(AgentConfigs) /\ [RoutingNext]_routingVars => [Kept]_routingVars
  <2> SUFFICES ASSUME agents \in Seq(AgentConfigs), RoutingNext PROVE Kept
    OBVIOUS
  <2>1. \/ agents' = agents
        \/ \E a \in AgentConfigs : agents' = Append(agents, a)
    BY DEF RoutingNext, AppendAgent, ChangeNode, RunSimple, RunCompiled, TurnReturns
  <2>2. CASE agents' = agents
    BY <2>2
  <2>3. CASE \E a \in AgentConfigs : agents' = Append(agents, a)
    BY <2>3, AppendedRoute
  <2> QED BY <2>1, <2>2, <2>3
<1> QED BY <1>1, AgentsTyped, PTL DEF RoutingSpec, AppendKeepsRoutes

-----------------------------------------------------------------------------
(* HookPipeline: what it guarantees for any hooks, events and nesting.         *)
(* The inductive invariant: how far an execution is tells whom it has called *)

USE DEF Phases, CoreEnds


\* pres and posts are the beginnings of the two passes over the hooks.
Called(x) ==
    /\ Len(x.pres) <= Len(x.hooks) /\ \A j \in 1..Len(x.pres) : x.pres[j] = x.hooks[j]
    /\ Len(x.posts) <= Len(x.hooks)
    /\ \A j \in 1..Len(x.posts) : x.posts[j] = x.hooks[Len(x.hooks) - j + 1]

PreDone(x) == Len(x.pres) = Len(x.hooks)

InPre(x) ==
    /\ x.i \in 1..Len(x.hooks) /\ Len(x.pres) = x.i - 1 /\ Len(x.posts) = 0
    /\ ~x.vetoed /\ x.core = "none" /\ x.executed = x.returned

InCore(x) ==
    /\ PreDone(x) /\ Len(x.posts) = 0
    /\ ~x.vetoed /\ x.core = "none" /\ x.executed = x.returned

InPost(x) ==
    /\ x.i \in 0..Len(x.hooks) /\ Len(x.posts) = Len(x.hooks) - x.i
    /\ \/ x.vetoed /\ x.cancelled /\ x.core = "none"
       \/ ~x.vetoed /\ PreDone(x) /\ x.core = "returned"
       \/ ~x.vetoed /\ PreDone(x) /\ x.core = "raised" /\ ~x.failFast
    /\ x.executed = x.returned

InDrain(x) ==
    /\ x.i \in 0..Len(x.hooks) /\ Len(x.posts) = Len(x.hooks) - x.i
    /\ PreDone(x) /\ x.core = "raised" /\ x.failFast
    /\ ~x.vetoed /\ x.executed <= x.returned

\* An execution on the stack ...
Moving(x) ==
    /\ x \in Execution /\ Called(x) /\ ~x.aborted /\ ~x.success
    /\ \/ x.phase = "pre" /\ InPre(x)
       \/ x.phase = "core" /\ InCore(x)
       \/ x.phase = "post" /\ InPost(x)
       \/ x.phase = "drain" /\ InDrain(x)

\* ... and one that has returned.
Over(x) ==
    /\ x \in Execution /\ Called(x) /\ x.phase = "done"
    /\ ~x.aborted => Len(x.posts) = Len(x.hooks)
    /\ Len(x.posts) = 0 \/ PreDone(x) \/ x.vetoed
    /\ x.success <=> x.core = "returned" /\ ~x.cancelled /\ ~x.aborted
    /\ x.vetoed => x.core = "none"
    /\ x.executed <= x.returned
    /\ ~(x.failFast /\ x.core = "raised") => x.executed = x.returned

StateInv ==
    /\ globals \in Seq(Hooks) /\ specific \in [HookEvents -> Seq(Hooks)]
    /\ counts \in [HookEvents -> Nat] /\ timed \in [HookEvents -> Nat]
    /\ runs \in 0..MaxRuns /\ changes \in 0..MaxChanges

StackInv ==
    /\ stack \in Seq(Execution) /\ finished \in Seq(Execution)
    /\ \A k \in 1..Len(stack) : Moving(stack[k])
    /\ \A k \in 1..Len(finished) : Over(finished[k])

PipelineInv == StateInv /\ StackInv

-----------------------------------------------------------------------------
(* The registry: what is left after a removal is still a list of hooks *)

Kept(s, h) == {i \in DOMAIN s : s[i] # h}
Upto(s, h, i) == {j \in Kept(s, h) : j <= i}

\* unregister leaves a list of hooks: every rank up to the number of hooks kept has its index.
LEMMA WithoutType ==
    ASSUME NEW s \in Seq(Hooks), NEW h
    PROVE  Without(s, h) \in Seq(Hooks)
<1> DEFINE K == Kept(s, h)
           U(i) == Upto(s, h, i)
           n == Len(s)
<1>0. n \in Nat /\ DOMAIN s = 1..n
  BY LenProperties
<1>1. IsFiniteSet(K) /\ K \subseteq 1..n
  <2>1. K \subseteq 1..n
    BY <1>0 DEF Kept
  <2>2. IsFiniteSet(1..n)
    BY <1>0, FS_Interval
  <2> QED BY <2>1, <2>2, FS_Subset
<1>2. \A i \in 0..n : IsFiniteSet(U(i)) /\ Cardinality(U(i)) \in Nat
  BY <1>1, FS_Subset, FS_CardinalityType DEF Upto
<1>3. U(0) = {} /\ U(n) = K
  BY <1>0, <1>1 DEF Upto
<1>4. ASSUME NEW i \in 1..n, i \notin K
      PROVE  U(i) = U(i - 1)
  BY <1>0, <1>1, <1>4 DEF Upto
<1>5. ASSUME NEW i \in 1..n, i \in K
      PROVE  Cardinality(U(i)) = Cardinality(U(i - 1)) + 1
  <2>1. U(i) = U(i - 1) \cup {i} /\ i \notin U(i - 1)
    BY <1>0, <1>1, <1>5 DEF Upto
  <2>2. IsFiniteSet(U(i - 1))
    BY <1>0, <1>2
  <2> QED BY <2>1, <2>2, FS_AddElement
<1>6. ASSUME NEW k \in 1..Cardinality(K)
      PROVE  \E i \in K : Cardinality(U(i)) = k
  <2> DEFINE T == {i \in 0..n : Cardinality(U(i)) >= k}
  <2>1. n \in T
    BY <1>0, <1>2, <1>3
  <2>2. PICK m \in T : \A i \in T : m <= i
    <3>1. T \in SUBSET Nat /\ T # {}
      BY <1>0, <2>1
    <3> HIDE DEF T
    <3> QED BY <3>1, LeastElement
  <2>3. Cardinality(U(0)) = 0
    BY <1>3, FS_EmptySet
  <2>4. m \in 1..n /\ m - 1 \in 0..n /\ Cardinality(U(m)) >= k
    BY <1>0, <2>2, <2>3
  <2>5. Cardinality(U(m - 1)) < k
    BY <1>2, <2>2, <2>4
  <2>6. m \in K
    <3>1. SUFFICES ASSUME m \notin K PROVE FALSE
      OBVIOUS
    <3>2. U(m) = U(m - 1)
      BY <1>4, <2>4, <3>1
    <3> QED BY <1>2, <2>4, <2>5, <3>2
  <2>7. Cardinality(U(m)) = Cardinality(U(m - 1)) + 1
    BY <1>5, <2>4, <2>6
  <2>8. Cardinality(U(m)) = k
    BY <1>2, <2>4, <2>5, <2>7
  <2> QED BY <2>6, <2>8
<1>7. \A k \in 1..Cardinality(K) : (CHOOSE i \in K : Cardinality(U(i)) = k) \in 1..n
  BY <1>1, <1>6
<1>8. \A i \in 1..n : s[i] \in Hooks
  BY ElementOfSeq
<1>9. Cardinality(K) \in Nat
  BY <1>1, FS_CardinalityType
<1>10. Without(s, h) = [k \in 1..Cardinality(K) |-> s[CHOOSE i \in K : Cardinality(U(i)) = k]]
  BY DEF Without, Kept, Upto
<1>11. Without(s, h) \in [1..Cardinality(K) -> Hooks]
  BY <1>7, <1>8, <1>10
<1> QED BY <1>9, <1>11, SeqDef

-----------------------------------------------------------------------------
(* Steps of the stack *)

\* The execution that moves is one of those the invariant is about.
LEMMA TopMoving ==
    ASSUME StackInv, stack # <<>>
    PROVE  Top \in Execution /\ Moving(Top)
  BY DEF StackInv, Top

\* A new execution starts with its first hook, or with the core.
LEMMA PushKeeps ==
    ASSUME StackInv, NEW x, Moving(x), stack' = Append(stack, x), UNCHANGED finished
    PROVE  StackInv'
<1>1. x \in Execution
  BY DEF Moving
<1>2. stack' \in Seq(Execution) /\ Len(stack') = Len(stack) + 1
  BY <1>1 DEF StackInv
<1>3. \A k \in 1..Len(stack') : Moving(stack'[k])
  BY <1>2 DEF StackInv
<1> QED BY <1>2, <1>3 DEF StackInv

\* The innermost execution goes on.
LEMMA CallerGoesOn ==
    ASSUME StackInv, stack # <<>>, NEW x, Moving(x), Continue(x)
    PROVE  StackInv'
<1>1. x \in Execution
  BY DEF Moving
<1>2. stack' = [stack EXCEPT ![Len(stack)] = x] /\ UNCHANGED finished
  BY DEF Continue, Replace
<1>3. /\ stack' \in Seq(Execution) /\ Len(stack') = Len(stack)
      /\ \A k \in 1..Len(stack) : stack'[k] = IF k = Len(stack) THEN x ELSE stack[k]
  <2>1. stack \in Seq(Execution) /\ Len(stack) \in 1..Len(stack)
    BY DEF StackInv
  <2> QED BY <1>1, <1>2, <2>1, ExceptSeq
<1>4. \A k \in 1..Len(stack') : Moving(stack'[k])
  BY <1>2, <1>3 DEF StackInv
<1> QED BY <1>2, <1>3, <1>4 DEF StackInv

\* The innermost execution returns to the one outside.
LEMMA ReturnKeeps ==
    ASSUME StackInv, stack # <<>>, NEW x, Over([x EXCEPT !.phase = "done"]), Return(x)
    PROVE  StackInv'
<1> DEFINE d == [x EXCEPT !.phase = "done"]
<1>1. d \in Execution
  BY DEF Over
<1>2. finished' = <<d>> /\ stack' = SubSeq(stack, 1, Len(stack) - 1)
  BY DEF Return
<1>3. finished' \in Seq(Execution) /\ \A k \in 1..Len(finished') : Over(finished'[k])
  BY <1>1, <1>2
<1>4. stack' \in Seq(Execution) /\ \A k \in 1..Len(stack') : stack'[k] = stack[k] /\ k \in 1..Len(stack)
  BY <1>2, SubSeqProperties DEF StackInv
<1> QED BY <1>3, <1>4 DEF StackInv

-----------------------------------------------------------------------------
(* Updates of an execution, field by field *)

\* What no step changes, and what only calls change.
Fixed(z, x) == z.event = x.event /\ z.failFast = x.failFast /\ z.hooks = x.hooks
Calls(z, x) == z.pres = x.pres /\ z.posts = x.posts
Tally(z, x) == z.executed = x.executed /\ z.returned = x.returned
Flags(z, x) == z.cancelled = x.cancelled /\ z.vetoed = x.vetoed
Ends(z, x) == z.aborted = x.aborted /\ z.success = x.success

Same(z, x) == Fixed(z, x) /\ Calls(z, x) /\ Tally(z, x) /\ Flags(z, x)

\* The execution x with only its place, or only its end, changed.
PutAt(x, f, n) == [x EXCEPT !.phase = f, !.i = n]
Phased(x, f) == [x EXCEPT !.phase = f]
Indexed(x, n) == [x EXCEPT !.i = n]
Cored(x, c, f, n) == [x EXCEPT !.core = c, !.phase = f, !.i = n]
Aborted(x) == [x EXCEPT !.aborted = TRUE]
Succeeded(x, b) == [x EXCEPT !.success = b]
Pre(x, c, st, r) ==
    [x EXCEPT !.cancelled = c, !.started = st, !.executed = x.executed + r,
        !.returned = x.returned + r, !.pres = Append(x.pres, HookOf(x)), !.vetoed = c]
Post(x, c, e, r) ==
    [x EXCEPT !.cancelled = c, !.i = x.i - 1, !.executed = x.executed + e,
        !.returned = x.returned + r, !.posts = Append(x.posts, HookOf(x))]

IsAt(z, x, f, n) ==
    z \in Execution /\ z.phase = f /\ z.i = n /\ z.core = x.core /\ Same(z, x) /\ Ends(z, x)
IsCored(z, x, c, f, n) ==
    z \in Execution /\ z.phase = f /\ z.i = n /\ z.core = c /\ Same(z, x) /\ Ends(z, x)
IsAborted(z, x) ==
    /\ z \in Execution /\ z.phase = x.phase /\ z.i = x.i /\ z.core = x.core
    /\ z.aborted = TRUE /\ z.success = x.success /\ Same(z, x)
IsSucceeded(z, x, b) ==
    /\ z \in Execution /\ z.phase = x.phase /\ z.i = x.i /\ z.core = x.core
    /\ z.aborted = x.aborted /\ z.success = b /\ Same(z, x)
IsPre(z, x, c, r) ==
    /\ z \in Execution /\ z.phase = x.phase /\ z.i = x.i /\ z.core = x.core
    /\ Fixed(z, x) /\ Ends(z, x) /\ z.posts = x.posts /\ z.pres = Append(x.pres, HookOf(x))
    /\ z.executed = x.executed + r /\ z.returned = x.returned + r
    /\ z.cancelled = c /\ z.vetoed = c
IsPost(z, x, c, e, r) ==
    /\ z \in Execution /\ z.phase = x.phase /\ z.i = x.i - 1 /\ z.core = x.core
    /\ Fixed(z, x) /\ Ends(z, x) /\ z.pres = x.pres /\ z.posts = Append(x.posts, HookOf(x))
    /\ z.executed = x.executed + e /\ z.returned = x.returned + r
    /\ z.cancelled = c /\ z.vetoed = x.vetoed

LEMMA FieldTypes ==
    ASSUME NEW x \in Execution
    PROVE  /\ x.hooks \in Seq(Hooks) /\ x.pres \in Seq(Hooks) /\ x.posts \in Seq(Hooks)
           /\ x.i \in Nat /\ x.executed \in Nat /\ x.returned \in Nat
           /\ x.cancelled \in BOOLEAN /\ x.vetoed \in BOOLEAN /\ x.failFast \in BOOLEAN
           /\ x.started \in BOOLEAN /\ x.aborted \in BOOLEAN /\ x.success \in BOOLEAN
           /\ x.core \in CoreEnds
  BY DEF Execution

\* Each update keeps the type and the fields it does not name.
LEMMA SetAt ==
    ASSUME NEW x \in Execution, NEW f \in Phases, NEW n \in Nat
    PROVE  IsAt(PutAt(x, f, n), x, f, n)
<1>1. PutAt(x, f, n) \in Execution
  BY ZenonT(30) DEF Execution, PutAt
<1> QED BY <1>1 DEF PutAt, IsAt, Execution, Same, Fixed, Calls, Tally, Flags, Ends

LEMMA SetPhased ==
    ASSUME NEW x \in Execution, NEW f \in Phases
    PROVE  IsAt(Phased(x, f), x, f, x.i)
<1>1. Phased(x, f) \in Execution
  BY ZenonT(30) DEF Execution, Phased
<1> QED BY <1>1 DEF Phased, IsAt, Execution, Same, Fixed, Calls, Tally, Flags, Ends

LEMMA SetIndexed ==
    ASSUME NEW x \in Execution, NEW n \in Nat
    PROVE  IsAt(Indexed(x, n), x, x.phase, n)
<1>1. Indexed(x, n) \in Execution
  BY ZenonT(30) DEF Execution, Indexed
<1> QED BY <1>1 DEF Indexed, IsAt, Execution, Same, Fixed, Calls, Tally, Flags, Ends

LEMMA SetCored ==
    ASSUME NEW x \in Execution, NEW c \in CoreEnds, NEW f \in Phases, NEW n \in Nat
    PROVE  IsCored(Cored(x, c, f, n), x, c, f, n)
<1>1. Cored(x, c, f, n) \in Execution
  BY ZenonT(30) DEF Execution, Cored
<1> QED BY <1>1 DEF Cored, IsCored, Execution, Same, Fixed, Calls, Tally, Flags, Ends

LEMMA SetAborted ==
    ASSUME NEW x \in Execution
    PROVE  IsAborted(Aborted(x), x)
<1>1. \A b \in BOOLEAN : [x EXCEPT !.aborted = b] \in Execution
  BY ZenonT(30) DEF Execution
<1>2. Aborted(x) \in Execution
  BY <1>1 DEF Aborted
<1> QED BY <1>2 DEF Aborted, IsAborted, Execution, Same, Fixed, Calls, Tally, Flags

LEMMA SetSuccess ==
    ASSUME NEW x \in Execution, NEW b \in BOOLEAN
    PROVE  IsSucceeded(Succeeded(x, b), x, b)
<1>1. Succeeded(x, b) \in Execution
  BY ZenonT(30) DEF Execution, Succeeded
<1> QED BY <1>1 DEF Succeeded, IsSucceeded, Execution, Same, Fixed, Calls, Tally, Flags

LEMMA SetPre ==
    ASSUME NEW x \in Execution, HookOf(x) \in Hooks, NEW c \in BOOLEAN, NEW st \in BOOLEAN,
           NEW r \in {0, 1}
    PROVE  IsPre(Pre(x, c, st, r), x, c, r)
<1>1. ASSUME NEW n \in Nat, NEW m \in Nat, NEW p \in Seq(Hooks)
      PROVE  [x EXCEPT !.cancelled = c, !.started = st, !.executed = n,
                !.returned = m, !.pres = p, !.vetoed = c] \in Execution
  BY ZenonT(30) DEF Execution
<1>2. /\ x.executed + r \in Nat /\ x.returned + r \in Nat
      /\ Append(x.pres, HookOf(x)) \in Seq(Hooks)
  BY FieldTypes, AppendProperties
<1>3. Pre(x, c, st, r) \in Execution
  BY <1>1, <1>2, Zenon DEF Pre
<1> QED BY <1>3 DEF Pre, IsPre, Execution, Fixed, Ends

LEMMA SetPost ==
    ASSUME NEW x \in Execution, x.i > 0, HookOf(x) \in Hooks, NEW c \in BOOLEAN,
           NEW e \in {0, 1}, NEW r \in {0, 1}
    PROVE  IsPost(Post(x, c, e, r), x, c, e, r)
<1>1. ASSUME NEW n \in Nat, NEW m \in Nat, NEW k \in Nat, NEW p \in Seq(Hooks)
      PROVE  [x EXCEPT !.cancelled = c, !.i = k, !.executed = n,
                !.returned = m, !.posts = p] \in Execution
  BY ZenonT(30) DEF Execution
<1>2. /\ x.executed + e \in Nat /\ x.returned + r \in Nat /\ x.i - 1 \in Nat
      /\ Append(x.posts, HookOf(x)) \in Seq(Hooks)
  BY FieldTypes, AppendProperties
<1>3. Post(x, c, e, r) \in Execution
  BY <1>1, <1>2, Zenon DEF Post
<1> QED BY <1>3 DEF Post, IsPost, Execution, Fixed, Ends

-----------------------------------------------------------------------------
(* Where a call leaves its execution *)

\* The hook an execution is about to call.
LEMMA OutcomeOf ==
    ASSUME NEW x \in Execution, x.i \in 1..Len(x.hooks)
    PROVE  HookOf(x) \in Hooks
  BY DEF HookOf, Execution

\* One hook appended.
LEMMA Longer ==
    ASSUME NEW s \in Seq(Hooks), NEW e \in Hooks
    PROVE  /\ Len(Append(s, e)) = Len(s) + 1 /\ Append(s, e)[Len(s) + 1] = e
           /\ \A j \in 1..Len(s) : Append(s, e)[j] = s[j]
  BY AppendProperties

\* Beginnings, element by element.
LEMMA PrefixOf ==
    ASSUME NEW s \in Seq(Hooks), NEW t \in Seq(Hooks), Len(s) <= Len(t),
           \A j \in 1..Len(s) : s[j] = t[j]
    PROVE  IsPrefix(s, t)
<1> DEFINE n == Len(s)
           a == SubSeq(s, 1, n)
           b == SubSeq(t, 1, n)
<1>1. n \in Nat /\ n \in Int /\ 1 \in Int /\ n - 1 + 1 = n /\ (1 <= n \/ n = 0)
  OBVIOUS
<1>2. /\ \A i \in 1..n : s[i] \in Hooks
      /\ \A i \in 1..n : t[i] \in Hooks
  BY ElementOfSeq
<1>3. a \in Seq(Hooks) /\ Len(a) = n /\ \A i \in 1..n : a[i] = s[i]
  BY <1>1, <1>2, SubSeqProperties
<1>4. b \in Seq(Hooks) /\ Len(b) = n /\ \A i \in 1..n : b[i] = t[i]
  BY <1>1, <1>2, SubSeqProperties
<1>5. a = b
  BY <1>3, <1>4, SeqEqual
<1> QED BY <1>5 DEF IsPrefix

LEMMA PrefixOfReverse ==
    ASSUME NEW s \in Seq(Hooks), NEW h \in Seq(Hooks), Len(s) <= Len(h),
           \A j \in 1..Len(s) : s[j] = h[Len(h) - j + 1]
    PROVE  IsPrefix(s, Reverse(h))
<1> DEFINE t == Reverse(h)
<1>1. t = [i \in 1..Len(h) |-> h[(Len(h) - i) + 1]]
  BY DEF Reverse
<1>2. \A i \in 1..Len(h) : h[(Len(h) - i) + 1] \in Hooks
  BY ElementOfSeq
<1>3. t \in [1..Len(h) -> Hooks] /\ Len(h) \in Nat
  BY <1>1, <1>2
<1>4. t \in Seq(Hooks) /\ DOMAIN t = 1..Len(h)
  BY <1>3, SeqDef
<1>6. Len(t) = Len(h)
  <2> HIDE DEF t
  <2>1. DOMAIN t = 1..Len(t) /\ Len(t) \in Nat
    BY <1>4, LenProperties
  <2> QED BY <1>3, <1>4, <2>1
<1>5. \A j \in 1..Len(s) : s[j] = t[j]
  BY <1>1
<1>7. IsPrefix(s, t)
  <2> HIDE DEF t
  <2> QED BY <1>4, <1>5, <1>6, PrefixOf
<1> QED BY <1>7

\* A pass over h, from either end, one hook further.
LEMMA Forward ==
    ASSUME NEW h \in Seq(Hooks), NEW s \in Seq(Hooks), NEW n \in 1..Len(h), Len(s) = n - 1,
           \A j \in 1..Len(s) : s[j] = h[j], NEW t, t = Append(s, h[n])
    PROVE  Len(t) = n /\ \A j \in 1..Len(t) : t[j] = h[j]
<1>1. Len(t) = n /\ \A j \in 1..(n - 1) : t[j] = s[j]
  BY AppendProperties
<1>2. t[n] = h[n]
  BY AppendProperties
<1>3. \A j \in 1..n : j \in 1..(n - 1) \/ j = n
  OBVIOUS
<1> QED BY <1>1, <1>2, <1>3

LEMMA Backward ==
    ASSUME NEW h \in Seq(Hooks), NEW s \in Seq(Hooks), NEW n \in 1..Len(h), Len(s) = Len(h) - n,
           \A j \in 1..Len(s) : s[j] = h[Len(h) - j + 1], NEW t, t = Append(s, h[n])
    PROVE  Len(t) = Len(h) - (n - 1) /\ \A j \in 1..Len(t) : t[j] = h[Len(h) - j + 1]
<1>5. Len(s) \in Nat /\ Len(s) + 1 \in Nat /\ Len(s) + 1 - 1 = Len(s)
  OBVIOUS
<1>0. PICK m \in Nat : m = Len(s) + 1
  BY <1>5, Zenon
<1>1. Len(t) = m /\ \A j \in 1..(m - 1) : t[j] = s[j]
  <2>0. h[n] \in Hooks
    BY ElementOfSeq
  <2>1. Len(t) = Len(s) + 1 /\ \A j \in 1..Len(s) : t[j] = s[j]
    BY <2>0, Longer, Zenon
  <2>2. m - 1 = Len(s)
    BY <1>0, <1>5
  <2> QED BY <1>0, <2>1, <2>2
<1>2. t[m] = h[n] /\ n = Len(h) - m + 1 /\ m = Len(h) - (n - 1)
  BY <1>0, AppendProperties
<1>3. \A j \in 1..m : j \in 1..(m - 1) \/ j = m
  OBVIOUS
<1>4. m - 1 = Len(s)
  BY <1>0, <1>5
<1> QED BY <1>1, <1>2, <1>3, <1>4

\* A pre_execute call is the next of the first pass.
LEMMA CalledPre ==
    ASSUME NEW y \in Execution, Moving(y), y.phase = "pre", NEW c \in BOOLEAN, NEW r \in {0, 1},
           NEW x, IsPre(x, y, c, r)
    PROVE  /\ Called(x) /\ Len(x.pres) = y.i /\ Len(x.posts) = 0 /\ x.core = "none"
           /\ ~x.aborted /\ ~x.success /\ x.executed = x.returned
           /\ x.hooks = y.hooks /\ y.i \in 1..Len(y.hooks)
<1>1. InPre(y) /\ Called(y) /\ ~y.aborted /\ ~y.success
  BY DEF Moving
<1>2. HookOf(y) = y.hooks[y.i]
  BY DEF HookOf
<1>3. /\ x.hooks = y.hooks /\ x.pres = Append(y.pres, HookOf(y)) /\ x.posts = y.posts
      /\ x.core = y.core /\ x.aborted = y.aborted /\ x.success = y.success
      /\ x.executed = y.executed + r /\ x.returned = y.returned + r
  BY DEF IsPre, Fixed, Ends
<1>4. /\ y.i \in 1..Len(y.hooks) /\ Len(y.pres) = y.i - 1
      /\ \A j \in 1..Len(y.pres) : y.pres[j] = y.hooks[j]
  BY <1>1 DEF InPre, Called
<1>5. Len(x.pres) = y.i /\ \A j \in 1..Len(x.pres) : x.pres[j] = y.hooks[j]
  BY <1>2, <1>3, <1>4, Forward, FieldTypes, SMTT(30)
<1> QED BY <1>1, <1>3, <1>4, <1>5, FieldTypes, SMTT(30) DEF InPre, Called

\* A post_execute call is the next of the second pass.
LEMMA CalledPost ==
    ASSUME NEW y \in Execution, Moving(y), y.phase \in {"post", "drain"}, y.i > 0,
           NEW c \in BOOLEAN, NEW e \in {0, 1}, NEW r \in {0, 1},
           NEW x, IsPost(x, y, c, e, r)
    PROVE  /\ Called(x) /\ x.i \in 0..Len(x.hooks) /\ Len(x.posts) = Len(x.hooks) - x.i
           /\ x.hooks = y.hooks /\ x.pres = y.pres
<1>1. /\ y.i \in 0..Len(y.hooks) /\ Len(y.posts) = Len(y.hooks) - y.i /\ Called(y)
  BY DEF Moving, InPost, InDrain
<1>2. HookOf(y) = y.hooks[y.i] /\ y.i \in 1..Len(y.hooks)
  BY <1>1, FieldTypes DEF HookOf
<1>3. x.hooks = y.hooks /\ x.pres = y.pres /\ x.posts = Append(y.posts, HookOf(y)) /\ x.i = y.i - 1
  BY DEF IsPost, Fixed
<1>4. \A j \in 1..Len(y.posts) : y.posts[j] = y.hooks[Len(y.hooks) - j + 1]
  BY <1>1 DEF Called
<1>5. /\ Len(x.posts) = Len(y.hooks) - (y.i - 1)
      /\ \A j \in 1..Len(x.posts) : x.posts[j] = y.hooks[Len(y.hooks) - j + 1]
  <2>1. y.hooks \in Seq(Hooks) /\ y.posts \in Seq(Hooks)
    BY FieldTypes
  <2>2. Len(y.posts) = Len(y.hooks) - y.i /\ y.i \in 1..Len(y.hooks)
    BY <1>1, <1>2
  <2>3. x.posts = Append(y.posts, y.hooks[y.i])
    BY <1>2, <1>3
  <2> HIDE DEF HookOf
  <2>4. \A t : t = Append(y.posts, y.hooks[y.i]) =>
          /\ Len(t) = Len(y.hooks) - (y.i - 1)
          /\ \A j \in 1..Len(t) : t[j] = y.hooks[Len(y.hooks) - j + 1]
    BY <1>4, <2>1, <2>2, Backward
  <2> QED BY <2>3, <2>4
<1>6. Len(x.posts) <= Len(x.hooks) /\ x.i \in 0..Len(x.hooks) /\ Len(x.posts) = Len(x.hooks) - x.i
  BY <1>2, <1>3, <1>5, FieldTypes, SMTT(30)
<1>7. Called(x)
  BY <1>1, <1>3, <1>5, <1>6 DEF Called
<1> QED BY <1>3, <1>6, <1>7

\* What a change of place leaves as it was.
LEMMA PlacedKeeps ==
    ASSUME NEW x, NEW z, Same(z, x), Called(x)
    PROVE  /\ Called(z) /\ (PreDone(x) <=> PreDone(z)) /\ z.hooks = x.hooks
           /\ z.pres = x.pres /\ z.posts = x.posts /\ z.failFast = x.failFast
           /\ z.executed = x.executed /\ z.returned = x.returned
           /\ z.cancelled = x.cancelled /\ z.vetoed = x.vetoed
  BY DEF Same, Fixed, Calls, Tally, Flags, Called, PreDone

\* An execution that an exception ends is over, its result says so.
LEMMA AbortOver ==
    ASSUME NEW x \in Execution, Called(x), ~x.success,
           Len(x.posts) = 0 \/ PreDone(x) \/ x.vetoed, x.vetoed => x.core = "none",
           x.executed <= x.returned,
           ~(x.failFast /\ x.core = "raised") => x.executed = x.returned
    PROVE  Over([Aborted(x) EXCEPT !.phase = "done"])
<1> DEFINE a == Aborted(x)
           d == Phased(a, "done")
<1>1. IsAborted(a, x)
  BY SetAborted
<1> HIDE DEF a
<1>2. IsAt(d, a, "done", a.i)
  BY <1>1, SetPhased DEF IsAborted
<1>3. d = [Aborted(x) EXCEPT !.phase = "done"]
  BY DEF Phased, a
<1> HIDE DEF d
<1>4. /\ d \in Execution /\ d.phase = "done" /\ d.aborted /\ ~d.success /\ d.core = x.core
      /\ Same(d, x)
  BY <1>1, <1>2 DEF IsAborted, IsAt, Same, Fixed, Calls, Tally, Flags, Ends
<1>5. Over(d)
  BY <1>4, PlacedKeeps DEF Over
<1> QED BY <1>3, <1>5

\* The execution after a pre_execute call.
LEMMA PreMoves ==
    ASSUME NEW y \in Execution, Moving(y), y.phase = "pre", NEW c \in BOOLEAN, NEW r \in {0, 1},
           NEW x, IsPre(x, y, c, r)
    PROVE  /\ Over([Aborted(x) EXCEPT !.phase = "done"])
           /\ c => Moving(PutAt(x, "post", Len(y.hooks)))
           /\ ~c /\ y.i = Len(y.hooks) => Moving(Phased(x, "core"))
           /\ ~c /\ y.i # Len(y.hooks) => Moving(Indexed(x, y.i + 1))
<1>1. /\ Called(x) /\ Len(x.pres) = y.i /\ Len(x.posts) = 0 /\ x.core = "none"
      /\ ~x.aborted /\ ~x.success /\ x.executed = x.returned
      /\ x.hooks = y.hooks /\ y.i \in 1..Len(y.hooks)
  BY CalledPre
<1>2. x \in Execution /\ x.phase = "pre" /\ x.i = y.i /\ x.cancelled = c /\ x.vetoed = c
  BY DEF IsPre
<1>3. Len(y.hooks) \in Nat /\ y.i + 1 \in Nat
  BY <1>1, FieldTypes
<1>4. Over([Aborted(x) EXCEPT !.phase = "done"])
  BY <1>1, <1>2, FieldTypes, AbortOver
<1>5. ASSUME c PROVE Moving(PutAt(x, "post", Len(y.hooks)))
  <2>1. PICK z : z = PutAt(x, "post", Len(y.hooks)) /\ IsAt(z, x, "post", Len(y.hooks))
    BY <1>2, <1>3, SetAt
  <2>2. /\ z \in Execution /\ z.phase = "post" /\ z.i = Len(y.hooks) /\ z.core = "none"
        /\ ~z.aborted /\ ~z.success /\ Called(z) /\ z.hooks = y.hooks /\ Len(z.posts) = 0
        /\ z.executed = z.returned /\ z.cancelled = x.cancelled /\ z.vetoed = x.vetoed
    BY <1>1, <1>2, <2>1, PlacedKeeps DEF IsAt, Ends
  <2>3. InPost(z)
    BY <1>2, <1>3, <1>5, <2>2 DEF InPost
  <2> QED BY <2>1, <2>2, <2>3 DEF Moving
<1>6. ASSUME ~c, y.i = Len(y.hooks) PROVE Moving(Phased(x, "core"))
  <2>1. PICK z : z = Phased(x, "core") /\ IsAt(z, x, "core", x.i)
    BY <1>2, SetPhased
  <2> QED BY <1>1, <1>2, <1>6, <2>1, PlacedKeeps DEF IsAt, Moving, InCore, PreDone, Ends
<1>7. ASSUME ~c, y.i # Len(y.hooks) PROVE Moving(Indexed(x, y.i + 1))
  <2>1. PICK z : z = Indexed(x, y.i + 1) /\ IsAt(z, x, x.phase, y.i + 1)
    BY <1>2, <1>3, SetIndexed
  <2>2. /\ z \in Execution /\ z.phase = "pre" /\ z.i = y.i + 1 /\ z.core = "none"
        /\ ~z.aborted /\ ~z.success /\ Called(z) /\ z.hooks = y.hooks /\ Len(z.posts) = 0
        /\ Len(z.pres) = y.i /\ z.executed = z.returned /\ ~z.vetoed
    BY <1>1, <1>2, <1>7, <2>1, PlacedKeeps DEF IsAt, Ends
  <2>3. InPre(z)
    BY <1>1, <1>3, <1>7, <2>2 DEF InPre
  <2> QED BY <2>1, <2>2, <2>3 DEF Moving
<1> QED BY <1>4, <1>5, <1>6, <1>7

\* The execution after the core call.
LEMMA CoreMoves ==
    ASSUME NEW y \in Execution, Moving(y), y.phase = "core", NEW raises \in BOOLEAN
    PROVE  Moving(Cored(y, IF raises THEN "raised" ELSE "returned",
                        IF raises /\ y.failFast THEN "drain" ELSE "post", Len(y.hooks)))
<1> DEFINE c == IF raises THEN "raised" ELSE "returned"
           f == IF raises /\ y.failFast THEN "drain" ELSE "post"
<1>1. InCore(y) /\ Called(y) /\ ~y.aborted /\ ~y.success
  BY DEF Moving
<1>2. c \in CoreEnds /\ f \in Phases /\ Len(y.hooks) \in Nat
  BY FieldTypes
<1>3. PICK z : z = Cored(y, c, f, Len(y.hooks)) /\ IsCored(z, y, c, f, Len(y.hooks))
  BY <1>2, SetCored
<1>4. Moving(z)
  BY <1>1, <1>2, <1>3, PlacedKeeps, FieldTypes
     DEF IsCored, Moving, InCore, InPost, InDrain, Ends
<1> QED BY <1>3, <1>4

\* The execution after a post_execute call of either loop.
LEMMA PostMoves ==
    ASSUME NEW y \in Execution, Moving(y), y.phase \in {"post", "drain"}, y.i > 0,
           NEW c \in BOOLEAN, y.cancelled => c, NEW e \in {0, 1}, NEW r \in {0, 1},
           e = r \/ (y.phase = "drain" /\ e = 0), NEW x, IsPost(x, y, c, e, r)
    PROVE  Moving(x) /\ (y.phase = "post" => Over([Aborted(x) EXCEPT !.phase = "done"]))
<1>1. /\ Called(x) /\ x.i \in 0..Len(x.hooks) /\ Len(x.posts) = Len(x.hooks) - x.i
      /\ x.hooks = y.hooks /\ x.pres = y.pres
  BY CalledPost
<1>2. /\ x \in Execution /\ x.phase = y.phase /\ x.core = y.core /\ x.failFast = y.failFast
      /\ x.aborted = y.aborted /\ x.success = y.success
      /\ x.executed = y.executed + e /\ x.returned = y.returned + r
      /\ x.cancelled = c /\ x.vetoed = y.vetoed
  BY DEF IsPost, Fixed, Ends
<1>3. ~y.aborted /\ ~y.success /\ (y.phase = "post" => InPost(y)) /\ (y.phase = "drain" => InDrain(y))
  BY DEF Moving
<1>4. y.phase = "post" => InPost(x) /\ Over([Aborted(x) EXCEPT !.phase = "done"])
  <2> HAVE y.phase = "post"
  <2>1. InPost(x)
    BY <1>1, <1>2, <1>3, FieldTypes DEF InPost, PreDone
  <2>2. /\ ~x.success /\ (PreDone(x) \/ x.vetoed) /\ (x.vetoed => x.core = "none")
        /\ x.executed <= x.returned /\ x.executed = x.returned
    BY <1>2, <1>3, <2>1, FieldTypes DEF InPost
  <2> QED BY <1>1, <1>2, <2>1, <2>2, AbortOver
<1>5. y.phase = "drain" => InDrain(x)
  BY <1>1, <1>2, <1>3, FieldTypes DEF InDrain, PreDone
<1> QED BY <1>1, <1>2, <1>3, <1>4, <1>5 DEF Moving

\* The execution that has made its last post_execute call.
LEMMA ConcludeOver ==
    ASSUME NEW y \in Execution, Moving(y), y.phase \in {"post", "drain"}, y.i = 0,
           NEW b \in BOOLEAN, b <=> y.core # "raised" /\ ~y.cancelled
    PROVE  Over([Succeeded(y, b) EXCEPT !.phase = "done"])
<1> DEFINE s == Succeeded(y, b)
           d == Phased(s, "done")
<1>1. IsSucceeded(s, y, b)
  BY SetSuccess
<1>2. d = [Succeeded(y, b) EXCEPT !.phase = "done"]
  BY DEF Phased
<1> HIDE DEF s
<1>3. IsAt(d, s, "done", s.i)
  BY <1>1, SetPhased DEF IsSucceeded
<1> HIDE DEF d
<1>4. /\ d \in Execution /\ d.phase = "done" /\ d.aborted = y.aborted /\ d.success = b
      /\ d.core = y.core /\ Same(d, y)
  BY <1>1, <1>3 DEF IsSucceeded, IsAt, Same, Fixed, Calls, Tally, Flags, Ends
<1>5. /\ Called(y) /\ ~y.aborted /\ (PreDone(y) \/ y.vetoed) /\ Len(y.posts) = Len(y.hooks)
      /\ (y.vetoed => y.core = "none" /\ y.cancelled)
      /\ (~y.vetoed => y.core \in {"returned", "raised"})
      /\ y.executed <= y.returned
      /\ (~(y.failFast /\ y.core = "raised") => y.executed = y.returned)
  BY FieldTypes DEF Moving, InPost, InDrain
<1>6. Over(d)
  BY <1>4, <1>5, PlacedKeeps DEF Over
<1> QED BY <1>2, <1>6

-----------------------------------------------------------------------------
(* Every step keeps the invariant *)

LEMMA GetHooksType ==
    ASSUME StateInv, NEW e \in HookEvents
    PROVE  GetHooks(e) \in Seq(Hooks)
<1>1. specific[e] \in Seq(Hooks) /\ globals \in Seq(Hooks)
  BY DEF StateInv
<1> QED BY <1>1, ConcatProperties DEF GetHooks

\* register, unregister, clear and reset touch no execution.
LEMMA RegistryKeeps ==
    ASSUME PipelineInv,
           \/ \E e \in HookEvents, h \in Hooks, g \in BOOLEAN : RegisterHook(e, h, g)
           \/ \E h \in Hooks : UnregisterHook(h)
           \/ ClearHooks \/ ResetMetrics
    PROVE  PipelineInv'
<1>1. UNCHANGED <<stack, finished, runs>> /\ changes' \in 0..MaxChanges
  BY HookAssumption DEF PipelineInv, StateInv, RegisterHook, UnregisterHook, ClearHooks,
     ResetMetrics, RegistryChange
<1>2. StackInv'
  BY <1>1 DEF PipelineInv, StackInv
<1>3. ASSUME NEW e \in HookEvents, NEW h \in Hooks, NEW g \in BOOLEAN, RegisterHook(e, h, g)
      PROVE  StateInv'
  <2>1. Append(globals, h) \in Seq(Hooks) /\ Append(specific[e], h) \in Seq(Hooks)
    BY AppendProperties DEF PipelineInv, StateInv
  <2> QED BY <1>1, <1>3, <2>1 DEF PipelineInv, StateInv, RegisterHook, RegistryChange
<1>4. ASSUME NEW h \in Hooks, UnregisterHook(h)
      PROVE  StateInv'
  <2>1. Without(globals, h) \in Seq(Hooks) /\ \A e \in HookEvents : Without(specific[e], h) \in Seq(Hooks)
    BY WithoutType DEF PipelineInv, StateInv
  <2> QED BY <1>1, <1>4, <2>1 DEF PipelineInv, StateInv, UnregisterHook, RegistryChange
<1>5. CASE ClearHooks
  <2>1. <<>> \in Seq(Hooks) /\ [e \in HookEvents |-> <<>>] \in [HookEvents -> Seq(Hooks)]
    OBVIOUS
  <2>2. globals' \in Seq(Hooks) /\ specific' \in [HookEvents -> Seq(Hooks)]
    BY <1>5, <2>1, Zenon DEF ClearHooks
  <2>3. counts' = counts /\ timed' = timed
    BY <1>5 DEF ClearHooks, RegistryChange
  <2>4. runs' \in 0..MaxRuns /\ changes' \in 0..MaxChanges
    BY <1>1 DEF PipelineInv, StateInv
  <2> QED BY <1>2, <2>2, <2>3, <2>4 DEF PipelineInv, StateInv
<1>6. CASE ResetMetrics
  <2>1. [e \in HookEvents |-> 0] \in [HookEvents -> Nat]
    OBVIOUS
  <2>2. counts' \in [HookEvents -> Nat] /\ timed' \in [HookEvents -> Nat]
    BY <1>6, <2>1, Zenon DEF ResetMetrics
  <2>3. globals' = globals /\ specific' = specific
    BY <1>6 DEF ResetMetrics
  <2>4. runs' \in 0..MaxRuns /\ changes' \in 0..MaxChanges
    BY <1>1 DEF PipelineInv, StateInv
  <2> QED BY <1>2, <2>2, <2>3, <2>4 DEF PipelineInv, StateInv
<1> QED BY <1>2, <1>3, <1>4, <1>5, <1>6 DEF PipelineInv

\* A counter of MetricsHook goes up.
LEMMA AddedKeeps ==
    ASSUME NEW g \in [HookEvents -> Nat], NEW e \in HookEvents, NEW k \in Nat
    PROVE  [g EXCEPT ![e] = g[e] + k] \in [HookEvents -> Nat]
  OBVIOUS

\* execute copies the lists of the registry.
LEMMA ExecuteKeeps ==
    ASSUME PipelineInv, NEW e \in HookEvents, NEW f \in BOOLEAN, ExecutePipeline(e, f)
    PROVE  PipelineInv'
<1> DEFINE x == [event |-> e, failFast |-> f, hooks |-> GetHooks(e),
                 phase |-> IF GetHooks(e) = <<>> THEN "core" ELSE "pre",
                 i |-> 1, cancelled |-> FALSE, started |-> FALSE, executed |-> 0,
                 core |-> "none", aborted |-> FALSE, success |-> FALSE,
                 pres |-> <<>>, posts |-> <<>>, returned |-> 0, vetoed |-> FALSE]
<1>1. PICK h \in Seq(Hooks) : h = GetHooks(e)
  BY GetHooksType DEF PipelineInv
<1>2. /\ stack' = Append(stack, x)
      /\ UNCHANGED <<globals, specific, counts, timed, finished, changes>>
      /\ runs' \in 0..MaxRuns
  BY HookAssumption DEF ExecutePipeline, PipelineInv, StateInv
<1>3. /\ x \in Execution /\ x.hooks = h /\ x.phase = (IF h = <<>> THEN "core" ELSE "pre")
      /\ x.i = 1 /\ x.core = "none" /\ ~x.aborted /\ ~x.success
      /\ x.pres = <<>> /\ x.posts = <<>> /\ x.executed = 0 /\ x.returned = 0 /\ ~x.vetoed
  <2>1. (IF h = <<>> THEN "core" ELSE "pre") \in Phases /\ 0 \in Nat /\ 1 \in Nat
        /\ <<>> \in Seq(Hooks) /\ FALSE \in BOOLEAN /\ "none" \in CoreEnds
    OBVIOUS
  <2>2. x \in Execution
    BY <1>1, <2>1, ZenonT(30) DEF Execution
  <2> QED BY <1>1, <2>2
<1> HIDE DEF x
<1>4. Len(h) \in Nat /\ (h # <<>> => 1 \in 1..Len(h))
  OBVIOUS
<1>5. Moving(x)
  BY <1>3, <1>4 DEF Moving, Called, InPre, InCore, PreDone
<1>6. StackInv'
  BY <1>2, <1>5, PushKeeps DEF PipelineInv
<1> QED BY <1>2, <1>6 DEF PipelineInv, StateInv

\* _execute_inner: a pre_execute call, the core, a post_execute call, the end.
LEMMA PreCallKeeps ==
    ASSUME PipelineInv, NEW out, PreCall(out)
    PROVE  PipelineInv'
<1>1. PICK y \in Execution : y = Top /\ Moving(y) /\ y.phase = "pre"
  BY TopMoving DEF PipelineInv, PreCall
<1> DEFINE c == y.cancelled \/ Cancels(out)
           st == y.started \/ HookOf(y) = MetricsHook
           r == One(~Raises(out))
           x == Pre(y, c, st, r)
<1>2. /\ stack # <<>>
      /\ IF Raises(out) /\ y.failFast
         THEN Return(Aborted(x))
         ELSE Continue(IF c THEN PutAt(x, "post", Len(y.hooks))
                       ELSE IF y.i = Len(y.hooks) THEN Phased(x, "core")
                       ELSE Indexed(x, x.i + 1))
      /\ UNCHANGED <<globals, specific, counts, timed, runs, changes>>
  BY <1>1, Zenon DEF PreCall, Pre, Aborted, PutAt, Phased, Indexed
<1>3. c \in BOOLEAN /\ st \in BOOLEAN /\ r \in {0, 1}
  BY FieldTypes DEF Cancels, One
<1>4. y.i \in 1..Len(y.hooks)
  BY <1>1 DEF Moving, InPre
<1>5. IsPre(x, y, c, r)
  BY <1>3, <1>4, OutcomeOf, SetPre
<1> HIDE DEF x, c, st, r
<1>6. /\ Over([Aborted(x) EXCEPT !.phase = "done"])
      /\ c => Moving(PutAt(x, "post", Len(y.hooks)))
      /\ ~c /\ y.i = Len(y.hooks) => Moving(Phased(x, "core"))
      /\ ~c /\ y.i # Len(y.hooks) => Moving(Indexed(x, y.i + 1))
  BY <1>1, <1>3, <1>5, PreMoves
<1>7. x.i = y.i
  BY <1>5 DEF IsPre
<1>8. StackInv'
  <2>1. CASE Raises(out) /\ y.failFast
    BY <1>2, <1>6, <2>1, ReturnKeeps DEF PipelineInv
  <2>2. CASE ~(Raises(out) /\ y.failFast)
    <3>1. \E z : Continue(z) /\ Moving(z)
      BY <1>2, <1>3, <1>6, <1>7, <2>2
    <3> QED BY <1>2, <3>1, CallerGoesOn DEF PipelineInv
  <2> QED BY <2>1, <2>2
<1> QED BY <1>2, <1>8 DEF PipelineInv, StateInv

LEMMA CoreCallKeeps ==
    ASSUME PipelineInv, NEW raises \in BOOLEAN, CoreCall(raises)
    PROVE  PipelineInv'
<1>1. PICK y \in Execution : y = Top /\ Moving(y) /\ y.phase = "core"
  BY TopMoving DEF PipelineInv, CoreCall
<1>2. /\ stack # <<>>
      /\ Continue(Cored(y, IF raises THEN "raised" ELSE "returned",
                        IF raises /\ y.failFast THEN "drain" ELSE "post", Len(y.hooks)))
      /\ UNCHANGED <<globals, specific, counts, timed, runs, changes>>
  BY <1>1, Zenon DEF CoreCall, Cored
<1>3. StackInv'
  BY <1>1, <1>2, CoreMoves, CallerGoesOn DEF PipelineInv
<1> QED BY <1>2, <1>3 DEF PipelineInv, StateInv

LEMMA PostCallKeeps ==
    ASSUME PipelineInv, NEW out, PostCall(out)
    PROVE  PipelineInv'
<1>1. PICK y \in Execution : y = Top /\ Moving(y) /\ y.phase \in {"post", "drain"} /\ y.i > 0
  BY TopMoving DEF PipelineInv, PostCall
<1> DEFINE c == y.cancelled \/ Cancels(out)
           e == One(~Raises(out) /\ y.phase = "post")
           r == One(~Raises(out))
           x == Post(y, c, e, r)
<1>2. /\ stack # <<>> /\ Measure(y)
      /\ IF Raises(out) /\ y.failFast /\ y.phase = "post"
         THEN Return(Aborted(x)) ELSE Continue(x)
      /\ UNCHANGED <<globals, specific, runs, changes>>
  BY <1>1, Zenon DEF PostCall, Post, Aborted
<1>3. c \in BOOLEAN /\ e \in {0, 1} /\ r \in {0, 1} /\ (y.cancelled => c)
      /\ (e = r \/ (y.phase = "drain" /\ e = 0))
  BY <1>1, FieldTypes DEF Cancels, One
<1>4. y.i \in 1..Len(y.hooks)
  BY <1>1, FieldTypes DEF Moving, InPost, InDrain
<1>5. IsPost(x, y, c, e, r)
  BY <1>1, <1>3, <1>4, OutcomeOf, SetPost
<1> HIDE DEF x, c, e, r
<1>6. Moving(x) /\ (y.phase = "post" => Over([Aborted(x) EXCEPT !.phase = "done"]))
  BY <1>1, <1>3, <1>5, PostMoves
<1>7. StackInv'
  <2>1. CASE Raises(out) /\ y.failFast /\ y.phase = "post"
    BY <1>2, <1>6, <2>1, ReturnKeeps DEF PipelineInv
  <2>2. CASE ~(Raises(out) /\ y.failFast /\ y.phase = "post")
    BY <1>2, <1>6, <2>2, CallerGoesOn DEF PipelineInv
  <2> QED BY <2>1, <2>2
<1>8. counts' \in [HookEvents -> Nat] /\ timed' \in [HookEvents -> Nat]
  <2>1. One(y.started) \in Nat
    BY DEF One
  <2>2. counts \in [HookEvents -> Nat] /\ timed \in [HookEvents -> Nat]
    BY DEF PipelineInv, StateInv
  <2>3. CASE HookOf(y) = MetricsHook
    <3>1. y.event \in HookEvents
      BY DEF Execution
    <3>2. /\ counts' = [counts EXCEPT ![y.event] = counts[y.event] + 1]
          /\ timed' = [timed EXCEPT ![y.event] = timed[y.event] + One(y.started)]
      BY <1>2, <2>3, Zenon DEF Measure
    <3> QED BY <2>1, <2>2, <3>1, <3>2, AddedKeeps
  <2>4. CASE HookOf(y) # MetricsHook
    BY <1>2, <2>2, <2>4 DEF Measure
  <2> QED BY <2>3, <2>4
<1> QED BY <1>2, <1>7, <1>8 DEF PipelineInv, StateInv

LEMMA ConcludeKeeps ==
    ASSUME PipelineInv, Conclude
    PROVE  PipelineInv'
<1>1. PICK y \in Execution : y = Top /\ Moving(y) /\ y.phase \in {"post", "drain"} /\ y.i = 0
  BY TopMoving DEF PipelineInv, Conclude
<1>2. PICK b \in BOOLEAN : b = (y.core # "raised" /\ ~y.cancelled)
  BY FieldTypes
<1>3. /\ stack # <<>> /\ Return(Succeeded(y, b))
      /\ UNCHANGED <<globals, specific, counts, timed, runs, changes>>
  BY <1>1, <1>2, Zenon DEF Conclude, Succeeded
<1>4. StackInv'
  BY <1>1, <1>2, <1>3, ConcludeOver, ReturnKeeps DEF PipelineInv
<1> QED BY <1>3, <1>4 DEF PipelineInv, StateInv

-----------------------------------------------------------------------------
(* The theorems *)

\* The inductive invariant holds.
LEMMA PipelineInvHolds == HookSpec => []PipelineInv
<1>1. HookInit => PipelineInv
  BY HookAssumption DEF HookInit, PipelineInv, StateInv, StackInv
<1>2. PipelineInv /\ [HookNext]_hookVars => PipelineInv'
  <2> SUFFICES ASSUME PipelineInv, [HookNext]_hookVars PROVE PipelineInv'
    OBVIOUS
  <2>1. CASE UNCHANGED hookVars
    BY <2>1 DEF hookVars, PipelineInv, StateInv, StackInv
  <2>2. CASE HookNext
    BY <2>2, RegistryKeeps, ExecuteKeeps, PreCallKeeps, CoreCallKeeps, PostCallKeeps,
       ConcludeKeeps DEF HookNext
  <2> QED BY <2>1, <2>2
<1> QED BY <1>1, <1>2, PTL DEF HookSpec

\* OnionOrder, for any hooks, events, registrations and depth of nesting: an
\* execution calls the hooks it found at its start in order, then in reverse.
THEOREM OnionOrderHolds == HookSpec => []OnionOrder
<1>1. ASSUME NEW x, Moving(x) \/ Over(x)
      PROVE  /\ IsPrefix(x.pres, x.hooks)
             /\ IsPrefix(x.posts, Reverse(x.hooks))
             /\ x.phase \in {"core", "drain"} => x.pres = x.hooks
             /\ x.phase = "done" /\ ~x.aborted => Len(x.posts) = Len(x.hooks)
             /\ x.posts # <<>> => x.pres = x.hooks \/ x.vetoed
  <2>1. /\ x.hooks \in Seq(Hooks) /\ x.pres \in Seq(Hooks) /\ x.posts \in Seq(Hooks)
        /\ Called(x)
    BY <1>1, FieldTypes DEF Moving, Over
  <2>2. PreDone(x) => x.pres = x.hooks
    BY <2>1, SeqEqual DEF Called, PreDone
  <2>3. IsPrefix(x.pres, x.hooks)
    BY <2>1, PrefixOf DEF Called
  <2>4. IsPrefix(x.posts, Reverse(x.hooks))
    BY <2>1, PrefixOfReverse DEF Called
  <2>5. x.phase \in {"core", "drain"} => PreDone(x)
    BY <1>1 DEF Moving, Over, InCore, InDrain
  <2>6. x.phase = "done" /\ ~x.aborted => Len(x.posts) = Len(x.hooks)
    BY <1>1 DEF Moving, Over
  <2>7. x.posts # <<>> => Len(x.posts) # 0
    BY <2>1
  <2>8. Len(x.posts) = 0 \/ PreDone(x) \/ x.vetoed
    BY <1>1 DEF Moving, Over, InPre, InCore, InPost, InDrain
  <2> QED BY <2>2, <2>3, <2>4, <2>5, <2>6, <2>7, <2>8
<1>2. PipelineInv => OnionOrder
  <2> SUFFICES ASSUME PipelineInv, NEW x \in Executions PROVE Moving(x) \/ Over(x)
    BY <1>1, Zenon DEF OnionOrder
  <2> QED BY DEF PipelineInv, StackInv, Executions, Range
<1> QED BY <1>2, PipelineInvHolds, PTL

\* ResultHonest, for any hooks, events, registrations and depth of nesting: the
\* HookResult tells whether core, hooks and post calls did what they were to do.
THEOREM ResultHonestHolds == HookSpec => []ResultHonest
<1>1. PipelineInv => ResultHonest
  <2> SUFFICES ASSUME PipelineInv, NEW x \in Range(finished) PROVE Over(x)
    BY Zenon DEF ResultHonest, Over
  <2> QED BY DEF PipelineInv, StackInv, Range
<1> QED BY <1>1, PipelineInvHolds, PTL

-----------------------------------------------------------------------------
(* The types of the parts, and the parts side by side *)

LEMMA HookTypeHolds == HookSpec => []HookTypeOK
<1>1. PipelineInv => HookTypeOK
  BY DEF PipelineInv, StateInv, StackInv, HookTypeOK
<1> QED BY <1>1, PipelineInvHolds, PTL

LEMMA ReachedHolds == RouterSpec => [](up \subseteq ModelNames)
<1>1. RouterInit => up \subseteq ModelNames
  BY DEF RouterInit
<1>2. up \subseteq ModelNames /\ [RouterNext]_routerVars => (up \subseteq ModelNames)'
  <2> SUFFICES ASSUME up \subseteq ModelNames, [RouterNext]_routerVars PROVE up' \subseteq ModelNames
    OBVIOUS
  <2>1. up' = up \/ \E n \in ModelNames : up' = IF n \in up THEN up \ {n} ELSE up \cup {n}
    BY Zenon DEF RouterNext, routerVars, RegisterModel, UnregisterModel, ClearModels, RegistryStep,
                 ChangeAvailability, SelectRoundRobin, PickAndFail, FailoverDone
  <2> QED BY <2>1
<1> QED BY <1>1, <1>2, PTL DEF RouterSpec

LEMMA RouterTypeHolds == RouterSpec => []RouterTypeOK
<1>1. RegistryInv /\ FailoverInv /\ RoundInv /\ up \subseteq ModelNames => RouterTypeOK
  BY DEF RegistryInv, FailoverInv, RoundInv, RouterTypeOK, ByValue
<1> QED BY <1>1, ReachedHolds, RouterBegins, RouterKeeps, PTL DEF RouterSpec

LEMMA ChainTypeHolds == ChainSpec => []ChainTypeOK
<1>1. ChainInv => ChainTypeOK
  BY DEF ChainInv
<1> QED BY <1>1, ChainInvHolds, PTL

\* A route is one of the agents, or none.
LEMMA RouteType ==
    ASSUME NEW cs \in Seq(AgentConfigs), NEW t PROVE Route(cs, t) \in AgentNames \cup {NoAgent}
<1>1. DOMAIN cs = 1..Len(cs) /\ Len(cs) \in Nat /\ \A i \in DOMAIN cs : cs[i].name \in AgentNames
  BY LenProperties, ElementOfSeq DEF AgentNames
<1>2. Matching(cs, t) \subseteq DOMAIN cs /\ Fallbacks(cs) \subseteq DOMAIN cs /\ DOMAIN cs \subseteq Nat
  BY <1>1 DEF Matching, Fallbacks
<1>3. ASSUME NEW S \in SUBSET DOMAIN cs, S # {} PROVE Least(S) \in DOMAIN cs
  BY <1>2, <1>3, LeastIsLeast
<1>4. cs # <<>> => Len(cs) \in DOMAIN cs
  BY <1>1, EmptySeq
<1> QED BY <1>1, <1>2, <1>3, <1>4 DEF Route

LEMMA TurnType ==
    ASSUME NEW s \in {"none", "executing", "replied", "no_agent", "no_node", "raised"},
           NEW t \in Tasks \cup {NoTask}, NEW a \in AgentNames \cup {NoAgent}
    PROVE  [task |-> t, agent |-> a, status |-> s] \in Turn
  BY DEF Turn

LEMMA RoutingTypeHolds == RoutingSpec => []RoutingTypeOK
<1>1. ASSUME RoutingInit PROVE RoutingTypeOK
  <2>1. agents = <<>> /\ nodes = {} /\ compiled = FALSE /\ strategy \in Known
    BY <1>1 DEF RoutingInit, Known
  <2>2. turn \in Turn
    BY <1>1, TurnType DEF RoutingInit, NoTurnYet, Turn
  <2> QED BY <2>1, <2>2, EmptySeq DEF RoutingTypeOK
<1>2. RoutingTypeOK /\ [RoutingNext]_routingVars => RoutingTypeOK'
  <2> SUFFICES ASSUME RoutingTypeOK, [RoutingNext]_routingVars PROVE RoutingTypeOK'
    OBVIOUS
  <2>1. ASSUME NEW a \in AgentConfigs, NEW s \in Strategies, NEW c \in BOOLEAN, AppendAgent(a, s, c)
        PROVE  RoutingTypeOK'
    <3>1. agents' \in Seq(AgentConfigs)
      BY <2>1, AppendProperties DEF RoutingTypeOK, AppendAgent
    <3>2. strategy' \in Known /\ compiled' \in BOOLEAN
      BY <2>1 DEF AppendAgent, Parsed, Known
    <3>3. turn' \in Turn /\ nodes' = nodes
      BY <2>1 DEF AppendAgent, Redeploy, NoTurnYet, Turn
    <3> QED BY <3>1, <3>2, <3>3 DEF RoutingTypeOK
  <2>2. ASSUME NEW n \in AgentNames, ChangeNode(n) PROVE RoutingTypeOK'
    BY <2>2 DEF RoutingTypeOK, ChangeNode
  <2>3. ASSUME NEW t \in Tasks \cup {NoTask}, NEW m \in Tasks \cup {NoTask}, RunSimple(t, m)
        PROVE  RoutingTypeOK'
    <3> DEFINE x == IF t # NoTask THEN t ELSE m
               a == Route(agents, x)
               s == IF a = NoAgent THEN "no_agent" ELSE IF a \notin nodes THEN "no_node" ELSE "executing"
    <3>1. a \in AgentNames \cup {NoAgent} /\ x \in Tasks \cup {NoTask}
      BY RouteType DEF RoutingTypeOK
    <3>2. s \in {"none", "executing", "replied", "no_agent", "no_node", "raised"}
      OBVIOUS
    <3>3. turn' = [task |-> x, agent |-> a, status |-> s] /\ UNCHANGED <<agents, strategy, compiled, nodes>>
      BY <2>3 DEF RunSimple
    <3> HIDE DEF x, a, s
    <3>4. turn' \in Turn
      BY <3>1, <3>2, <3>3, TurnType
    <3> QED BY <3>3, <3>4 DEF RoutingTypeOK
  <2>4. ASSUME NEW t \in Tasks \cup {NoTask}, NEW a \in AgentNames \cup {NoAgent}, RunCompiled(t, a)
        PROVE  RoutingTypeOK'
    <3>1. turn' \in Turn
      BY <2>4, TurnType DEF RunCompiled
    <3> QED BY <2>4, <3>1 DEF RoutingTypeOK, RunCompiled
  <2>5. ASSUME NEW s \in {"replied", "raised"}, TurnReturns(s) PROVE RoutingTypeOK'
    <3>1. turn' \in Turn
      BY <2>5 DEF RoutingTypeOK, TurnReturns, Turn
    <3> QED BY <2>5, <3>1 DEF RoutingTypeOK, TurnReturns
  <2>6. CASE UNCHANGED routingVars
    BY <2>6 DEF routingVars, RoutingTypeOK
  <2> QED BY <2>1, <2>2, <2>3, <2>4, <2>5, <2>6 DEF RoutingNext
<1> QED BY <1>1, <1>2, PTL DEF RoutingSpec

\* What the run explores: every behaviour of the composition is one of each part, so
\* all that is proved of a part holds of it there.
THEOREM CorePartsApart ==
    Spec => /\ HookSpec /\ RouterSpec /\ ChainSpec /\ RoutingSpec
            /\ ContextSpec /\ MemorySpec /\ InMemorySpec
<1>1. Init => /\ HookInit /\ RouterInit /\ ChainInit /\ RoutingInit
              /\ ContextInit /\ MemoryInit /\ InMemoryInit
  BY DEF Init
<1>2. [Next]_vars => /\ [HookNext]_hookVars /\ [RouterNext]_routerVars
                     /\ [ChainNext]_chainVars /\ [RoutingNext]_routingVars
                     /\ [ContextNext]_contextVars /\ [MemoryNext]_memoryVars
                     /\ [InMemoryNext]_inMemoryVars
  BY Zenon DEF Next, Work, Recall, vars, workVars, recallVars
<1> QED BY <1>1, <1>2, PTL DEF Spec, HookSpec, RouterSpec, ChainSpec, RoutingSpec,
                              ContextSpec, MemorySpec, InMemorySpec

\* Every variable of every part stays in its type, for any constants.
THEOREM CoreTypeHolds == Spec => []CoreTypeOK
<1>1. /\ HookTypeOK /\ RouterTypeOK /\ ChainTypeOK /\ RoutingTypeOK
      /\ ContextTypeOK /\ MemoryTypeOK /\ InMemoryTypeOK
      => CoreTypeOK
  BY DEF CoreTypeOK
<1> QED BY <1>1, CorePartsApart, HookTypeHolds, RouterTypeHolds, ChainTypeHolds, RoutingTypeHolds,
           ContextTypeHolds, MemoryTypeHolds, InMemoryTypeHolds, PTL
==============================================================================
