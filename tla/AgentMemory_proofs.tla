------------------------- MODULE AgentMemory_proofs -------------------------
(***************************************************************************)
(* Proofs about what an agent remembers: lazy deletion in LayeredMemory    *)
(* cannot be seen and its answers are complete; a walk over the pages of   *)
(* InMemoryRuntime is exact, and the runtime keeps what the protocol       *)
(* promises of the Soul; what the strategies of ContextWindow leave of a   *)
(* conversation.                                                           *)
(***************************************************************************)
EXTENDS LayeredMemory, InMemoryRuntime, ContextWindow, Recursion_proofs,
        FiniteSetTheorems, FunctionTheorems

-----------------------------------------------------------------------------
(* Counting: the first n elements of an ordered finite set *)

\* A strict order in which any two elements of S are comparable.
Orders(R, S) ==
    /\ \A d \in S : <<d, d>> \notin R
    /\ \A d, e, f \in S : <<d, e>> \in R /\ <<e, f>> \in R => <<d, f>> \in R
    /\ \A d, e \in S : d = e \/ <<d, e>> \in R \/ <<e, d>> \in R

Preceding(R, S, e) == {d \in S : <<d, e>> \in R}
First(R, S, n) == {e \in S : Cardinality(Preceding(R, S, e)) < n}

\* Fewer elements come before an earlier one.
LEMMA EarlierHasFewer ==
    ASSUME NEW S, IsFiniteSet(S), NEW R, Orders(R, S),
           NEW d \in S, NEW e \in S, <<d, e>> \in R
    PROVE  Cardinality(Preceding(R, S, d)) < Cardinality(Preceding(R, S, e))
<1>1. IsFiniteSet(Preceding(R, S, e)) /\ IsFiniteSet(Preceding(R, S, d))
  BY FS_Subset DEF Preceding
<1>2. Preceding(R, S, d) \subseteq Preceding(R, S, e) /\ d \in Preceding(R, S, e) /\ d \notin Preceding(R, S, d)
  BY DEF Preceding, Orders
<1>3. Preceding(R, S, d) # Preceding(R, S, e)
  BY <1>2
<1>4. /\ Cardinality(Preceding(R, S, d)) \in Nat /\ Cardinality(Preceding(R, S, e)) \in Nat
      /\ Cardinality(Preceding(R, S, d)) <= Cardinality(Preceding(R, S, e))
      /\ Cardinality(Preceding(R, S, d)) # Cardinality(Preceding(R, S, e))
  BY <1>1, <1>2, <1>3, FS_CardinalityType, FS_Subset
<1> QED BY <1>4

\* The elements with fewer than n before them: at most n, exactly n unless they
\* are all there are, and each before all others.
LEMMA FirstAreN ==
    ASSUME NEW S, IsFiniteSet(S), NEW R, Orders(R, S), NEW n \in Nat
    PROVE  /\ First(R, S, n) \subseteq S
           /\ Cardinality(First(R, S, n)) \in Nat /\ Cardinality(First(R, S, n)) <= n
           /\ First(R, S, n) # S => Cardinality(First(R, S, n)) = n
           /\ \A e \in S \ First(R, S, n), f \in First(R, S, n) : <<f, e>> \in R
<1> DEFINE T == First(R, S, n)
           Rank(e) == Cardinality(Preceding(R, S, e))
<1>1. T \subseteq S /\ IsFiniteSet(T) /\ \A e \in S : e \in T <=> Rank(e) < n
  BY FS_Subset DEF First
<1>2. \A e \in S : Rank(e) \in Nat
  BY FS_Subset, FS_CardinalityType DEF Preceding
<1>3. \A d, e \in S : <<d, e>> \in R => Rank(d) < Rank(e)
  BY EarlierHasFewer
<1>4. Cardinality(T) \in Nat
  BY <1>1, FS_CardinalityType
<1> HIDE DEF T, Rank
<1>5. \A e \in S \ T, f \in T : <<f, e>> \in R
  <2> TAKE e \in S \ T, f \in T
  <2>1. e \in S /\ f \in S /\ Rank(e) \in Nat /\ Rank(f) \in Nat /\ Rank(f) < n /\ ~(Rank(e) < n)
    BY <1>1, <1>2
  <2>2. ~(Rank(e) < Rank(f))
    BY <2>1
  <2>3. e # f
    OBVIOUS
  <2> QED BY <1>3, <2>1, <2>2, <2>3 DEF Orders
<1>6. Cardinality(T) <= n
  <2>1. CASE T = {}
    BY <2>1, FS_EmptySet
  <2>2. CASE T # {}
    <3> DEFINE Gaps == {n - Rank(f) : f \in T}
    <3>1. \A f \in T : Rank(f) \in Nat /\ n - Rank(f) \in Nat
      BY <1>1, <1>2
    <3>2. Gaps \in SUBSET Nat /\ Gaps # {}
      BY <2>2, <3>1
    <3>3. PICK g \in Gaps : \A h \in Gaps : g <= h
      BY <3>2, LeastElement
    <3>4. PICK f \in T : g = n - Rank(f)
      BY <3>3
    <3>5. \A d \in T : n - Rank(f) <= n - Rank(d)
      BY <3>3, <3>4
    <3>6. \A d \in T : Rank(d) <= Rank(f)
      BY <3>1, <3>5
    <3>7. \A d \in T : d # f => <<d, f>> \in R
      <4> SUFFICES ASSUME NEW d \in T, d # f PROVE <<d, f>> \in R
        OBVIOUS
      <4>1. d \in S /\ f \in S /\ Rank(d) \in Nat /\ Rank(f) \in Nat
        BY <1>1, <3>1
      <4>2. ~(Rank(f) < Rank(d))
        BY <3>6, <4>1
      <4> QED BY <1>3, <4>1, <4>2 DEF Orders
    <3>8. T \subseteq Preceding(R, S, f) \cup {f}
      BY <1>1, <3>7 DEF Preceding
    <3>9. IsFiniteSet(Preceding(R, S, f)) /\ f \notin Preceding(R, S, f)
      BY <1>1, FS_Subset DEF Preceding, Orders
    <3>10. /\ Cardinality(Preceding(R, S, f) \cup {f}) = Rank(f) + 1
           /\ IsFiniteSet(Preceding(R, S, f) \cup {f})
      BY <3>9, FS_AddElement DEF Rank
    <3>11. Cardinality(T) <= Rank(f) + 1
      BY <3>8, <3>10, FS_Subset
    <3>12. Rank(f) \in Nat /\ Rank(f) < n
      BY <1>1, <1>2
    <3> QED BY <1>4, <3>11, <3>12
  <2> QED BY <2>1, <2>2
<1>7. ASSUME T # S PROVE Cardinality(T) = n
  <2> DEFINE Ranks == {Rank(e) : e \in S \ T}
  <2>1. Ranks \in SUBSET Nat /\ Ranks # {}
    BY <1>1, <1>2, <1>7
  <2>2. PICK q \in Ranks : \A r \in Ranks : q <= r
    BY <2>1, LeastElement
  <2>3. PICK e \in S \ T : q = Rank(e)
    BY <2>2
  <2>4. \A d \in S \ T : Rank(e) <= Rank(d)
    BY <2>2, <2>3
  <2>5. Preceding(R, S, e) \subseteq T
    <3> SUFFICES ASSUME NEW d \in S, <<d, e>> \in R, d \notin T PROVE FALSE
      BY DEF Preceding
    <3>1. Rank(d) < Rank(e) /\ Rank(e) <= Rank(d) /\ Rank(d) \in Nat /\ Rank(e) \in Nat
      BY <1>2, <1>3, <2>4
    <3> QED BY <3>1
  <2>6. T \subseteq Preceding(R, S, e)
    BY <1>1, <1>5 DEF Preceding
  <2>7. Cardinality(T) = Rank(e)
    BY <2>5, <2>6 DEF Rank
  <2>8. Rank(e) \in Nat /\ ~(Rank(e) < n)
    BY <1>1, <1>2
  <2> QED BY <1>4, <1>6, <2>7, <2>8
<1> QED BY <1>1, <1>4, <1>5, <1>6, <1>7 DEF T

-----------------------------------------------------------------------------
(* LayeredMemory: what lives, and what may be written *)

\* Entries are at most as old and as many as time and writes allow, and none but
\* those of the searched layers has an embedding.
MemoryInv ==
    /\ MemoryTypeOK /\ IsFiniteSet(data)
    /\ \A e \in data :
         /\ e.content <= written /\ e.pos <= written /\ e.ts <= now
         /\ e.embedded => HasEmbedder /\ e.place[1] \in {"memory", "diary"}

\* What a write may put into the store when it brings the writes to m.
Fresh(new, m) ==
    /\ IsFiniteSet(new) /\ new \subseteq Entry
    /\ \A e \in new :
         /\ written < e.content /\ e.content <= m /\ e.pos <= m /\ e.ts = now
         /\ e.embedded => HasEmbedder /\ e.place[1] \in {"memory", "diary"}
    /\ \A e \in new, d \in data : d.pos = e.pos => d.place = e.place
    /\ \A d, e \in new : d.place = e.place \/ d.pos = e.pos => d = e

LEMMA EntryTypes ==
    ASSUME NEW e \in Entry
    PROVE  /\ e.place \in Layers \X AllKeys /\ e.pos \in Nat /\ e.content \in 1..MaxWrites
           /\ e.ts \in Nat /\ e.ttl \in Nat /\ e.embedded \in BOOLEAN
  BY DEF Entry

LEMMA MemoryNats ==
    ASSUME MemoryInv
    PROVE  /\ now \in Nat /\ written \in Nat /\ MaxWrites \in Nat /\ MaxNow \in Nat
           /\ now <= MaxNow /\ written <= MaxWrites
           /\ \A e \in data : e \in Entry
  BY MemoryAssumption DEF MemoryInv, MemoryTypeOK

\* What is written at this moment has not expired.
LEMMA NewIsLive ==
    ASSUME MemoryInv, NEW e \in Entry, e.ts = now
    PROVE  ~IsExpired(e)
<1>1. now \in Nat /\ e.ttl \in Nat
  BY MemoryNats, EntryTypes
<1>2. now - now = 0
  BY <1>1
<1> QED BY <1>1, <1>2 DEF IsExpired

LEMMA WriteKeeps ==
    ASSUME MemoryInv, NEW m \in Nat, written <= m, m <= MaxWrites,
           NEW new, Fresh(new, m), Written(new), written' = m, now' = now
    PROVE  MemoryInv' /\ Ttl!StoreNext
<1> DEFINE kept == {e \in data : \A d \in new : d.place # e.place}
<1>1. data' = new \cup kept /\ kept \subseteq data
  BY DEF Written
<1>2. /\ now \in Nat /\ written \in Nat /\ MaxWrites \in Nat /\ now \in 0..MaxNow
      /\ \A e \in data : e \in Entry
  BY MemoryNats DEF MemoryInv, MemoryTypeOK
<1>3. \A e \in kept : e \in data /\ \A d \in new : d.place # e.place /\ d.pos # e.pos
  BY DEF Fresh
<1>4. IsFiniteSet(data')
  <2>1. IsFiniteSet(kept)
    BY FS_Subset DEF MemoryInv
  <2> QED BY <1>1, <2>1, FS_Union DEF Fresh
<1>5. \A e \in new :
         /\ e \in Entry /\ e.content <= m /\ e.pos <= m /\ e.ts <= now
         /\ e.embedded => HasEmbedder /\ e.place[1] \in {"memory", "diary"}
  BY <1>2 DEF Fresh
<1>6. \A e \in kept :
         /\ e \in Entry /\ e.content <= m /\ e.pos <= m /\ e.ts <= now
         /\ e.embedded => HasEmbedder /\ e.place[1] \in {"memory", "diary"}
  <2> TAKE e \in kept
  <2>1. e \in Entry /\ e.content <= written /\ e.pos <= written
    BY <1>2, <1>3 DEF MemoryInv
  <2>2. e.content \in Nat /\ e.pos \in Nat
    BY <1>2, <2>1, EntryTypes
  <2>3. e.content <= m /\ e.pos <= m
    BY <1>2, <2>1, <2>2
  <2> QED BY <1>3, <2>1, <2>3 DEF MemoryInv
<1>7. \A d, e \in data' : d.place = e.place \/ d.pos = e.pos => d = e
  <2>1. \A d, e \in new : d.place = e.place \/ d.pos = e.pos => d = e
    BY DEF Fresh
  <2>2. \A d, e \in kept : d.place = e.place \/ d.pos = e.pos => d = e
    BY DEF MemoryInv, MemoryTypeOK
  <2> QED BY <1>1, <1>3, <2>1, <2>2
<1>8. MemoryInv'
  <2>1. data' \subseteq Entry /\ written' \in 0..MaxWrites /\ now' \in 0..MaxNow
    BY <1>1, <1>2, <1>5, <1>6
  <2>2. \A e \in data' :
         /\ e.content <= written' /\ e.pos <= written' /\ e.ts <= now'
         /\ e.embedded => HasEmbedder /\ e.place[1] \in {"memory", "diary"}
    BY <1>1, <1>5, <1>6
  <2> QED BY <1>4, <1>7, <2>1, <2>2 DEF MemoryInv, MemoryTypeOK
<1>9. \A e \in data \cup new : IsExpired(e)' <=> IsExpired(e)
  BY DEF IsExpired
<1>10. \A e \in new : ~IsExpired(e)
  BY NewIsLive DEF Fresh
<1>11. Live' = new \cup {e \in Live : \A d \in new : d.place # e.place}
  <2>1. Live' = {e \in data' : ~IsExpired(e)}
    BY <1>1, <1>9 DEF Live, IsExpired
  <2> QED BY <1>1, <1>10, <2>1 DEF Live
<1>12. new \in SUBSET (Live' \ Live)
  <2>1. \A e \in new : e \notin data
    <3> SUFFICES ASSUME NEW e \in new, e \in data PROVE FALSE
      OBVIOUS
    <3>1. e.content \in Nat /\ e.content <= written /\ written < e.content
      BY <1>2, EntryTypes DEF MemoryInv, Fresh
    <3> QED BY <1>2, <3>1
  <2> QED BY <1>11, <2>1 DEF Live
<1>13. \A e \in new : e.place \in Layers \X AllKeys /\ e.ts = now
  BY <1>5, EntryTypes DEF Fresh
<1>14. Ttl!Put(new)
  BY <1>11, <1>13 DEF Ttl!Put, Fresh
<1> QED BY <1>8, <1>12, <1>14 DEF Ttl!StoreNext

\* Dropping entries keeps the invariant; dropping expired ones is not seen.
LEMMA DropKeeps ==
    ASSUME MemoryInv, data' \subseteq data, UNCHANGED <<now, written>>
    PROVE  MemoryInv'
<1>1. IsFiniteSet(data')
  BY FS_Subset DEF MemoryInv
<1> QED BY <1>1 DEF MemoryInv, MemoryTypeOK

LEMMA DropUnseen ==
    ASSUME NEW removed, data' = data \ removed, \A e \in removed : IsExpired(e), now' = now
    PROVE  Live' = Live
  BY DEF Live, IsExpired

LEMMA EntryMade ==
    ASSUME NEW p \in Layers \X AllKeys, NEW q \in Nat, NEW n \in 1..MaxWrites, NEW t \in Nat,
           NEW l \in Nat, NEW b \in BOOLEAN, NEW e,
           e = [place |-> p, pos |-> q, content |-> n, ts |-> t, ttl |-> l, embedded |-> b]
    PROVE  e \in Entry /\ e.place = p /\ e.pos = q /\ e.content = n /\ e.ts = t /\ e.embedded = b
  BY DEF Entry

\* The entry a write makes.
LEMMA NewEntryFits ==
    ASSUME MemoryInv, NEW layer \in Layers, NEW key \in AllKeys, NEW ttl \in Nat,
           NEW n \in 1..MaxWrites, written < n
    PROVE  LET e == NewEntry(layer, key, n, ttl) IN
           /\ e \in Entry /\ e.place = <<layer, key>> /\ e.content = n /\ e.pos <= n /\ e.ts = now
           /\ e.embedded => HasEmbedder /\ e.place[1] \in {"memory", "diary"}
           /\ e.pos = n \/ \E d \in data : d.place = e.place /\ d.pos = e.pos
           /\ e.pos <= written => \E d \in data : d.place = e.place /\ d.pos = e.pos
<1> DEFINE p == <<layer, key>>
           q == Position(p, n)
           e == NewEntry(layer, key, n, ttl)
           b == HasEmbedder /\ layer \in {"memory", "diary"}
<1>0. now \in Nat /\ written \in Nat /\ n \in Nat /\ p \in Layers \X AllKeys
  BY MemoryNats, MemoryAssumption
<1>4. b \in BOOLEAN
  OBVIOUS
<1>1. CASE \E d \in data : d.place = p
  <2>1. PICK d \in data : d.place = p
    BY <1>1
  <2>2. \A f \in data : f.place = p => f = d
    BY <2>1 DEF MemoryInv, MemoryTypeOK
  <2>3. q = d.pos
    BY <2>1, <2>2 DEF Position
  <2>4. d.pos \in Nat /\ d.pos <= written
    BY MemoryNats, EntryTypes DEF MemoryInv
  <2>5. q \in Nat /\ q <= n
    BY <1>0, <2>3, <2>4
  <2>6. /\ q = n \/ \E f \in data : f.place = p /\ f.pos = q
        /\ q <= written => \E f \in data : f.place = p /\ f.pos = q
    BY <2>1, <2>2, <2>3
  <2> HIDE DEF p, q, b
  <2>7. e \in Entry /\ e.place = p /\ e.pos = q /\ e.content = n /\ e.ts = now /\ e.embedded = b
    <3>1. e = [place |-> p, pos |-> q, content |-> n, ts |-> now, ttl |-> ttl, embedded |-> b]
      BY DEF NewEntry, p, q, b
    <3> HIDE DEF e
    <3> QED BY <1>0, <2>5, <1>4, <3>1, EntryMade
  <2>8. b => HasEmbedder /\ layer \in {"memory", "diary"}
    BY DEF b
  <2>9. p[1] = layer
    BY DEF p
  <2> QED BY <2>5, <2>6, <2>7, <2>8, <2>9 DEF p
<1>2. CASE ~ \E d \in data : d.place = p
  <2>1. q = n
    BY <1>2 DEF Position
  <2>2. ~(n <= written)
    BY <1>0
  <2> HIDE DEF p, q, b
  <2>7. e \in Entry /\ e.place = p /\ e.pos = q /\ e.content = n /\ e.ts = now /\ e.embedded = b
    <3>1. e = [place |-> p, pos |-> q, content |-> n, ts |-> now, ttl |-> ttl, embedded |-> b]
      BY DEF NewEntry, p, q, b
    <3> HIDE DEF e
    <3> QED BY <1>0, <1>4, <2>1, <3>1, EntryMade
  <2>8. b => HasEmbedder /\ layer \in {"memory", "diary"}
    BY DEF b
  <2>9. p[1] = layer
    BY DEF p
  <2> QED BY <1>0, <1>2, <2>1, <2>2, <2>7, <2>8, <2>9 DEF p
<1> QED BY <1>1, <1>2

\* write_to_layer, as remember and append_diary call it.
LEMMA WriteToLayerSteps ==
    ASSUME MemoryInv, NEW layer \in Layers, NEW key \in AllKeys, NEW ttl \in Nat,
           WriteToLayer(layer, key, ttl)
    PROVE  MemoryInv' /\ Ttl!StoreNext
<1> DEFINE n == written + 1
           e == NewEntry(layer, key, n, ttl)
<1>1. /\ n \in Nat /\ written < n /\ written <= n /\ n <= MaxWrites /\ n \in 1..MaxWrites
      /\ written' = n /\ now' = now /\ Written({e}) /\ written \in Nat
  BY MemoryNats DEF WriteToLayer
<1> HIDE DEF n
<1>2. /\ e \in Entry /\ e.place = <<layer, key>> /\ e.content = n /\ e.pos <= n /\ e.ts = now
      /\ e.embedded => HasEmbedder /\ e.place[1] \in {"memory", "diary"}
      /\ e.pos <= written => \E d \in data : d.place = e.place /\ d.pos = e.pos
  BY <1>1, NewEntryFits
<1> HIDE DEF e
<1>3. \A d \in data : d.pos = e.pos => d.place = e.place
  <2> SUFFICES ASSUME NEW d \in data, d.pos = e.pos PROVE d.place = e.place
    OBVIOUS
  <2>1. d.pos <= written
    BY DEF MemoryInv
  <2>2. PICK f \in data : f.place = e.place /\ f.pos = e.pos
    BY <1>2, <2>1
  <2> QED BY <2>2 DEF MemoryInv, MemoryTypeOK
<1>4. IsFiniteSet({e})
  BY FS_Singleton
<1>5. n <= n
  BY <1>1
<1>6. Fresh({e}, n)
  BY <1>1, <1>2, <1>3, <1>4, <1>5 DEF Fresh
<1> QED BY <1>1, <1>6, WriteKeeps

LEMMA PlaceOne ==
    ASSUME NEW l, NEW k
    PROVE  <<l, k>>[1] = l /\ <<l, k>>[2] = k
  OBVIOUS

\* load_from_dict, set_trait and bulk_set.
LEMMA WriteAllSteps ==
    ASSUME MemoryInv, NEW layer \in {"identity", "soul"}, NEW n \in 1..MaxWrites,
           NEW keys \in Injection(1..n, Keys), WriteAll(layer, keys)
    PROVE  MemoryInv' /\ Ttl!StoreNext
<1> DEFINE m == written + n
           made(i) == NewEntry(layer, <<keys[i]>>, written + i, 0)
           new == {made(i) : i \in 1..n}
<1>1. keys \in [1..n -> Keys] /\ IsInjective(keys) /\ n \in Nat /\ DOMAIN keys = 1..n
  BY MemoryNats DEF Injection
<1>2. Len(keys) = n
  <2>1. keys \in Seq(Keys)
    BY <1>1
  <2> QED BY <1>1, <2>1
<1>3. /\ m \in Nat /\ written <= m /\ m <= MaxWrites /\ written \in Nat /\ MaxWrites \in Nat
      /\ written' = m /\ now' = now /\ Written(new)
  BY <1>1, <1>2, MemoryNats DEF WriteAll
<1>4. \A i \in 1..n : written + i \in 1..MaxWrites /\ written < written + i /\ written + i <= m
                       /\ i \in Nat /\ written + i \in Nat
  BY <1>1, <1>3
<1>5. \A i \in 1..n : <<keys[i]>> \in AllKeys
  BY <1>1 DEF AllKeys
<1>6. \A i \in 1..n :
        /\ made(i) \in Entry /\ made(i).place = <<layer, <<keys[i]>> >>
        /\ made(i).content = written + i /\ made(i).pos <= written + i /\ made(i).ts = now
        /\ made(i).embedded => HasEmbedder /\ made(i).place[1] \in {"memory", "diary"}
        /\ made(i).pos = written + i \/ \E d \in data : d.place = made(i).place /\ d.pos = made(i).pos
        /\ made(i).pos <= written => \E d \in data : d.place = made(i).place /\ d.pos = made(i).pos
  <2> TAKE i \in 1..n
  <2>1. layer \in Layers /\ 0 \in Nat
    BY DEF Layers
  <2>2. written + i \in 1..MaxWrites /\ written < written + i /\ <<keys[i]>> \in AllKeys
    BY <1>4, <1>5
  <2> QED BY <2>1, <2>2, NewEntryFits
<1>7. \A i, j \in 1..n : made(i).place = made(j).place => i = j
  <2> SUFFICES ASSUME NEW i \in 1..n, NEW j \in 1..n, made(i).place = made(j).place PROVE i = j
    OBVIOUS
  <2>1. <<keys[i]>> = <<keys[j]>>
    <3>1. made(i).place[2] = <<keys[i]>> /\ made(j).place[2] = <<keys[j]>>
      BY <1>6, PlaceOne
    <3> QED BY <3>1
  <2> QED BY <1>1, <2>1 DEF IsInjective
<1> DEFINE g == [i \in 1..n |-> made(i)]
<1>8. IsFiniteSet(new)
  <2>1. g \in Surjection(1..n, new)
    BY DEF Surjection
  <2>2. IsFiniteSet(1..n)
    BY <1>1, FS_Interval
  <2> QED BY <2>1, <2>2, FS_Surjection
<1> HIDE DEF made, m, g
<1>9. \A i \in 1..n, d \in data : d.pos = made(i).pos => d.place = made(i).place
  <2> SUFFICES ASSUME NEW i \in 1..n, NEW d \in data, d.pos = made(i).pos
               PROVE  d.place = made(i).place
    OBVIOUS
  <2>1. made(i).pos <= written
    BY DEF MemoryInv
  <2>2. PICK f \in data : f.place = made(i).place /\ f.pos = made(i).pos
    BY <1>6, <2>1
  <2> QED BY <2>2 DEF MemoryInv, MemoryTypeOK
<1>10. \A i, j \in 1..n : made(i).pos = made(j).pos => made(i) = made(j)
  <2> SUFFICES ASSUME NEW i \in 1..n, NEW j \in 1..n, made(i).pos = made(j).pos
               PROVE  i = j
    OBVIOUS
  <2>1. CASE made(i).pos <= written \/ made(j).pos <= written
    <3>1. made(i).pos <= written /\ made(j).pos <= written
      BY <2>1
    <3>2. PICK d \in data : d.place = made(i).place /\ d.pos = made(i).pos
      BY <1>6, <3>1
    <3>3. PICK f \in data : f.place = made(j).place /\ f.pos = made(j).pos
      BY <1>6, <3>1
    <3>4. d = f
      BY <3>2, <3>3 DEF MemoryInv, MemoryTypeOK
    <3> QED BY <1>7, <3>2, <3>3, <3>4
  <2>2. CASE ~(made(i).pos <= written) /\ ~(made(j).pos <= written)
    <3>1. \A k \in 1..n : made(k).pos = written + k \/ made(k).pos <= written
      <4> TAKE k \in 1..n
      <4>1. ASSUME NEW d \in data, d.pos = made(k).pos PROVE made(k).pos <= written
        BY <4>1 DEF MemoryInv
      <4> QED BY <1>6, <4>1
    <3>2. made(i).pos = written + i /\ made(j).pos = written + j
      BY <2>2, <3>1
    <3>3. written + i = written + j
      BY <3>2
    <3>4. i \in Nat /\ j \in Nat
      BY <1>4
    <3> QED BY <1>3, <3>3, <3>4, SMTT(30)
  <2> QED BY <2>1, <2>2
<1>11. Fresh(new, m)
  <2>1. \A i \in 1..n :
          /\ written < made(i).content /\ made(i).content <= m /\ made(i).pos <= m
          /\ made(i).ts = now
          /\ made(i).embedded => HasEmbedder /\ made(i).place[1] \in {"memory", "diary"}
    <3> TAKE i \in 1..n
    <3>1. made(i).pos \in Nat
      BY <1>6, EntryTypes
    <3>2. made(i).pos <= m
      BY <1>3, <1>4, <1>6, <3>1, SMTT(40)
    <3> QED BY <1>3, <1>4, <1>6, <3>2
  <2>2. \A d, e \in new : d.place = e.place \/ d.pos = e.pos => d = e
    BY <1>7, <1>10
  <2>3. new \subseteq Entry
    BY <1>6
  <2> QED BY <1>8, <1>9, <2>1, <2>2, <2>3 DEF Fresh
<1> HIDE DEF new
<1> QED BY <1>3, <1>11, WriteKeeps

\* read, list, search and gc drop expired entries only.
LEMMA LazySteps ==
    ASSUME MemoryInv, NEW removed, data' = data \ removed, \A e \in removed : IsExpired(e),
           UNCHANGED <<now, written>>
    PROVE  MemoryInv' /\ UNCHANGED <<now, Live>>
<1>1. data' \subseteq data /\ now' = now
  OBVIOUS
<1> QED BY <1>1, DropKeeps, DropUnseen

LEMMA ReadSteps ==
    ASSUME MemoryInv,
           \/ \E l \in Layers, k \in AllKeys : Read(l, k)
           \/ \E l \in Layers, ks \in PrefixedKeys \cup {AllKeys}, n \in ListLimits : List(l, ks, n)
           \/ Search \/ Gc
    PROVE  MemoryInv' /\ UNCHANGED <<now, Live>>
<1>1. ASSUME NEW l \in Layers, NEW k \in AllKeys, Read(l, k)
      PROVE  MemoryInv' /\ UNCHANGED <<now, Live>>
  <2> DEFINE removed == {e \in At(l, k) : IsExpired(e)}
  <2>1. data' = data \ removed /\ UNCHANGED <<now, written>> /\ \A e \in removed : IsExpired(e)
    BY <1>1 DEF Read
  <2> HIDE DEF removed
  <2> QED BY <2>1, LazySteps
<1>2. ASSUME NEW l \in Layers, NEW ks, NEW n, List(l, ks, n)
      PROVE  MemoryInv' /\ UNCHANGED <<now, Live>>
  <2> DEFINE removed == Dropped(l, ks, n)
  <2>1. data' = data \ removed /\ UNCHANGED <<now, written>> /\ \A e \in removed : IsExpired(e)
    BY <1>2 DEF List, Dropped
  <2> HIDE DEF removed
  <2> QED BY <2>1, LazySteps
<1>3. ASSUME Search PROVE MemoryInv' /\ UNCHANGED <<now, Live>>
  <2> DEFINE removed == UNION {Dropped(l, AllKeys, SearchLimit) : l \in {"memory", "diary"}}
  <2>1. data' = data \ removed /\ UNCHANGED <<now, written>> /\ \A e \in removed : IsExpired(e)
    BY <1>3 DEF Search, Dropped
  <2> HIDE DEF removed
  <2> QED BY <2>1, LazySteps
<1>4. ASSUME Gc PROVE MemoryInv' /\ UNCHANGED <<now, Live>>
  <2> DEFINE removed == {e \in data : IsExpired(e)}
  <2>1. data' = data \ removed /\ UNCHANGED <<now, written>> /\ \A e \in removed : IsExpired(e)
    BY <1>4 DEF Gc
  <2> HIDE DEF removed
  <2> QED BY <2>1, LazySteps
<1> QED BY <1>1, <1>2, <1>3, <1>4

LEMMA DeleteSteps ==
    ASSUME MemoryInv, NEW k \in Keys, DeleteTrait(k)
    PROVE  MemoryInv' /\ Ttl!StoreNext
<1> DEFINE p == <<"soul", <<k>> >>
<1>1. data' = {e \in data : e.place # p} /\ now' = now /\ UNCHANGED <<now, written>>
  BY DEF DeleteTrait
<1>2. p \in {"soul"} \X AllKeys
  BY DEF AllKeys
<1> HIDE DEF p
<1>3. Live' = {e \in Live : e.place # p}
  BY <1>1 DEF Live, IsExpired
<1>4. Ttl!Remove(p)
  BY <1>1, <1>3 DEF Ttl!Remove
<1>5. data' \subseteq data
  BY <1>1
<1> QED BY <1>1, <1>2, <1>4, <1>5, DropKeeps DEF Ttl!StoreNext

\* Time passes: what had expired stays so.
LEMMA TickSteps ==
    ASSUME MemoryInv, Tick
    PROVE  MemoryInv' /\ Ttl!StoreNext
<1>1. /\ now \in Nat /\ now' = now + 1 /\ now < MaxNow /\ MaxNow \in Nat /\ data' = data
      /\ written' = written
  BY MemoryNats DEF Tick
<1>2. \A e \in data : e.ts \in Nat /\ e.ttl \in Nat /\ e.ts <= now
  BY MemoryNats, EntryTypes DEF MemoryInv
<1>3. MemoryInv'
  <2>1. now' \in 0..MaxNow
    BY <1>1
  <2>2. \A e \in data : e.ts <= now'
    BY <1>1, <1>2
  <2> QED BY <1>1, <2>1, <2>2 DEF MemoryInv, MemoryTypeOK
<1>4. \A e \in data : IsExpired(e) => now' - e.ts > e.ttl
  <2> TAKE e \in data
  <2>1. e.ts \in Nat /\ e.ttl \in Nat
    BY <1>2
  <2> QED BY <1>1, <2>1 DEF IsExpired
<1>5. \A e \in data : Ttl!Expired(e, now') <=> (e.ttl > 0 /\ now' - e.ts > e.ttl)
  BY DEF Ttl!Expired
<1>6. Live' = {e \in Live : ~Ttl!Expired(e, now')}
  <2>1. Live' = {e \in data : ~(e.ttl > 0 /\ now' - e.ts > e.ttl)}
    BY <1>1 DEF Live, IsExpired
  <2>2. \A e \in data : IsExpired(e) => e.ttl > 0 /\ now' - e.ts > e.ttl
    BY <1>4 DEF IsExpired
  <2> QED BY <1>5, <2>1, <2>2 DEF Live
<1>7. Ttl!Pass
  BY <1>1, <1>6 DEF Ttl!Pass
<1> QED BY <1>3, <1>7 DEF Ttl!StoreNext

LEMMA MemoryStep ==
    ASSUME MemoryInv, [MemoryNext]_memoryVars
    PROVE  MemoryInv' /\ [Ttl!StoreNext]_<<now, Live>>
<1>1. ASSUME UNCHANGED memoryVars
      PROVE  MemoryInv' /\ [Ttl!StoreNext]_<<now, Live>>
  BY <1>1 DEF memoryVars, MemoryInv, MemoryTypeOK, Live, IsExpired
<1>2. ASSUME NEW k \in Keys, NEW ttl \in Ttls, Write("memory", k, ttl)
      PROVE  MemoryInv' /\ Ttl!StoreNext
  <2>1. "memory" \in Layers /\ <<k>> \in AllKeys /\ ttl \in Nat
    BY MemoryAssumption DEF Layers, AllKeys
  <2> QED BY <1>2, <2>1, WriteToLayerSteps DEF Write
<1>3. ASSUME NEW ttl \in Ttls, AppendDiary(ttl)
      PROVE  MemoryInv' /\ Ttl!StoreNext
  <2>1. "diary" \in Layers /\ DiaryKey(now) \in AllKeys /\ ttl \in Nat
    BY MemoryAssumption DEF Layers, AllKeys, MemoryInv, MemoryTypeOK
  <2> QED BY <1>3, <2>1, WriteToLayerSteps DEF AppendDiary
<1>4. ASSUME \/ \E l \in Layers, k \in AllKeys : Read(l, k)
             \/ \E l \in Layers, ks \in PrefixedKeys \cup {AllKeys}, n \in ListLimits : List(l, ks, n)
             \/ Search \/ Gc
      PROVE  MemoryInv' /\ [Ttl!StoreNext]_<<now, Live>>
  BY <1>4, ReadSteps
<1>5. ASSUME MemoryNext PROVE MemoryInv' /\ [Ttl!StoreNext]_<<now, Live>>
  <2>1. CASE \E k \in Keys, ttl \in Ttls : Write("memory", k, ttl)
    BY <1>2, <2>1
  <2>2. CASE \E ttl \in Ttls : AppendDiary(ttl)
    BY <1>3, <2>2
  <2>3. CASE \E l \in {"identity", "soul"}, n \in 1..MaxWrites :
               \E keys \in Injection(1..n, Keys) : WriteAll(l, keys)
    BY <2>3, WriteAllSteps
  <2>4. CASE \E k \in Keys : DeleteTrait(k)
    BY <2>4, DeleteSteps
  <2>5. CASE Tick
    BY <2>5, TickSteps
  <2> QED BY <1>4, <1>5, <2>1, <2>2, <2>3, <2>4, <2>5, Zenon DEF MemoryNext
<1> QED BY <1>1, <1>5

LEMMA MemoryStarts == MemoryInit => MemoryInv /\ Ttl!StoreInit
<1>1. 0 \in 0..MaxNow /\ 0 \in 0..MaxWrites
  BY MemoryAssumption
<1> QED BY <1>1, FS_EmptySet DEF MemoryInit, MemoryInv, MemoryTypeOK, Ttl!StoreInit, Live

LEMMA MemoryInvHolds == MemorySpec => []MemoryInv
<1>1. MemoryInit => MemoryInv
  BY MemoryStarts
<1>2. MemoryInv /\ [MemoryNext]_memoryVars => MemoryInv'
  BY MemoryStep
<1> QED BY <1>1, <1>2, PTL DEF MemorySpec

\* Lazy deletion cannot be seen: the live entries of the store behave as
\* TtlStore, an entry living from its write until its time is over, it is
\* replaced or deleted, whatever is read, listed, searched or collected.
THEOREM LazyDeletionUnseen == MemorySpec => TtlStoreSpec
<1>1. MemoryInit => Ttl!StoreInit
  BY MemoryStarts
<1>2. MemoryInv /\ [MemoryNext]_memoryVars => [Ttl!StoreNext]_<<now, Live>>
  BY MemoryStep
<1> QED BY <1>1, <1>2, MemoryInvHolds, PTL DEF MemorySpec, TtlStoreSpec, Ttl!StoreSpec

-----------------------------------------------------------------------------
(* LayeredMemory: what lists and searches return *)

\* What a list returns are the first of what it may come across.
ByPosition(S) == {p \in S \X S : p[1].pos < p[2].pos}

LEMMA PositionsOrder ==
    ASSUME MemoryInv, NEW S \in SUBSET data
    PROVE  /\ Orders(ByPosition(S), S)
           /\ \A e \in S : Preceding(ByPosition(S), S, e) = {d \in S : d.pos < e.pos}
<1>1. \A d, e \in S : <<d, e>> \in ByPosition(S) <=> d.pos < e.pos
  BY DEF ByPosition
<1>2. \A e \in S : e.pos \in Nat
  BY MemoryNats, EntryTypes
<1>3. \A d, e \in S : d.pos = e.pos => d = e
  BY DEF MemoryInv, MemoryTypeOK
<1>4. \A d \in S : ~(d.pos < d.pos)
  BY <1>2
<1>5. \A d, e, f \in S : d.pos < e.pos /\ e.pos < f.pos => d.pos < f.pos
  BY <1>2
<1>6. \A d, e \in S : d.pos = e.pos \/ d.pos < e.pos \/ e.pos < d.pos
  BY <1>2
<1>7. Orders(ByPosition(S), S)
  BY <1>1, <1>3, <1>4, <1>5, <1>6 DEF Orders
<1> QED BY <1>1, <1>7 DEF Preceding

LEMMA ListedIsFirst ==
    ASSUME MemoryInv, NEW l, NEW ks, NEW n \in Nat
    PROVE  LET S == Listable(l, ks)
               T == Listed(l, ks, n)
           IN  /\ IsFiniteSet(S) /\ S \subseteq data /\ T \subseteq S
               /\ T # S => Cardinality(T) = n
<1> DEFINE S == Listable(l, ks)
           T == Listed(l, ks, n)
<1>1. IsFiniteSet(S) /\ S \subseteq data
  BY FS_Subset DEF Listable, MemoryInv
<1>2. /\ Orders(ByPosition(S), S)
      /\ \A e \in S : Preceding(ByPosition(S), S, e) = {d \in S : d.pos < e.pos}
  BY <1>1, PositionsOrder
<1>3. T = First(ByPosition(S), S, n)
  BY <1>2 DEF Listed, Ahead, First
<1> HIDE DEF S, T
<1>4. T \subseteq S /\ (T # S => Cardinality(T) = n)
  BY <1>1, <1>2, <1>3, FirstAreN
<1> QED BY <1>1, <1>4 DEF S, T

\* Where a search looks at all of a layer, it looks at all that lives there.
LEMMA InReachIsListed ==
    ASSUME MemoryInv, NEW l \in Layers,
           Cardinality({e \in Live : e.place[1] = l}) <= SearchLimit
    PROVE  Listed(l, AllKeys, SearchLimit) = {e \in Live : e.place[1] = l}
<1> DEFINE S == Listable(l, AllKeys)
           T == Listed(l, AllKeys, SearchLimit)
<1>0. SearchLimit \in Nat
  BY MemoryAssumption
<1>1. S = {e \in Live : e.place[1] = l}
  <2>1. \A e \in data : e.place[2] \in AllKeys
    BY MemoryNats, EntryTypes
  <2> QED BY <2>1 DEF Listable, Live
<1>2. /\ IsFiniteSet(S) /\ T \subseteq S
      /\ T # S => Cardinality(T) = SearchLimit
  BY <1>0, ListedIsFirst
<1>3. Cardinality(S) <= SearchLimit
  BY <1>1
<1> HIDE DEF S, T
<1>4. /\ IsFiniteSet(T) /\ Cardinality(T) <= Cardinality(S)
      /\ Cardinality(S) = Cardinality(T) => S = T
      /\ Cardinality(S) \in Nat /\ Cardinality(T) \in Nat
  BY <1>2, FS_Subset, FS_CardinalityType
<1>5. T = S
  BY <1>0, <1>2, <1>3, <1>4
<1> QED BY <1>1, <1>5 DEF T

\* The order in which a search ranks its candidates.
Ranked(S) == {p \in S \X S : SortedBefore(p[1], p[2])}

LEMMA RankedOrders ==
    ASSUME MemoryInv, NEW S \in SUBSET data, \A e \in S : e.place[1] \in {"memory", "diary"}
    PROVE  /\ Orders(Ranked(S), S)
           /\ \A e \in S : Preceding(Ranked(S), S, e) = {d \in S : SortedBefore(d, e)}
<1> DEFINE sc(e) == Score[e.content]
           Lex(d, e) == IF d.place[1] = e.place[1] THEN d.pos < e.pos ELSE d.place[1] = "memory"
<1>1. \A d, e \in S : <<d, e>> \in Ranked(S) <=> SortedBefore(d, e)
  BY DEF Ranked
<1>2. \A e \in S : sc(e) \in Nat /\ e.pos \in Nat /\ e.place[1] \in {"memory", "diary"}
  <2> TAKE e \in S
  <2>1. e.content \in 1..MaxWrites /\ e.pos \in Nat
    BY MemoryNats, EntryTypes
  <2> QED BY <2>1, MemoryAssumption
<1>3. \A d, e \in S : d.pos = e.pos => d = e
  BY DEF MemoryInv, MemoryTypeOK
<1>4. \A d, e \in S : SortedBefore(d, e) <=> (sc(d) > sc(e) \/ (~(sc(e) > sc(d)) /\ Lex(d, e)))
  BY DEF SortedBefore, ByScore
<1>5. \A d, e \in S : SortedBefore(d, e) <=> (sc(d) > sc(e) \/ (sc(d) = sc(e) /\ Lex(d, e)))
  <2> TAKE d \in S, e \in S
  <2>1. sc(d) \in Nat /\ sc(e) \in Nat
    BY <1>2
  <2> HIDE DEF sc, Lex
  <2>2. sc(d) > sc(e) \/ sc(d) = sc(e) \/ sc(e) > sc(d)
    BY <2>1
  <2>3. sc(d) = sc(e) => ~(sc(e) > sc(d))
    BY <2>1
  <2> QED BY <1>4, <2>2, <2>3
<1>6. \A d \in S : ~Lex(d, d)
  BY <1>2
<1>7. \A d, e, f \in S : Lex(d, e) /\ Lex(e, f) => Lex(d, f)
  <2> TAKE d \in S, e \in S, f \in S
  <2>1. /\ d.pos \in Nat /\ e.pos \in Nat /\ f.pos \in Nat
        /\ d.place[1] \in {"memory", "diary"} /\ e.place[1] \in {"memory", "diary"}
        /\ f.place[1] \in {"memory", "diary"}
    BY <1>2
  <2>2. d.pos < e.pos /\ e.pos < f.pos => d.pos < f.pos
    BY <2>1
  <2> QED BY <2>1, <2>2
<1>8. \A d, e \in S : d = e \/ Lex(d, e) \/ Lex(e, d)
  <2> TAKE d \in S, e \in S
  <2>1. /\ d.pos \in Nat /\ e.pos \in Nat
        /\ d.place[1] \in {"memory", "diary"} /\ e.place[1] \in {"memory", "diary"}
    BY <1>2
  <2>2. d.pos = e.pos \/ d.pos < e.pos \/ e.pos < d.pos
    BY <2>1
  <2> QED BY <1>3, <2>1, <2>2
<1> HIDE DEF sc, Lex
<1>9. \A d \in S : ~SortedBefore(d, d)
  <2> TAKE d \in S
  <2>1. ~(sc(d) > sc(d))
    BY <1>2
  <2> QED BY <1>5, <1>6, <2>1
<1>10. \A d, e, f \in S : SortedBefore(d, e) /\ SortedBefore(e, f) => SortedBefore(d, f)
  <2> TAKE d \in S, e \in S, f \in S
  <2>1. sc(d) \in Nat /\ sc(e) \in Nat /\ sc(f) \in Nat
    BY <1>2
  <2>2. sc(d) > sc(e) /\ (sc(e) > sc(f) \/ sc(e) = sc(f)) => sc(d) > sc(f)
    BY <2>1
  <2>3. sc(d) = sc(e) /\ sc(e) > sc(f) => sc(d) > sc(f)
    BY <2>1
  <2> QED BY <1>5, <1>7, <2>2, <2>3
<1>11. \A d, e \in S : d = e \/ SortedBefore(d, e) \/ SortedBefore(e, d)
  <2> TAKE d \in S, e \in S
  <2>1. sc(d) > sc(e) \/ sc(d) = sc(e) \/ sc(e) > sc(d)
    BY <1>2
  <2> QED BY <1>5, <1>8, <2>1
<1>12. Orders(Ranked(S), S)
  BY <1>1, <1>9, <1>10, <1>11 DEF Orders
<1> QED BY <1>1, <1>12 DEF Preceding

\* A candidate ranked before another does not score less.
LEMMA RankedByScore ==
    ASSUME MemoryInv, NEW f \in data, NEW e \in data, SortedBefore(f, e)
    PROVE  ~ByScore(e, f)
<1>1. Score[e.content] \in Nat /\ Score[f.content] \in Nat
  <2>1. e.content \in 1..MaxWrites /\ f.content \in 1..MaxWrites
    BY MemoryNats, EntryTypes
  <2> QED BY <2>1, MemoryAssumption
<1>2. ~(ByScore(f, e) /\ ByScore(e, f))
  BY <1>1 DEF ByScore
<1> QED BY <1>2 DEF SortedBefore

\* Whatever the store is asked, a list returns what lives, as much as the limit
\* allows, and a search the best-scoring of what was embedded.
LEMMA AnswersAre == MemoryInv => AnswersComplete
<1> SUFFICES ASSUME MemoryInv PROVE AnswersComplete
  OBVIOUS
<1>1. \A l \in Layers, k \in AllKeys : Found(l, k) = {e \in Live : e.place = <<l, k>>}
  BY DEF Found, At, Live
<1>2. ASSUME NEW l \in Layers, NEW ks \in PrefixedKeys \cup {AllKeys}, NEW n \in ListLimits
      PROVE  LET found == Listed(l, ks, n)
                 asked == {e \in Live : e.place[1] = l /\ e.place[2] \in ks}
             IN  found \subseteq asked /\ (found # asked => Cardinality(found) = n)
  <2>1. n \in Nat
    BY MemoryAssumption
  <2>2. Listable(l, ks) = {e \in Live : e.place[1] = l /\ e.place[2] \in ks}
    BY DEF Listable, Live
  <2> QED BY <2>1, <2>2, ListedIsFirst
<1> DEFINE pool == {e \in Live : e.embedded}
           found == Searched
           inReach == \A l \in Layers : Cardinality({e \in Live : e.place[1] = l}) <= SearchLimit
           C == Candidates
<1>3. /\ "memory" \in Layers /\ "diary" \in Layers /\ SearchLimit \in Nat /\ TopK \in Nat
  BY MemoryAssumption DEF Layers
<1>4. \A e : e \in C <=> /\ e.embedded
                         /\ \/ e \in Listed("memory", AllKeys, SearchLimit)
                            \/ e \in Listed("diary", AllKeys, SearchLimit)
  BY DEF Candidates
<1>5. \A l \in Layers : \A e \in Listed(l, AllKeys, SearchLimit) : e \in Live /\ e.place[1] = l
  BY DEF Listed, Listable, Live
<1>6. C \subseteq pool /\ \A e \in C : e.place[1] \in {"memory", "diary"}
  BY <1>3, <1>4, <1>5
<1>7. C \in SUBSET data /\ IsFiniteSet(C)
  <2>1. C \subseteq data
    BY <1>6 DEF Live
  <2> QED BY <2>1, FS_Subset DEF MemoryInv
<1>8. /\ Orders(Ranked(C), C)
      /\ \A e \in C : Preceding(Ranked(C), C, e) = {d \in C : SortedBefore(d, e)}
  BY <1>6, <1>7, RankedOrders
<1>9. found = First(Ranked(C), C, TopK)
  BY <1>8 DEF Searched, First
<1>10. /\ found \subseteq C
       /\ found # C => Cardinality(found) = TopK
       /\ \A e \in C \ found, f \in found : <<f, e>> \in Ranked(C)
  <2> HIDE DEF C, found
  <2> QED BY <1>3, <1>7, <1>8, <1>9, FirstAreN
<1>11. ASSUME inReach PROVE C = pool
  <2>1. /\ Listed("memory", AllKeys, SearchLimit) = {e \in Live : e.place[1] = "memory"}
        /\ Listed("diary", AllKeys, SearchLimit) = {e \in Live : e.place[1] = "diary"}
    BY <1>3, <1>11, InReachIsListed
  <2>2. \A e \in pool : e.place[1] \in {"memory", "diary"}
    BY DEF Live, MemoryInv
  <2> HIDE DEF C
  <2> QED BY <1>4, <1>6, <2>1, <2>2
<1>12. ASSUME inReach, found # pool
       PROVE  Cardinality(found) = TopK /\ \A e \in pool \ found, f \in found : ~ByScore(e, f)
  <2>1. C = pool
    BY <1>11, <1>12
  <2> HIDE DEF C, found, pool
  <2>2. ASSUME NEW e \in pool \ found, NEW f \in found PROVE ~ByScore(e, f)
    <3>1. <<f, e>> \in Ranked(C) /\ e \in data /\ f \in data
      BY <1>7, <1>10, <2>1
    <3>2. SortedBefore(f, e)
      BY <3>1 DEF Ranked
    <3> QED BY <3>1, <3>2, RankedByScore
  <2> QED BY <1>10, <1>12, <2>1, <2>2
<1>13. found \subseteq pool
  BY <1>6, <1>10
<1> QED BY <1>1, <1>2, <1>12, <1>13 DEF AnswersComplete

\* However long the store runs and whatever has expired in it, a read or a list
\* would return what lives and a search the best of what was embedded.
THEOREM AnswersAreComplete == MemorySpec => []AnswersComplete
BY MemoryInvHolds, AnswersAre, PTL

-----------------------------------------------------------------------------
(* InMemoryRuntime: what a walk over the pages has returned *)

\* The largest element of a finite set of naturals.
LEMMA MaxOfFinite ==
    ASSUME NEW S \in SUBSET Nat, S # {}, NEW n \in Nat, \A i \in S : i <= n
    PROVE  Max(S) \in S /\ \A i \in S : i <= Max(S)
<1> DEFINE Gaps == {n - i : i \in S}
<1>1. \A i \in S : i \in Nat /\ n - i \in Nat
  OBVIOUS
<1>2. Gaps \in SUBSET Nat /\ Gaps # {}
  BY <1>1
<1>3. PICK g \in Gaps : \A h \in Gaps : g <= h
  BY <1>2, LeastElement
<1>4. PICK x \in S : g = n - x
  BY <1>3
<1>5. \A i \in S : n - x <= n - i
  BY <1>3, <1>4
<1>6. \A i \in S : x >= i
  BY <1>1, <1>5
<1>7. Max(S) \in S /\ \A i \in S : Max(S) >= i
  BY <1>6 DEF Max
<1> QED BY <1>1, <1>7

ByNumber(S) == {p \in S \X S : p[1] < p[2]}

LEMMA NumbersOrder ==
    ASSUME NEW S \in SUBSET Nat
    PROVE  /\ Orders(ByNumber(S), S)
           /\ \A e \in S : Preceding(ByNumber(S), S, e) = {d \in S : d < e}
<1>1. \A d, e \in S : <<d, e>> \in ByNumber(S) <=> d < e
  BY DEF ByNumber
<1>2. \A d \in S : ~(d < d)
  OBVIOUS
<1>3. \A d, e, f \in S : d < e /\ e < f => d < f
  OBVIOUS
<1>4. \A d, e \in S : d = e \/ d < e \/ e < d
  OBVIOUS
<1>5. Orders(ByNumber(S), S)
  BY <1>1, <1>2, <1>3, <1>4 DEF Orders
<1> QED BY <1>1, <1>5 DEF Preceding

\* A page is what there is up to some position: the last of a full page, and
\* the end where a page is not full.
LEMMA PageUpTo ==
    ASSUME NEW n \in Nat, NEW items \in SUBSET (1..n)
    PROVE  /\ Cardinality(items) > Limit =>
                /\ Max(Page(items)) \in items
                /\ Page(items) = {i \in items : i <= Max(Page(items))}
           /\ ~(Cardinality(items) > Limit) => Page(items) = items
<1> DEFINE P == Page(items)
<1>1. IsFiniteSet(items) /\ items \in SUBSET Nat /\ \A i \in items : i <= n /\ i \in Nat
  <2>1. IsFiniteSet(1..n)
    BY FS_Interval
  <2>2. \A i \in 1..n : i <= n /\ i \in Nat
    OBVIOUS
  <2> QED BY <2>1, <2>2, FS_Subset
<1>2. /\ Orders(ByNumber(items), items)
      /\ \A e \in items : Preceding(ByNumber(items), items, e) = {d \in items : d < e}
  BY <1>1, NumbersOrder
<1>3. P = First(ByNumber(items), items, Limit)
  BY <1>2 DEF Page, First
<1>4. Limit \in Nat /\ Limit > 0
  BY InMemoryAssumption
<1> HIDE DEF P
<1>5. /\ P \subseteq items /\ Cardinality(P) \in Nat /\ Cardinality(P) <= Limit
      /\ P # items => Cardinality(P) = Limit
      /\ \A e \in items \ P, f \in P : <<f, e>> \in ByNumber(items)
  BY <1>1, <1>2, <1>3, <1>4, FirstAreN
<1>6. Cardinality(items) \in Nat /\ IsFiniteSet(P)
      /\ Cardinality(P) <= Cardinality(items) /\ (Cardinality(items) = Cardinality(P) => items = P)
  BY <1>1, <1>5, FS_CardinalityType, FS_Subset
<1>7. ASSUME Cardinality(items) > Limit
      PROVE  Max(P) \in items /\ P = {i \in items : i <= Max(P)}
  <2>1. Cardinality(P) = Limit
    BY <1>4, <1>5, <1>6, <1>7
  <2>2. P # {}
    BY <1>4, <2>1, FS_EmptySet
  <2>3. P \in SUBSET Nat /\ \A i \in P : i <= n
    BY <1>1, <1>5
  <2>4. Max(P) \in P /\ \A i \in P : i <= Max(P)
    BY <2>2, <2>3, MaxOfFinite
  <2>5. ASSUME NEW i \in items, i <= Max(P), i \notin P PROVE FALSE
    <3>1. Max(P) < i
      BY <1>5, <2>4, <2>5 DEF ByNumber
    <3>2. Max(P) \in Nat /\ i \in Nat
      BY <1>1, <1>5, <2>4
    <3> QED BY <2>5, <3>1, <3>2
  <2> QED BY <1>5, <2>4, <2>5
<1>8. ASSUME ~(Cardinality(items) > Limit) PROVE P = items
  <2> SUFFICES ASSUME P # items PROVE FALSE
    OBVIOUS
  <2>1. Cardinality(P) = Limit
    BY <1>5
  <2> QED BY <1>4, <1>6, <1>8, <2>1
<1> QED BY <1>7, <1>8 DEF P

-----------------------------------------------------------------------------
\* An event's id is its position, and events are stored in the order they came.
EventsOk(es, n) ==
    /\ es \in Seq(Stored)
    /\ \A i \in 1..Len(es) : es[i].id = i /\ es[i].event[1] <= n
    /\ \A i, j \in 1..Len(es) : i < j => es[i].event[1] < es[j].event[1]

UpTo(a, kind, c) == {i \in Filtered(a, kind) : i <= c}

\* How far a walk has come: it has returned what there is up to a position c.
CameTo(w, c) ==
    /\ c \in 0..Len(events[w.agent])
    /\ UNION Range(w.pages) = StoredAt(w.agent, UpTo(w.agent, w.kind, c))
    /\ w.cursor # <<>> => c \in Filtered(w.agent, w.kind) /\ w.cursor = <<c>>
    /\ w.cursor = <<>> => w.atStart \subseteq UNION Range(w.pages)
    /\ w.atStart \subseteq StoredAt(w.agent, Filtered(w.agent, w.kind))

Ascending(w) ==
    \A p, q \in DOMAIN w.pages : p < q =>
        \A s \in w.pages[p], t \in w.pages[q] : s.event[1] < t.event[1]

WalkOk(w) == ~w.flushed => Ascending(w) /\ \E c \in Nat : CameTo(w, c)

EventsInv ==
    /\ appends \in Nat
    /\ events \in [MemAgents -> Seq(Stored)] /\ eventSeq \in [MemAgents -> Nat]
    /\ \A a \in MemAgents : EventsOk(events[a], appends) /\ eventSeq[a] = Len(events[a])

WalkInv == EventsInv /\ (walk = <<>> \/ \E w \in Walk : walk = <<w>> /\ WalkOk(w))

\* A walk stays as far as it has come while its agent's events are left alone.
LEMMA WalkOkKept ==
    ASSUME NEW w \in Walk, events'[w.agent] = events[w.agent], WalkOk(w)
    PROVE  WalkOk(w)'
<1>1. ASSUME NEW c \in Nat, CameTo(w, c) PROVE CameTo(w, c)'
  <2>1. Filtered(w.agent, w.kind)' = Filtered(w.agent, w.kind)
    BY DEF Filtered
  <2>2. UpTo(w.agent, w.kind, c)' = UpTo(w.agent, w.kind, c)
    BY <2>1 DEF UpTo
  <2>3. StoredAt(w.agent, UpTo(w.agent, w.kind, c))' = StoredAt(w.agent, UpTo(w.agent, w.kind, c))
    BY <2>2 DEF StoredAt
  <2>4. StoredAt(w.agent, Filtered(w.agent, w.kind))' = StoredAt(w.agent, Filtered(w.agent, w.kind))
    BY <2>1 DEF StoredAt
  <2> QED BY <1>1, <2>1, <2>3, <2>4 DEF CameTo
<1>2. Ascending(w)' = Ascending(w)
  BY DEF Ascending
<1> QED BY <1>1, <1>2 DEF WalkOk

\* Events of two positions are as far apart as the positions, so what is stored
\* at earlier positions came earlier.
LEMMA WalkInvExact == WalkInv => WalkExact
<1> SUFFICES ASSUME WalkInv, NEW x \in DOMAIN walk, ~walk[x].flushed
             PROVE  LET w == walk[x]
                        got == UNION Range(w.pages)
                        stored == StoredAt(w.agent, Filtered(w.agent, w.kind))
                    IN  /\ Ascending(w)
                        /\ got \subseteq stored
                        /\ \A s \in stored, t \in got : s.event[1] < t.event[1] => s \in got
                        /\ w.cursor = <<>> => w.atStart \subseteq got
  BY DEF WalkExact, Ascending
<1>1. walk # <<>>
  OBVIOUS
<1>2. PICK w \in Walk : walk = <<w>> /\ (~w.flushed => Ascending(w) /\ \E c \in Nat : CameTo(w, c))
  BY <1>1 DEF WalkInv, WalkOk
<1>3. walk[x] = w
  BY <1>2
<1>4. PICK c \in Nat : CameTo(w, c)
  BY <1>2, <1>3
<1> DEFINE a == w.agent
           F == Filtered(a, w.kind)
           got == UNION Range(w.pages)
<1>5. a \in MemAgents /\ EventsOk(events[a], appends)
  BY DEF Walk, WalkInv, EventsInv
<1>6. F \subseteq 1..Len(events[a]) /\ Len(events[a]) \in Nat
  BY <1>5 DEF Filtered, EventsOk
<1>7. got = {events[a][i] : i \in {k \in F : k <= c}}
  BY <1>4 DEF CameTo, StoredAt, UpTo
<1>8. ASSUME NEW i \in F, NEW j \in F, j <= c, events[a][i].event[1] < events[a][j].event[1]
      PROVE  i <= c
  <2>1. i \in Nat /\ j \in Nat /\ i \in 1..Len(events[a]) /\ j \in 1..Len(events[a])
    BY <1>6
  <2>2. events[a][i] \in Stored /\ events[a][j] \in Stored
    BY <1>5, <2>1 DEF EventsOk
  <2>3. events[a][i].event[1] \in Nat /\ events[a][j].event[1] \in Nat
    BY <2>2 DEF Stored
  <2>4. ~(events[a][j].event[1] < events[a][i].event[1]) /\ i # j
    BY <1>8, <2>3
  <2>5. ~(j < i)
    BY <1>5, <2>1, <2>4 DEF EventsOk
  <2> QED BY <1>8, <2>1, <2>5
<1>9. \A s \in StoredAt(a, F), t \in got : s.event[1] < t.event[1] => s \in got
  <2> SUFFICES ASSUME NEW i \in F, NEW j \in F, j <= c,
                      events[a][i].event[1] < events[a][j].event[1]
               PROVE  events[a][i] \in got
    BY <1>7 DEF StoredAt
  <2> QED BY <1>7, <1>8
<1>10. got \subseteq StoredAt(a, F)
  BY <1>7 DEF StoredAt
<1>11. w.cursor = <<>> => w.atStart \subseteq got
  BY <1>4 DEF CameTo
<1> QED BY <1>2, <1>3, <1>9, <1>10, <1>11

LEMMA EventTypes ==
    ASSUME WalkInv, NEW a \in MemAgents
    PROVE  /\ Len(events[a]) \in Nat /\ DOMAIN events[a] = 1..Len(events[a])
           /\ \A i \in 1..Len(events[a]) : events[a][i] \in Stored /\ events[a][i].id = i
           /\ \A i, j \in 1..Len(events[a]) : i < j => events[a][i].event[1] < events[a][j].event[1]
           /\ \A k : Filtered(a, k) \subseteq 1..Len(events[a])
  BY DEF WalkInv, EventsInv, EventsOk, Filtered

\* A page of what follows a position ends at a later one, and the next cursor
\* names it; without a next cursor the page ends with the events.
PageEnds(a, items, c) ==
    /\ c \in 0..Len(events[a])
    /\ Page(items) = {i \in items : i <= c}
    /\ NextCursor(a, items) # <<>> => c \in items /\ NextCursor(a, items) = <<c>>
    /\ NextCursor(a, items) = <<>> => c = Len(events[a])

LEMMA PageReaches ==
    ASSUME WalkInv, NEW a \in MemAgents, NEW items \in SUBSET (1..Len(events[a]))
    PROVE  \E c \in Nat : PageEnds(a, items, c)
<1> DEFINE n == Len(events[a])
<1>1. n \in Nat /\ \A i \in 1..n : events[a][i].id = i /\ i \in Nat /\ i \in 0..n
  BY EventTypes
<1>2. CASE Cardinality(items) > Limit
  <2> DEFINE c == Max(Page(items))
  <2>1. c \in items /\ Page(items) = {i \in items : i <= c}
    BY <1>1, <1>2, PageUpTo
  <2>2. NextCursor(a, items) = <<events[a][c].id>>
    BY <1>2 DEF NextCursor
  <2> HIDE DEF c
  <2>3. NextCursor(a, items) = <<c>> /\ c \in Nat /\ c \in 0..n
    BY <1>1, <2>1, <2>2
  <2> QED BY <2>1, <2>3 DEF PageEnds
<1>3. CASE ~(Cardinality(items) > Limit)
  <2>1. Page(items) = items
    BY <1>1, <1>3, PageUpTo
  <2>2. NextCursor(a, items) = <<>>
    BY <1>3 DEF NextCursor
  <2>3. \A i \in items : i <= n
    BY <1>1
  <2>4. n \in 0..n
    BY <1>1
  <2>5. Page(items) = {i \in items : i <= n}
    BY <2>1, <2>3
  <2> QED BY <1>1, <2>2, <2>4, <2>5 DEF PageEnds
<1> QED BY <1>2, <1>3

\* The first page.
LEMMA StartKeeps ==
    ASSUME WalkInv, NEW a \in MemAgents, NEW kind \in EventKinds \cup {AnyKind}, StartWalk(a, kind)
    PROVE  WalkInv'
<1> DEFINE items == Filtered(a, kind)
           page == StoredAt(a, Page(items))
           w == [agent |-> a, kind |-> kind, pages |-> <<page>>, cursor |-> NextCursor(a, items),
                 flushed |-> FALSE, atStart |-> StoredAt(a, items)]
<1>1. walk' = <<w>> /\ UNCHANGED <<events, eventSeq, appends>>
  BY DEF StartWalk
<1>2. items \in SUBSET (1..Len(events[a])) /\ \A i \in items : events[a][i] \in Stored
  BY EventTypes
<1>3. PICK c \in Nat : PageEnds(a, items, c)
  BY <1>2, PageReaches
<1>4. page \subseteq Stored /\ StoredAt(a, items) \subseteq Stored
  BY <1>2 DEF StoredAt, Page
<1>5. NextCursor(a, items) \in Seq(Nat)
  <2>1. NextCursor(a, items) = <<>> \/ NextCursor(a, items) = <<c>>
    BY <1>3 DEF PageEnds
  <2>2. <<>> \in Seq(Nat) /\ <<c>> \in Seq(Nat)
    OBVIOUS
  <2> QED BY <2>1, <2>2
<1> HIDE DEF page, items
<1>6. PICK v \in Walk : /\ walk' = <<v>> /\ v.agent = a /\ v.kind = kind /\ v.pages = <<page>>
                       /\ v.cursor = NextCursor(a, items) /\ v.atStart = StoredAt(a, items)
  <2>1. w \in Walk
    BY <1>4, <1>5 DEF Walk
  <2> QED BY <1>1, <2>1
<1> HIDE DEF w
<1>7. Range(v.pages) = {page} /\ DOMAIN v.pages = {1}
  BY <1>6 DEF Range
<1>8. Ascending(v)
  BY <1>7 DEF Ascending
<1>9. CameTo(v, c)
  <2>1. page = StoredAt(a, UpTo(a, kind, c))
    BY <1>3 DEF PageEnds, UpTo, page, items
  <2>2. ASSUME v.cursor = <<>> PROVE v.atStart \subseteq page
    <3>1. c = Len(events[a])
      BY <1>3, <1>6, <2>2 DEF PageEnds
    <3>2. \A i \in items : i <= c
      <4>1. Len(events[a]) \in Nat
        BY EventTypes
      <4> QED BY <1>2, <3>1, <4>1 DEF items
    <3> QED BY <1>6, <2>1, <3>2 DEF UpTo, StoredAt, items
  <2> QED BY <1>3, <1>6, <1>7, <2>1, <2>2 DEF CameTo, PageEnds, items
<1>10. CameTo(v, c)' /\ Ascending(v)'
  BY <1>1, <1>8, <1>9 DEF CameTo, Ascending, StoredAt, UpTo, Filtered
<1>11. WalkOk(v)'
  BY <1>10 DEF WalkOk
<1>12. EventsInv'
  BY <1>1 DEF WalkInv, EventsInv, EventsOk
<1> QED BY <1>6, <1>11, <1>12 DEF WalkInv

\* A further page: what it holds came after all that the walk returned before.
LEMMA ContinueKeeps ==
    ASSUME WalkInv, ContinueWalk
    PROVE  WalkInv'
<1>1. PICK w \in Walk : walk = <<w>> /\ (~w.flushed => Ascending(w) /\ \E c \in Nat : CameTo(w, c))
  BY DEF WalkInv, WalkOk, ContinueWalk
<1> DEFINE a == w.agent
           all == Filtered(a, w.kind)
           items == After(a, all, w.cursor)
           page == StoredAt(a, Page(items))
           next == [w EXCEPT !.pages = Append(@, page), !.cursor = NextCursor(a, items)]
<1>2. walk[1] = w
  BY <1>1
<1>3. /\ w.cursor # <<>> /\ walk' = <<next>> /\ UNCHANGED <<events, eventSeq, appends>>
  BY <1>2 DEF ContinueWalk
<1>4. a \in MemAgents /\ w.pages \in Seq(SUBSET Stored)
  BY DEF Walk
<1>5. /\ Len(events[a]) \in Nat /\ all \subseteq 1..Len(events[a])
      /\ items \in SUBSET (1..Len(events[a])) /\ items \subseteq all
      /\ \A i \in all : events[a][i] \in Stored /\ events[a][i].id = i /\ i \in Nat
  BY <1>4, EventTypes DEF After
<1>6. PICK c \in Nat : PageEnds(a, items, c)
  BY <1>4, <1>5, PageReaches
<1>7. page \in SUBSET Stored
  BY <1>5 DEF StoredAt, Page
<1>8. NextCursor(a, items) \in Seq(Nat)
  <2>1. NextCursor(a, items) = <<>> \/ NextCursor(a, items) = <<c>>
    BY <1>6 DEF PageEnds
  <2>2. <<>> \in Seq(Nat) /\ <<c>> \in Seq(Nat)
    OBVIOUS
  <2> QED BY <2>1, <2>2
<1> HIDE DEF page, items
<1>9. PICK v \in Walk : /\ walk' = <<v>> /\ v.agent = a /\ v.kind = w.kind
                        /\ v.pages = Append(w.pages, page) /\ v.cursor = NextCursor(a, items)
                        /\ v.atStart = w.atStart /\ v.flushed = w.flushed
  <2>1. Append(w.pages, page) \in Seq(SUBSET Stored)
    BY <1>4, <1>7, AppendProperties
  <2>2. next \in Walk
    BY <1>8, <2>1 DEF Walk
  <2>3. /\ next.agent = a /\ next.kind = w.kind /\ next.pages = Append(w.pages, page)
        /\ next.cursor = NextCursor(a, items) /\ next.atStart = w.atStart
        /\ next.flushed = w.flushed
    BY DEF Walk
  <2> QED BY <1>3, <2>2, <2>3
<1>10. ASSUME ~w.flushed PROVE Ascending(v) /\ CameTo(v, c)
  <2>1. PICK b \in Nat : CameTo(w, b)
    BY <1>1, <1>10
  <2>2. /\ b \in all /\ w.cursor = <<b>> /\ Ascending(w)
        /\ UNION Range(w.pages) = StoredAt(a, UpTo(a, w.kind, b))
        /\ w.atStart \subseteq StoredAt(a, all)
    BY <1>1, <1>3, <1>10, <2>1 DEF CameTo
  <2>3. items = {i \in all : b < i}
    <3>1. \A j \in all : <<events[a][j].id>> = w.cursor <=> j = b
      BY <1>5, <2>2
    <3> QED BY <1>3, <2>2, <3>1 DEF After, items
  <2>4. Page(items) = {i \in all : b < i /\ i <= c}
    BY <1>6, <2>3 DEF PageEnds
  <2>5. c \in Nat /\ b \in Nat /\ b <= Len(events[a])
    BY <1>5, <2>2
  <2>6. b <= c
    <3>1. CASE NextCursor(a, items) # <<>>
      BY <1>6, <2>3, <2>5, <3>1 DEF PageEnds
    <3>2. CASE NextCursor(a, items) = <<>>
      BY <1>6, <2>5, <3>2 DEF PageEnds
    <3> QED BY <3>1, <3>2
  <2>7. UpTo(a, w.kind, c) = UpTo(a, w.kind, b) \cup Page(items)
    <3>1. \A i \in all : i <= c <=> i <= b \/ (b < i /\ i <= c)
      BY <1>5, <2>5, <2>6
    <3> QED BY <2>4, <3>1 DEF UpTo
  <2>8. UNION Range(v.pages) = (UNION Range(w.pages)) \cup page
    <3>1. /\ Append(w.pages, page) \in Seq(SUBSET Stored)
          /\ Len(Append(w.pages, page)) = Len(w.pages) + 1
          /\ \A i \in 1..Len(w.pages) : Append(w.pages, page)[i] = w.pages[i]
          /\ Append(w.pages, page)[Len(w.pages) + 1] = page
      BY <1>4, <1>7, AppendProperties
    <3>2. /\ DOMAIN Append(w.pages, page) = 1..(Len(w.pages) + 1)
          /\ DOMAIN w.pages = 1..Len(w.pages) /\ Len(w.pages) \in Nat
      BY <1>4, <3>1, LenProperties
    <3>3. 1..(Len(w.pages) + 1) = 1..Len(w.pages) \cup {Len(w.pages) + 1}
      BY <3>2
    <3>4. Range(Append(w.pages, page)) = Range(w.pages) \cup {page}
      BY <3>1, <3>2, <3>3 DEF Range
    <3> QED BY <1>9, <3>4
  <2>9. UNION Range(v.pages) = StoredAt(a, UpTo(a, w.kind, c))
    <3>1. \A S, T : StoredAt(a, S \cup T) = StoredAt(a, S) \cup StoredAt(a, T)
      BY DEF StoredAt
    <3>2. StoredAt(a, UpTo(a, w.kind, c)) = StoredAt(a, UpTo(a, w.kind, b)) \cup page
      BY <2>7, <3>1 DEF page
    <3> QED BY <2>2, <2>8, <3>2
  <2>10. Ascending(v)
    <3>1. \A i \in all, j \in all : i <= b /\ b < j => events[a][i].event[1] < events[a][j].event[1]
      <4> SUFFICES ASSUME NEW i \in all, NEW j \in all, i <= b, b < j
                   PROVE  events[a][i].event[1] < events[a][j].event[1]
        OBVIOUS
      <4>1. i < j /\ i \in 1..Len(events[a]) /\ j \in 1..Len(events[a])
        BY <1>5, <2>5
      <4> QED BY <1>4, <4>1, EventTypes
    <3>2. \A s \in UNION Range(w.pages), t \in page : s.event[1] < t.event[1]
      BY <2>2, <2>4, <3>1 DEF StoredAt, UpTo, page
    <3>3. /\ DOMAIN v.pages = 1..(Len(w.pages) + 1) /\ Len(w.pages) \in Nat
          /\ DOMAIN w.pages = 1..Len(w.pages)
          /\ \A i \in 1..Len(w.pages) : v.pages[i] = w.pages[i]
          /\ v.pages[Len(w.pages) + 1] = page
      <4>1. Append(w.pages, page) \in Seq(SUBSET Stored)
        BY <1>4, <1>7, AppendProperties
      <4> QED BY <1>4, <1>7, <1>9, <4>1, AppendProperties, LenProperties
    <3> SUFFICES ASSUME NEW p \in DOMAIN v.pages, NEW q \in DOMAIN v.pages, p < q,
                        NEW s \in v.pages[p], NEW t \in v.pages[q]
                 PROVE  s.event[1] < t.event[1]
      BY DEF Ascending
    <3>4. p \in 1..Len(w.pages) /\ (q \in 1..Len(w.pages) \/ q = Len(w.pages) + 1)
      BY <3>3
    <3>5. s \in w.pages[p] /\ s \in UNION Range(w.pages)
      BY <3>3, <3>4 DEF Range
    <3>6. CASE q \in 1..Len(w.pages)
      BY <2>2, <3>3, <3>4, <3>5, <3>6 DEF Ascending
    <3>7. CASE q = Len(w.pages) + 1
      BY <3>2, <3>3, <3>5, <3>7
    <3> QED BY <3>4, <3>6, <3>7
  <2>11. ASSUME v.cursor = <<>> PROVE v.atStart \subseteq UNION Range(v.pages)
    <3>1. c = Len(events[a])
      BY <1>6, <1>9, <2>11 DEF PageEnds
    <3>2. UpTo(a, w.kind, c) = all
      BY <1>5, <3>1 DEF UpTo
    <3> QED BY <1>9, <2>2, <2>9, <3>2
  <2>12. v.cursor # <<>> => c \in all /\ v.cursor = <<c>>
    BY <1>5, <1>6, <1>9 DEF PageEnds
  <2> QED BY <1>6, <1>9, <2>2, <2>9, <2>10, <2>11, <2>12 DEF CameTo, PageEnds
<1>11. ASSUME ~v.flushed PROVE Ascending(v)' /\ CameTo(v, c)'
  BY <1>3, <1>9, <1>10, <1>11 DEF CameTo, Ascending, StoredAt, UpTo, Filtered
<1>12. WalkOk(v)'
  BY <1>11 DEF WalkOk
<1>13. EventsInv'
  BY <1>3 DEF WalkInv, EventsInv, EventsOk
<1> QED BY <1>9, <1>12, <1>13 DEF WalkInv

\* An event appended is the last and the youngest.
LEMMA EventAppended ==
    ASSUME EventsInv, NEW a \in MemAgents, NEW k \in EventKinds, AppendMemoryEvent(a, k)
    PROVE  /\ EventsInv'
           /\ \A b \in MemAgents : \A i \in 1..Len(events[b]) :
                i \in 1..Len(events'[b]) /\ events'[b][i] = events[b][i]
           /\ \A b \in MemAgents : Len(events[b]) \in Nat /\ Len(events'[b]) \in Nat
                                   /\ Len(events[b]) <= Len(events'[b])
           /\ \A b \in MemAgents : DOMAIN events[b] = 1..Len(events[b])
                                   /\ DOMAIN events'[b] = 1..Len(events'[b])
<1> DEFINE n == Len(events[a])
           r == [id |-> eventSeq[a] + 1, event |-> <<appends', k>>]
           s == Append(events[a], r)
<1>1. /\ appends' = appends + 1 /\ eventSeq' = [eventSeq EXCEPT ![a] = @ + 1]
      /\ events' = [events EXCEPT ![a] = s]
  BY DEF AppendMemoryEvent
<1>2. /\ appends \in Nat /\ events[a] \in Seq(Stored) /\ n \in Nat /\ eventSeq[a] = n
      /\ events \in [MemAgents -> Seq(Stored)] /\ eventSeq \in [MemAgents -> Nat]
      /\ EventsOk(events[a], appends)
  BY DEF EventsInv
<1>3. appends' \in Nat /\ appends <= appends' /\ appends < appends'
  BY <1>1, <1>2
<1>4. r.id = n + 1 /\ r.event = <<appends', k>> /\ r.event[1] = appends' /\ r \in Stored
  <2>1. n + 1 \in Nat /\ <<appends', k>> \in Nat \X EventKinds
    BY <1>2, <1>3
  <2> QED BY <1>2, <2>1 DEF Stored
<1> HIDE DEF r
<1>5. /\ s \in Seq(Stored) /\ Len(s) = n + 1
      /\ \A i \in 1..n : s[i] = events[a][i]
      /\ s[n + 1] = r
  BY <1>2, <1>4, AppendProperties
<1> HIDE DEF s
<1>6. \A i \in 1..Len(s) : i \in 1..n \/ i = n + 1
  BY <1>2, <1>5
<1>7. \A i \in 1..n : events[a][i].event[1] \in Nat /\ events[a][i].event[1] < appends'
                      /\ events[a][i].event[1] <= appends'
  <2> TAKE i \in 1..n
  <2>1. events[a][i] \in Stored /\ events[a][i].event[1] <= appends
    BY <1>2 DEF EventsOk
  <2>2. events[a][i].event[1] \in Nat
    BY <2>1 DEF Stored
  <2> QED BY <1>2, <1>3, <2>1, <2>2
<1>8. EventsOk(s, appends')
  <2>1. \A i \in 1..Len(s) : s[i].id = i /\ s[i].event[1] <= appends'
    <3> TAKE i \in 1..Len(s)
    <3>1. CASE i \in 1..n
      BY <1>2, <1>5, <1>7, <3>1 DEF EventsOk
    <3>2. CASE i = n + 1
      BY <1>3, <1>4, <1>5, <3>2
    <3> QED BY <1>6, <3>1, <3>2
  <2>2. \A i, j \in 1..Len(s) : i < j => s[i].event[1] < s[j].event[1]
    <3> SUFFICES ASSUME NEW i \in 1..Len(s), NEW j \in 1..Len(s), i < j
                 PROVE  s[i].event[1] < s[j].event[1]
      OBVIOUS
    <3>1. i \in 1..n
      BY <1>2, <1>5
    <3>2. CASE j \in 1..n
      BY <1>2, <1>5, <3>1, <3>2 DEF EventsOk
    <3>3. CASE j = n + 1
      BY <1>4, <1>5, <1>7, <3>1, <3>3
    <3> QED BY <1>6, <3>2, <3>3
  <2> QED BY <1>5, <2>1, <2>2 DEF EventsOk
<1>9. \A b \in MemAgents : events'[b] = IF b = a THEN s ELSE events[b]
  BY <1>1, <1>2
<1>10. \A b \in MemAgents : EventsOk(events'[b], appends')
  <2> TAKE b \in MemAgents
  <2>1. CASE b = a
    BY <1>8, <1>9, <2>1
  <2>2. CASE b # a
    <3>1. EventsOk(events[b], appends) /\ events'[b] = events[b]
      BY <1>9, <2>2 DEF EventsInv
    <3>2. \A i \in 1..Len(events[b]) : events[b][i].event[1] <= appends'
      <4> TAKE i \in 1..Len(events[b])
      <4>1. events[b][i] \in Stored /\ events[b][i].event[1] <= appends
        BY <3>1 DEF EventsOk
      <4>2. events[b][i].event[1] \in Nat
        BY <4>1 DEF Stored
      <4> QED BY <1>2, <1>3, <4>1, <4>2
    <3> QED BY <3>1, <3>2 DEF EventsOk
  <2> QED BY <2>1, <2>2
<1>11. /\ events' \in [MemAgents -> Seq(Stored)] /\ eventSeq' \in [MemAgents -> Nat]
       /\ \A b \in MemAgents : eventSeq'[b] = Len(events'[b])
  <2>1. events' \in [MemAgents -> Seq(Stored)]
    BY <1>1, <1>2, <1>5
  <2>2. n + 1 \in Nat /\ eventSeq' = [eventSeq EXCEPT ![a] = n + 1]
    BY <1>1, <1>2
  <2>3. eventSeq' \in [MemAgents -> Nat]
    BY <1>2, <2>2
  <2>4. \A b \in MemAgents : eventSeq[b] = Len(events[b])
    BY DEF EventsInv
  <2> QED BY <1>2, <1>5, <1>9, <2>1, <2>2, <2>3, <2>4
<1>12. EventsInv'
  BY <1>3, <1>10, <1>11 DEF EventsInv
<1>13. \A b \in MemAgents : events[b] \in Seq(Stored) /\ events'[b] \in Seq(Stored)
  BY <1>2, <1>11
<1>14. \A b \in MemAgents : /\ Len(events[b]) \in Nat /\ Len(events'[b]) \in Nat
                            /\ DOMAIN events[b] = 1..Len(events[b])
                            /\ DOMAIN events'[b] = 1..Len(events'[b])
  BY <1>13, LenProperties
<1>15. \A i \in 1..n : i \in 1..(n + 1)
  BY <1>2
<1>16. n <= n + 1
  BY <1>2
<1>17. \A b \in MemAgents : \A i \in 1..Len(events[b]) :
                i \in 1..Len(events'[b]) /\ events'[b][i] = events[b][i]
  BY <1>5, <1>9, <1>15
<1>18. \A b \in MemAgents : Len(events[b]) <= Len(events'[b])
  <2> TAKE b \in MemAgents
  <2>1. Len(events[b]) \in Nat
    BY <1>14
  <2> QED BY <1>5, <1>9, <1>16, <2>1
<1> QED BY <1>12, <1>14, <1>17, <1>18

\* What a walk has returned up to a position is not disturbed by an append.
LEMMA AppendEventKeeps ==
    ASSUME WalkInv, NEW a \in MemAgents, NEW k \in EventKinds, AppendMemoryEvent(a, k)
    PROVE  WalkInv'
<1>0. EventsInv
  BY DEF WalkInv
<1>1. /\ EventsInv'
      /\ \A b \in MemAgents : \A i \in 1..Len(events[b]) :
           i \in 1..Len(events'[b]) /\ events'[b][i] = events[b][i]
      /\ \A b \in MemAgents : Len(events[b]) \in Nat /\ Len(events'[b]) \in Nat
                              /\ Len(events[b]) <= Len(events'[b])
      /\ \A b \in MemAgents : DOMAIN events[b] = 1..Len(events[b])
                              /\ DOMAIN events'[b] = 1..Len(events'[b])
  BY <1>0, EventAppended
<1>2. walk' = walk
  BY DEF AppendMemoryEvent
<1>3. ASSUME NEW w \in Walk, WalkOk(w) PROVE WalkOk(w)'
  <2> SUFFICES ASSUME ~w.flushed PROVE Ascending(w)' /\ \E c \in Nat : CameTo(w, c)'
    BY DEF WalkOk
  <2>1. Ascending(w)'
    BY <1>3 DEF WalkOk, Ascending
  <2>2. PICK c \in Nat : CameTo(w, c)
    BY <1>3 DEF WalkOk
  <2> DEFINE b == w.agent
             F == Filtered(b, w.kind)
  <2>3. b \in MemAgents /\ c <= Len(events[b])
    BY <2>2 DEF Walk, CameTo
  <2>4. F \subseteq 1..Len(events[b]) /\ \A i \in F : i \in F' /\ events'[b][i] = events[b][i]
    BY <1>1, <2>3 DEF Filtered
  <2>5. \A i \in F' : i <= c => i \in F
    <3> SUFFICES ASSUME NEW i \in F', i <= c PROVE i \in F
      OBVIOUS
    <3>1. i \in 1..Len(events'[b])
      BY <1>1, <2>3 DEF Filtered
    <3>2. i \in 1..Len(events[b])
      BY <1>1, <2>3, <3>1
    <3>3. events'[b][i] = events[b][i]
      BY <1>1, <2>3, <3>2
    <3> QED BY <1>1, <2>3, <3>2, <3>3 DEF Filtered
  <2>6. {i \in F' : i <= c} = {i \in F : i <= c}
    BY <2>4, <2>5
  <2>7. StoredAt(b, UpTo(b, w.kind, c))' = StoredAt(b, UpTo(b, w.kind, c))
    BY <2>4, <2>6 DEF StoredAt, UpTo
  <2>8. StoredAt(b, F) \subseteq StoredAt(b, F)'
    BY <2>4 DEF StoredAt
  <2>9. c \in 0..Len(events'[b])
    BY <1>1, <2>3
  <2>10. CameTo(w, c)'
    BY <2>2, <2>4, <2>7, <2>8, <2>9 DEF CameTo
  <2> QED BY <2>1, <2>10
<1> QED BY <1>1, <1>2, <1>3 DEF WalkInv

\* A flush leaves the other agents' events alone and marks the walk over its own.
LEMMA FlushEventsKeeps ==
    ASSUME WalkInv, NEW a \in MemAgents, NEW p \in BOOLEAN, FlushMemory(a, p)
    PROVE  WalkInv'
<1>1. /\ events' = [events EXCEPT ![a] = <<>>] /\ eventSeq' = [eventSeq EXCEPT ![a] = 0]
      /\ appends' = appends
      /\ walk' = [i \in DOMAIN walk |-> [walk[i] EXCEPT !.flushed = @ \/ walk[i].agent = a]]
  BY DEF FlushMemory
<1>2. \A b \in MemAgents : events'[b] = IF b = a THEN <<>> ELSE events[b]
  BY <1>1 DEF WalkInv, EventsInv
<1>3. EventsInv'
  <2>1. EventsOk(<<>>, appends)
    BY DEF EventsOk
  <2>2. \A b \in MemAgents : EventsOk(events'[b], appends')
    BY <1>1, <1>2, <2>1 DEF WalkInv, EventsInv
  <2>3. eventSeq' \in [MemAgents -> Nat] /\ events' \in [MemAgents -> Seq(Stored)]
    BY <1>1 DEF WalkInv, EventsInv
  <2>4. \A b \in MemAgents : eventSeq'[b] = Len(events'[b])
    BY <1>1, <1>2 DEF WalkInv, EventsInv
  <2> QED BY <1>1, <2>2, <2>3, <2>4 DEF WalkInv, EventsInv
<1>4. CASE walk = <<>>
  <2>1. walk' = <<>>
    BY <1>1, <1>4
  <2> QED BY <1>3, <2>1 DEF WalkInv
<1>5. ASSUME NEW w \in Walk, walk = <<w>>, WalkOk(w) PROVE WalkInv'
  <2> DEFINE v == [w EXCEPT !.flushed = @ \/ w.agent = a]
  <2>1. walk' = <<v>>
    BY <1>1, <1>5
  <2>2. v \in Walk
    BY DEF Walk
  <2>3. CASE w.agent = a
    <3>1. v.flushed
      BY <2>3 DEF Walk
    <3>2. WalkOk(v)'
      BY <3>1 DEF WalkOk
    <3> QED BY <1>3, <2>1, <2>2, <3>2 DEF WalkInv
  <2>4. CASE w.agent # a
    <3>1. v = w
      <4>1. (w.flushed \/ w.agent = a) = w.flushed
        BY <2>4 DEF Walk
      <4>2. v = [w EXCEPT !.flushed = w.flushed]
        BY <4>1
      <4> QED BY <4>2 DEF Walk
    <3>2. events'[w.agent] = events[w.agent]
      BY <1>2, <2>4 DEF Walk
    <3>3. WalkOk(w)'
      BY <1>5, <3>2, WalkOkKept
    <3> QED BY <1>3, <2>1, <3>1, <3>3 DEF WalkInv
  <2> QED BY <2>3, <2>4
<1> QED BY <1>4, <1>5 DEF WalkInv

\* Steps that touch neither events nor the walk, or end the walk.
LEMMA OtherKeeps ==
    ASSUME WalkInv, UNCHANGED <<events, eventSeq>>, walk' = walk \/ walk' = <<>>,
           appends' = appends \/ appends' = appends + 1
    PROVE  WalkInv'
<1>1. appends \in Nat /\ appends' \in Nat /\ appends <= appends'
  BY DEF WalkInv, EventsInv
<1>2. \A a \in MemAgents : EventsOk(events[a], appends')
  <2> TAKE a \in MemAgents
  <2>1. EventsOk(events[a], appends)
    BY DEF WalkInv, EventsInv
  <2>2. \A i \in 1..Len(events[a]) : events[a][i].event[1] <= appends'
    <3> TAKE i \in 1..Len(events[a])
    <3>1. events[a][i] \in Stored /\ events[a][i].event[1] <= appends
      BY <2>1 DEF EventsOk
    <3>2. events[a][i].event[1] \in Nat
      BY <3>1 DEF Stored
    <3> QED BY <1>1, <3>1, <3>2
  <2> QED BY <2>1, <2>2 DEF EventsOk
<1>3. EventsInv'
  BY <1>1, <1>2 DEF WalkInv, EventsInv
<1>4. \A w \in Walk : WalkOk(w) => WalkOk(w)'
  BY WalkOkKept
<1> QED BY <1>3, <1>4 DEF WalkInv

LEMMA WalkStep ==
    ASSUME WalkInv, [InMemoryNext]_inMemoryVars
    PROVE  WalkInv'
<1>1. CASE UNCHANGED inMemoryVars
  BY <1>1, OtherKeeps DEF inMemoryVars
<1>2. ASSUME NEW a \in MemAgents, SeedAgent(a) PROVE WalkInv'
  BY <1>2, OtherKeeps DEF SeedAgent
<1>3. ASSUME NEW a \in MemAgents, AppendSoul(a) PROVE WalkInv'
  BY <1>3, OtherKeeps DEF AppendSoul
<1>4. CASE EndWalk
  BY <1>4, OtherKeeps DEF EndWalk
<1>5. CASE ContinueWalk
  BY <1>5, ContinueKeeps
<1> QED BY <1>1, <1>2, <1>3, <1>4, <1>5, AppendEventKeeps, FlushEventsKeeps, StartKeeps, Zenon
        DEF InMemoryNext

\* A walk that no flush interrupts returns every matching event once, from the
\* oldest on, and does not end before all that were there at its start, for any
\* agents, kinds and page sizes and whatever is appended under way.
THEOREM WalksAreExact == InMemorySpec => []WalkExact
<1>1. InMemoryInit => WalkInv
  BY DEF InMemoryInit, WalkInv, EventsInv, EventsOk
<1>2. WalkInv /\ [InMemoryNext]_inMemoryVars => WalkInv'
  BY WalkStep
<1> QED BY <1>1, <1>2, WalkInvExact, PTL DEF InMemorySpec

-----------------------------------------------------------------------------
(* InMemoryRuntime implements the Soul ledger *)

Row == [version : 1..MaxAppends]

\* The versions of a Soul are its positions; the bound on appends bounds them.
SoulsInv ==
    /\ appends \in 0..MaxAppends
    /\ souls \in [MemAgents -> Seq(Row)]
    /\ soulWiped \in [MemAgents -> BOOLEAN]
    /\ \A a \in MemAgents : Len(souls[a]) <= appends
    /\ \A a \in MemAgents : \A i \in 1..Len(souls[a]) : souls[a][i].version = i

SoulVars == <<souls, soulWiped>>

\* The version append_soul gives is within the bound.
LEMMA NextVersionFits ==
    ASSUME SoulsInv, NEW a \in MemAgents, AppendSoul(a)
    PROVE  /\ Len(souls[a]) + 1 \in 1..MaxAppends
           /\ [version |-> Len(souls[a]) + 1] \in Row
<1>1. souls[a] \in Seq(Row) /\ Len(souls[a]) <= appends /\ appends < MaxAppends
  BY DEF SoulsInv, AppendSoul
<1>2. Len(souls[a]) \in Nat /\ appends \in Nat /\ MaxAppends \in Nat
  BY <1>1, InMemoryAssumption DEF SoulsInv
<1> QED BY <1>1, <1>2 DEF Row

\* append_soul gives a version its position.
LEMMA AppendKeeps ==
    ASSUME SoulsInv, NEW a \in MemAgents, AppendSoul(a)
    PROVE  SoulsInv'
<1> DEFINE r == [version |-> Len(souls[a]) + 1]
           s == Append(souls[a], r)
<1>1. souls[a] \in Seq(Row) /\ r \in Row /\ r.version = Len(souls[a]) + 1
  BY NextVersionFits DEF SoulsInv
<1>2. /\ souls' = [souls EXCEPT ![a] = s] /\ soulWiped' = soulWiped
      /\ appends < MaxAppends /\ appends' = appends + 1
  BY DEF AppendSoul
<1> HIDE DEF r
<1>3. /\ s \in Seq(Row) /\ Len(s) = Len(souls[a]) + 1
      /\ \A i \in 1..Len(souls[a]) : s[i] = souls[a][i]
      /\ s[Len(souls[a]) + 1] = r
  BY <1>1, AppendProperties
<1>4. \A i \in 1..Len(s) : s[i].version = i
  BY <1>1, <1>3 DEF SoulsInv
<1> HIDE DEF s
<1>5. appends' \in 0..MaxAppends
  BY <1>2, InMemoryAssumption DEF SoulsInv
<1>6. souls' \in [MemAgents -> Seq(Row)]
  BY <1>2, <1>3 DEF SoulsInv
<1>7. \A b \in MemAgents : souls'[b] = IF b = a THEN s ELSE souls[b]
  BY <1>2 DEF SoulsInv
<1>8. \A b \in MemAgents : Len(souls'[b]) <= appends'
  <2> TAKE b \in MemAgents
  <2>1. Len(souls[b]) \in Nat /\ Len(souls[b]) <= appends /\ Len(souls[a]) <= appends
        /\ Len(souls[a]) \in Nat /\ appends \in Nat
    BY DEF SoulsInv
  <2> QED BY <1>2, <1>3, <1>7, <2>1
<1>9. \A b \in MemAgents : \A i \in 1..Len(souls'[b]) : souls'[b][i].version = i
  BY <1>4, <1>7 DEF SoulsInv
<1> QED BY <1>2, <1>5, <1>6, <1>8, <1>9 DEF SoulsInv

\* flush_memory keeps all of a Soul or none of it.
LEMMA FlushKeeps ==
    ASSUME SoulsInv, NEW a \in MemAgents, NEW p \in BOOLEAN, FlushMemory(a, p)
    PROVE  SoulsInv'
<1>1. CASE p
  BY <1>1 DEF FlushMemory, SoulsInv
<1>2. CASE ~p
  <2>1. /\ souls' = [souls EXCEPT ![a] = <<>>]
        /\ soulWiped' = [soulWiped EXCEPT ![a] = TRUE] /\ appends' = appends
    BY <1>2 DEF FlushMemory
  <2>2. \A b \in MemAgents : souls'[b] = IF b = a THEN <<>> ELSE souls[b]
    BY <2>1 DEF SoulsInv
  <2>3. souls' \in [MemAgents -> Seq(Row)] /\ soulWiped' \in [MemAgents -> BOOLEAN]
    BY <2>1 DEF SoulsInv
  <2> QED BY <2>1, <2>2, <2>3 DEF SoulsInv
<1> QED BY <1>1, <1>2

\* What everybody else leaves of the Souls and the bound.
Elsewhere ==
    /\ UNCHANGED SoulVars
    /\ UNCHANGED appends \/ (appends < MaxAppends /\ appends' = appends + 1)

LEMMA SoulSteps ==
    ASSUME [InMemoryNext]_inMemoryVars
    PROVE  \/ Elsewhere
           \/ \E a \in MemAgents : AppendSoul(a)
           \/ \E a \in MemAgents, p \in BOOLEAN : FlushMemory(a, p)
<1>1. CASE UNCHANGED inMemoryVars
  BY <1>1 DEF inMemoryVars, Elsewhere, SoulVars
<1>2. CASE \E a \in MemAgents, k \in EventKinds : AppendMemoryEvent(a, k)
  BY <1>2 DEF AppendMemoryEvent, Elsewhere, SoulVars
<1>3. CASE \/ \E a \in MemAgents : SeedAgent(a)
           \/ \E a \in MemAgents, k \in EventKinds \cup {AnyKind} : StartWalk(a, k)
           \/ ContinueWalk \/ EndWalk
  BY <1>3 DEF SeedAgent, StartWalk, ContinueWalk, EndWalk, Elsewhere, SoulVars
<1> QED BY <1>1, <1>2, <1>3, Zenon DEF InMemoryNext

\* The inductive invariant holds.
LEMMA SoulsInvHolds == InMemorySpec => []SoulsInv
<1>1. InMemoryInit => SoulsInv
  BY InMemoryAssumption DEF InMemoryInit, SoulsInv
<1>2. SoulsInv /\ [InMemoryNext]_inMemoryVars => SoulsInv'
  <2> SUFFICES ASSUME SoulsInv, [InMemoryNext]_inMemoryVars PROVE SoulsInv'
    OBVIOUS
  <2>1. CASE Elsewhere
    <3>1. appends' \in 0..MaxAppends /\ appends' >= appends /\ appends \in Nat
      BY <2>1, InMemoryAssumption DEF SoulsInv, Elsewhere
    <3>2. \A a \in MemAgents : Len(souls'[a]) <= appends'
      <4> TAKE a \in MemAgents
      <4>1. Len(souls[a]) \in Nat /\ Len(souls[a]) <= appends /\ souls' = souls
        BY <2>1 DEF SoulsInv, SoulVars, Elsewhere
      <4> QED BY <3>1, <4>1
    <3> QED BY <2>1, <3>1, <3>2 DEF SoulsInv, SoulVars, Elsewhere
  <2> QED BY <2>1, SoulSteps, AppendKeeps, FlushKeeps
<1> QED BY <1>1, <1>2, PTL DEF InMemorySpec

\* Every behaviour of the in-memory runtime is one of SoulLedger: each step
\* appends the next version, wipes, or stutters, for any agents and kinds.
THEOREM InMemoryImplementsLedger == InMemorySpec => InMemoryLedger
<1> DEFINE hist == [a \in MemAgents |-> Range(souls[a])]
<1>1. InMemoryInit => Ledger!LedgerInit
  <2>1. Range(<<>>) = {}
    BY DEF Range
  <2> QED BY <2>1 DEF InMemoryInit, Ledger!LedgerInit
<1>2. ASSUME SoulsInv, [InMemoryNext]_inMemoryVars
      PROVE  [Ledger!LedgerNext]_(Ledger!ledgerVars)
  <2>1. CASE Elsewhere
    BY <2>1 DEF Elsewhere, SoulVars, Ledger!ledgerVars
  <2>2. ASSUME NEW a \in MemAgents, AppendSoul(a)
        PROVE  Ledger!LedgerNext
    <3> DEFINE n == Len(souls[a])
               r == [version |-> n + 1]
    <3>1. souls[a] \in Seq(Row) /\ r \in Row /\ n \in Nat /\ r.version = n + 1
      BY <1>2, <2>2, NextVersionFits DEF SoulsInv
    <3>2. souls' = [souls EXCEPT ![a] = Append(@, r)] /\ soulWiped' = soulWiped
      BY <2>2 DEF AppendSoul
    <3>3. Ledger!VersionsOf(Range(souls[a])) = 1..n
      <4>1. Range(souls[a]) = {souls[a][i] : i \in 1..n}
        BY <3>1 DEF Range
      <4>2. \A i \in 1..n : souls[a][i].version = i
        BY <1>2 DEF SoulsInv
      <4> QED BY <4>1, <4>2 DEF Ledger!VersionsOf
    <3> HIDE DEF r
    <3>4. Range(Append(souls[a], r)) = Range(souls[a]) \cup {r}
      <4>1. /\ Append(souls[a], r) \in Seq(Row) /\ Len(Append(souls[a], r)) = n + 1
            /\ \A i \in 1..n : Append(souls[a], r)[i] = souls[a][i]
            /\ Append(souls[a], r)[n + 1] = r
        BY <3>1, AppendProperties
      <4>2. DOMAIN Append(souls[a], r) = 1..(n + 1) /\ DOMAIN souls[a] = 1..n
        BY <3>1, <4>1, LenProperties
      <4>3. \A i : i \in 1..(n + 1) <=> i \in 1..n \/ i = n + 1
        BY <3>1
      <4> HIDE DEF n
      <4> QED BY <4>1, <4>2, <4>3 DEF Range
    <3>5. \A b \in MemAgents : souls'[b] = IF b = a THEN Append(souls[a], r) ELSE souls[b]
      BY <1>2, <3>2 DEF SoulsInv
    <3>6. hist' = [hist EXCEPT ![a] = @ \cup {r}]
      BY <3>4, <3>5
    <3>7. hist[a] = Range(souls[a])
      OBVIOUS
    <3>8. r.version \notin 1..n /\ (\A u \in 1..n : u < r.version)
          /\ (r.version = 1 \/ r.version - 1 \in 1..n)
      BY <3>1
    <3>9. Ledger!LedgerAppend(a, r)
      BY <3>2, <3>3, <3>6, <3>7, <3>8 DEF Ledger!LedgerAppend, Ledger!IsNextVersion
    <3> QED BY <3>1, <3>9 DEF Ledger!LedgerNext, Row
  <2>3. ASSUME NEW a \in MemAgents, NEW p \in BOOLEAN, FlushMemory(a, p)
        PROVE  [Ledger!LedgerNext]_(Ledger!ledgerVars)
    <3>1. CASE p
      BY <2>3, <3>1 DEF FlushMemory, Ledger!ledgerVars
    <3>2. CASE ~p
      <4>1. souls' = [souls EXCEPT ![a] = <<>>] /\ soulWiped' = [soulWiped EXCEPT ![a] = TRUE]
        BY <2>3, <3>2 DEF FlushMemory
      <4>2. Range(<<>>) = {}
        BY DEF Range
      <4>3. \A b \in MemAgents : souls'[b] = IF b = a THEN <<>> ELSE souls[b]
        BY <1>2, <4>1 DEF SoulsInv
      <4>4. hist' = [hist EXCEPT ![a] = {}]
        BY <4>2, <4>3
      <4>5. Ledger!LedgerWipe(a)
        BY <4>1, <4>4 DEF Ledger!LedgerWipe
      <4> QED BY <4>5 DEF Ledger!LedgerNext
    <3> QED BY <3>1, <3>2
  <2> QED BY <1>2, <2>1, <2>2, <2>3, SoulSteps
<1> QED BY <1>1, <1>2, SoulsInvHolds, PTL DEF InMemorySpec, InMemoryLedger, Ledger!LedgerSpec

-----------------------------------------------------------------------------
(* ContextWindow: what a strategy keeps of a conversation *)

\* The tokens of a sequence are the last of the sums of its beginnings.
LEMMA TokensIs ==
    ASSUME NEW s \in Seq(Message)
    PROVE  \E g \in [0..Len(s) -> Nat] :
             /\ g[0] = 0 /\ Tokens(s) = g[Len(s)]
             /\ \A i \in 1..Len(s) : g[i] = g[i - 1] + s[i].tok
<1> DEFINE n == Len(s)
           step == [i \in 1..n |-> [x \in Nat |-> x + s[i].tok]]
           sum == CHOOSE f : f = [i \in 0..n |-> IF i = 0 THEN 0 ELSE f[i - 1] + s[i].tok]
<1>1. n \in Nat /\ 0 \in Nat /\ \A i \in 1..n : s[i].tok \in Nat
  <2>1. \A i \in 1..n : s[i] \in Message
    BY ElementOfSeq
  <2> QED BY <2>1 DEF Message
<1>2. Steps(step, n, Nat)
  BY <1>1 DEF Steps
<1>3. PICK g : Goes(g, n, Nat, 0, step)
  <2> HIDE DEF step, n
  <2> QED BY <1>1, <1>2, Recursion
<1>4. /\ g \in [0..n -> Nat] /\ g[0] = 0 /\ n \in 0..n
      /\ \A i \in 1..n : g[i - 1] \in Nat /\ g[i] = g[i - 1] + s[i].tok
  <2>1. \A i \in 1..n : i - 1 \in 0..n
    BY <1>1
  <2>2. \A i \in 1..n, x \in Nat : step[i][x] = x + s[i].tok
    OBVIOUS
  <2> HIDE DEF step, n
  <2>3. g \in [0..n -> Nat] /\ g[0] = 0 /\ \A i \in 1..n : g[i] = step[i][g[i - 1]]
    BY <1>3 DEF Goes
  <2>4. \A i \in 1..n : g[i - 1] \in Nat
    BY <2>1, <2>3
  <2>5. \A i \in 1..n : g[i] = g[i - 1] + s[i].tok
    BY <2>2, <2>3, <2>4
  <2>6. n \in 0..n
    BY <1>1
  <2> QED BY <2>3, <2>4, <2>5, <2>6
<1>5. g = [i \in 0..n |-> IF i = 0 THEN 0 ELSE g[i - 1] + s[i].tok]
  <2>1. \A i \in 0..n : i = 0 \/ i \in 1..n
    BY <1>1
  <2>2. \A i \in 0..n : g[i] = IF i = 0 THEN 0 ELSE g[i - 1] + s[i].tok
    BY <1>4, <2>1
  <2> QED BY <1>4, <2>2
<1>6. sum = [i \in 0..n |-> IF i = 0 THEN 0 ELSE sum[i - 1] + s[i].tok]
  BY <1>5
<1>7. \A i \in 0..n : sum[i] = g[i]
  <2> DEFINE P == {i \in 0..n : sum[i] = g[i]}
  <2> HIDE DEF sum
  <2>1. 0 \in P
    BY <1>1, <1>4, <1>6
  <2>2. \A i \in 1..n : i - 1 \in P => i \in P
    <3> TAKE i \in 1..n
    <3>1. i \in 0..n /\ i # 0
      BY <1>1
    <3>2. sum[i] = sum[i - 1] + s[i].tok
      BY <1>6, <3>1
    <3> QED BY <1>4, <3>1, <3>2
  <2> HIDE DEF P, n
  <2>3. \A i \in 0..n : i \in P
    BY <1>1, <2>1, <2>2, Induction
  <2> QED BY <2>3 DEF P
<1>8. Tokens(s) = sum[n]
  BY DEF Tokens
<1> HIDE DEF sum, n
<1>9. Tokens(s) = g[n]
  BY <1>4, <1>7, <1>8
<1> QED BY <1>4, <1>9 DEF n

LEMMA TokensType == ASSUME NEW s \in Seq(Message) PROVE Tokens(s) \in Nat
<1>1. Len(s) \in 0..Len(s)
  OBVIOUS
<1> QED BY <1>1, TokensIs

\* Tokens add up.
LEMMA TokensOfBoth ==
    ASSUME NEW a \in Seq(Message), NEW b \in Seq(Message)
    PROVE  Tokens(a \o b) = Tokens(a) + Tokens(b)
<1> DEFINE c == a \o b  m == Len(a)  n == Len(b)
<1>1. /\ c \in Seq(Message) /\ Len(c) = m + n /\ m \in Nat /\ n \in Nat
      /\ \A i \in 1..m : c[i] = a[i]
      /\ \A i \in 1..n : c[m + i] = b[i]
  BY ConcatProperties
<1>2. PICK f \in [0..m -> Nat] : /\ f[0] = 0 /\ Tokens(a) = f[m]
                                 /\ \A i \in 1..m : f[i] = f[i - 1] + a[i].tok
  BY TokensIs
<1>3. PICK g \in [0..n -> Nat] : /\ g[0] = 0 /\ Tokens(b) = g[n]
                                 /\ \A i \in 1..n : g[i] = g[i - 1] + b[i].tok
  BY TokensIs
<1> HIDE DEF c, m, n
<1>4. PICK h \in [0..Len(c) -> Nat] :
        /\ h[0] = 0 /\ Tokens(c) = h[Len(c)]
        /\ \A i \in 1..Len(c) : h[i] = h[i - 1] + c[i].tok
  BY <1>1, TokensIs
<1>5. \A i \in 0..m : h[i] = f[i]
  <2> DEFINE P == {i \in 0..m : h[i] = f[i]}
  <2>1. 0 \in P
    BY <1>1, <1>2, <1>4
  <2>2. \A i \in 1..m : i - 1 \in P => i \in P
    <3> TAKE i \in 1..m
    <3>1. i \in 0..m /\ i \in 1..(m + n)
      BY <1>1
    <3> QED BY <1>1, <1>2, <1>4, <3>1
  <2> HIDE DEF P
  <2>3. \A i \in 0..m : i \in P
    BY <1>1, <2>1, <2>2, Induction
  <2> QED BY <2>3 DEF P
<1>6. \A i \in 0..n : h[m + i] = f[m] + g[i]
  <2> DEFINE P == {i \in 0..n : h[m + i] = f[m] + g[i]}
  <2>0. f[m] \in Nat /\ m \in 0..m
    BY <1>1, <1>2
  <2>1. 0 \in P
    BY <1>1, <1>3, <1>5, <2>0
  <2>2. \A i \in 1..n : i - 1 \in P => i \in P
    <3> TAKE i \in 1..n
    <3> HAVE i - 1 \in P
    <3>1. i \in 0..n /\ m + i \in 1..(m + n) /\ i - 1 \in 0..n /\ (m + i) - 1 = m + (i - 1)
      BY <1>1
    <3>2. h[m + i] = h[m + (i - 1)] + b[i].tok
      BY <1>1, <1>4, <3>1
    <3>3. h[m + (i - 1)] = f[m] + g[i - 1] /\ g[i] = g[i - 1] + b[i].tok
      BY <1>3
    <3>4. b[i].tok \in Nat
      <4>1. b[i] \in Message
        BY ElementOfSeq DEF n
      <4> QED BY <4>1 DEF Message
    <3>5. g[i - 1] \in Nat
      BY <1>3, <3>1
    <3>6. h[m + i] = f[m] + g[i]
      BY <2>0, <3>2, <3>3, <3>4, <3>5
    <3> QED BY <3>1, <3>6
  <2> HIDE DEF P
  <2>3. \A i \in 0..n : i \in P
    BY <1>1, <2>1, <2>2, Induction
  <2> QED BY <2>3 DEF P
<1>7. n \in 0..n
  BY <1>1
<1>8. Tokens(c) = f[m] + g[n]
  BY <1>1, <1>4, <1>6, <1>7
<1> QED BY <1>2, <1>3, <1>8 DEF c

\* The first and the last messages of a sequence.
LEMMA LastOfIs ==
    ASSUME NEW s \in Seq(Message), NEW n \in 0..Len(s)
    PROVE  /\ LastOf(s, n) \in Seq(Message) /\ Len(LastOf(s, n)) = n
           /\ \A i \in 1..n : LastOf(s, n)[i] = s[Len(s) - n + i]
<1> DEFINE m == Len(s) - n + 1
<1>1. /\ Len(s) \in Nat /\ n \in Nat /\ m \in 1..(Len(s) + 1) /\ Len(s) \in (m - 1)..Len(s)
      /\ Len(s) - m + 1 = n
  OBVIOUS
<1>2. \A i \in m..Len(s) : s[i] \in Message
  <2>1. \A i \in m..Len(s) : i \in 1..Len(s)
    BY <1>1
  <2> QED BY <2>1, ElementOfSeq
<1>3. LastOf(s, n) = [i \in 1..n |-> s[m + i - 1]]
  BY <1>1 DEF LastOf
<1>4. \A i \in 1..n : m + i - 1 \in m..Len(s) /\ m + i - 1 = Len(s) - n + i
  BY <1>1
<1> QED BY <1>1, <1>2, <1>3, <1>4

LEMMA AllButIs ==
    ASSUME NEW s \in Seq(Message), NEW n \in 0..Len(s)
    PROVE  /\ AllBut(s, n) \in Seq(Message) /\ Len(AllBut(s, n)) = Len(s) - n
           /\ \A i \in 1..(Len(s) - n) : AllBut(s, n)[i] = s[i]
<1>1. Len(s) \in Nat /\ n \in Nat /\ Len(s) - n \in 0..Len(s)
  OBVIOUS
<1>2. \A i \in 1..(Len(s) - n) : i \in 1..Len(s) /\ s[i] \in Message
  <2>1. \A i \in 1..(Len(s) - n) : i \in 1..Len(s)
    BY <1>1
  <2> QED BY <2>1, ElementOfSeq
<1>3. AllBut(s, n) = [i \in 1..(Len(s) - n) |-> s[i]]
  BY <1>1 DEF AllBut
<1> QED BY <1>1, <1>2, <1>3

\* What is true of every message, and of any two: ids are given in order, an id
\* of 0 is that of a message nobody said, and only assistants call tools.
SoundMessage(msg, n) ==
    /\ msg.id \in 0..n /\ msg.covers \subseteq 1..n
    /\ msg.id = 0 => msg.role = "system"
    /\ msg.call # NoCall => msg.role = "assistant"

InOrder(s) ==
    \A i, j \in 1..Len(s) : i < j /\ s[i].id # 0 /\ s[j].id # 0 => s[i].id < s[j].id

Sound(s, n) ==
    /\ s \in Seq(Message) /\ InOrder(s)
    /\ \A i \in 1..Len(s) : SoundMessage(s[i], n)

FirstPart(s, n) == /\ s \in Seq(Message)
               /\ \A i \in 1..Len(s) : s[i].id = 0 /\ SoundMessage(s[i], n)

\* The last n messages of t are those of s.
EndsAlike(t, s, n) ==
    n <= Len(t) /\ n <= Len(s) /\ \A d \in 0..(n - 1) : t[Len(t) - d] = s[Len(s) - d]

LEMMA AlikeMeansEqual ==
    ASSUME NEW s \in Seq(Message), NEW t \in Seq(Message), NEW n \in Nat, EndsAlike(t, s, n)
    PROVE  n <= Len(t) /\ LastOf(t, n) = LastOf(s, n)
<1>1. n \in 0..Len(t) /\ n \in 0..Len(s) /\ Len(s) \in Nat /\ Len(t) \in Nat
  BY DEF EndsAlike
<1>2. /\ LastOf(t, n) \in Seq(Message) /\ Len(LastOf(t, n)) = n
      /\ LastOf(s, n) \in Seq(Message) /\ Len(LastOf(s, n)) = n
  BY <1>1, LastOfIs
<1>3. \A i \in 1..n : LastOf(t, n)[i] = LastOf(s, n)[i]
  <2> TAKE i \in 1..n
  <2>1. /\ n - i \in 0..(n - 1)
        /\ Len(s) - n + i = Len(s) - (n - i) /\ Len(t) - n + i = Len(t) - (n - i)
    BY <1>1
  <2>2. LastOf(t, n)[i] = t[Len(t) - n + i] /\ LastOf(s, n)[i] = s[Len(s) - n + i]
    BY <1>1, LastOfIs
  <2> QED BY <2>1, <2>2 DEF EndsAlike
<1>4. LastOf(t, n) = LastOf(s, n)
  BY <1>2, <1>3, SeqEqual
<1> QED BY <1>1, <1>4

LEMMA AlikeSelf == ASSUME NEW s \in Seq(Message), NEW n \in 0..Len(s) PROVE EndsAlike(s, s, n)
BY DEF EndsAlike

\* A front leaves the end of a sequence, and its order, as they are.
LEMMA FrontKeeps ==
    ASSUME NEW n \in Nat, NEW a, FirstPart(a, n), NEW t, Sound(t, n)
    PROVE  /\ Sound(a \o t, n) /\ Len(a \o t) = Len(a) + Len(t)
           /\ \A m \in 0..Len(t) : EndsAlike(a \o t, t, m)
           /\ Ids(t) \subseteq Ids(a \o t)
           /\ Covered(a) \cup Covered(t) \subseteq Covered(a \o t)
<1> DEFINE c == a \o t  p == Len(a)  q == Len(t)
<1>1. /\ c \in Seq(Message) /\ Len(c) = p + q /\ p \in Nat /\ q \in Nat
      /\ DOMAIN c = 1..(p + q) /\ DOMAIN a = 1..p /\ DOMAIN t = 1..q
      /\ \A i \in 1..p : c[i] = a[i]
      /\ \A i \in 1..q : c[p + i] = t[i]
  BY ConcatProperties DEF FirstPart, Sound
<1> HIDE DEF c, p, q
<1>2. ASSUME NEW i \in 1..(p + q)
      PROVE  \/ i \in 1..p /\ c[i] = a[i]
             \/ i - p \in 1..q /\ c[i] = t[i - p]
  <2>1. CASE i <= p
    <3>1. i \in 1..p
      BY <1>1, <2>1
    <3> QED BY <1>1, <3>1
  <2>2. CASE ~(i <= p)
    <3>1. i - p \in 1..q /\ i = p + (i - p)
      BY <1>1, <2>2
    <3> QED BY <1>1, <3>1
  <2> QED BY <2>1, <2>2
<1>3. \A i \in 1..Len(c) : SoundMessage(c[i], n)
  BY <1>1, <1>2 DEF Sound, FirstPart, p, q
<1>4. InOrder(c)
  <2> SUFFICES ASSUME NEW i \in 1..Len(c), NEW j \in 1..Len(c), i < j, c[i].id # 0, c[j].id # 0
               PROVE  c[i].id < c[j].id
    BY DEF InOrder
  <2>1. i - p \in 1..q /\ c[i] = t[i - p] /\ j - p \in 1..q /\ c[j] = t[j - p]
    BY <1>1, <1>2 DEF FirstPart, p
  <2>2. i - p < j - p
    BY <1>1
  <2> QED BY <2>1, <2>2 DEF Sound, InOrder, q
<1>5. ASSUME NEW m \in 0..q PROVE EndsAlike(c, t, m)
  <2>1. ASSUME NEW d \in 0..(m - 1) PROVE c[Len(c) - d] = t[Len(t) - d]
    <3>1. Len(t) - d \in 1..q /\ Len(c) - d = p + (Len(t) - d)
      BY <1>1 DEF q
    <3> QED BY <1>1, <3>1
  <2>2. m <= Len(c) /\ m <= Len(t)
    BY <1>1 DEF q
  <2> QED BY <2>1, <2>2 DEF EndsAlike
<1>6. Ids(t) \subseteq Ids(c)
  <2>1. \A i \in 1..q : p + i \in 1..(p + q)
    BY <1>1
  <2> QED BY <1>1, <2>1 DEF Ids
<1>7. Covered(a) \cup Covered(t) \subseteq Covered(c)
  <2>1. \A i \in 1..q : p + i \in 1..(p + q)
    BY <1>1
  <2>2. \A i \in 1..p : i \in 1..(p + q)
    BY <1>1
  <2>3. \A i \in 1..q : t[i].covers \subseteq Covered(c)
    BY <1>1, <2>1 DEF Covered
  <2>4. \A i \in 1..p : a[i].covers \subseteq Covered(c)
    BY <1>1, <2>2 DEF Covered
  <2> QED BY <1>1, <2>3, <2>4 DEF Covered
<1> QED BY <1>1, <1>3, <1>4, <1>5, <1>6, <1>7 DEF c, p, q, Sound

\* The last messages of a sound sequence are sound, and what is before them is
\* all that is missing.
LEMMA LastOfKeeps ==
    ASSUME NEW n \in Nat, NEW s, Sound(s, n), NEW k \in 0..Len(s)
    PROVE  /\ Sound(LastOf(s, k), n) /\ Len(LastOf(s, k)) = k
           /\ \A m \in 0..k : EndsAlike(LastOf(s, k), s, m)
           /\ Ids(s) = Ids(AllBut(s, k)) \cup Ids(LastOf(s, k))
           /\ Covered(s) = Covered(AllBut(s, k)) \cup Covered(LastOf(s, k))
<1> DEFINE t == LastOf(s, k)  r == AllBut(s, k)  q == Len(s) - k
<1>1. /\ s \in Seq(Message) /\ Len(s) \in Nat /\ k \in Nat /\ q \in Nat /\ q + k = Len(s)
      /\ DOMAIN s = 1..Len(s)
  BY DEF Sound
<1>2. /\ t \in Seq(Message) /\ Len(t) = k /\ DOMAIN t = 1..k
      /\ \A i \in 1..k : t[i] = s[q + i]
  BY <1>1, LastOfIs
<1>3. /\ r \in Seq(Message) /\ Len(r) = q /\ DOMAIN r = 1..q
      /\ \A i \in 1..q : r[i] = s[i]
  <2>1. /\ AllBut(s, k) \in Seq(Message) /\ Len(AllBut(s, k)) = Len(s) - k
        /\ \A i \in 1..(Len(s) - k) : AllBut(s, k)[i] = s[i]
    BY <1>1, AllButIs
  <2>2. DOMAIN AllBut(s, k) = 1..Len(AllBut(s, k))
    BY <2>1
  <2> QED BY <2>1, <2>2
<1> HIDE DEF t, r
<1>4. \A i \in 1..k : q + i \in 1..Len(s)
  BY <1>1
<1>5. \A i \in 1..q : i \in 1..Len(s)
  BY <1>1
<1>6. \A i \in 1..Len(s) : i \in 1..q \/ \E j \in 1..k : i = q + j
  <2> TAKE i \in 1..Len(s)
  <2>1. CASE i <= q
    <3>1. i \in 1..q
      BY <1>1, <2>1
    <3> QED BY <3>1
  <2>2. CASE ~(i <= q)
    <3>1. i - q \in 1..k /\ i = q + (i - q)
      BY <1>1, <2>2
    <3> QED BY <3>1
  <2> QED BY <2>1, <2>2
<1> HIDE DEF q
<1>7. Sound(t, n)
  <2>1. \A i \in 1..Len(t) : SoundMessage(t[i], n)
    BY <1>2, <1>4 DEF Sound
  <2>2. InOrder(t)
    <3> SUFFICES ASSUME NEW i \in 1..k, NEW j \in 1..k, i < j, t[i].id # 0, t[j].id # 0
                 PROVE  t[i].id < t[j].id
      BY <1>2 DEF InOrder
    <3>1. q + i < q + j /\ q + i \in 1..Len(s) /\ q + j \in 1..Len(s)
      BY <1>1, <1>4
    <3> QED BY <1>2, <3>1 DEF Sound, InOrder
  <2> QED BY <1>2, <2>1, <2>2 DEF Sound
<1>8. ASSUME NEW m \in 0..k PROVE EndsAlike(t, s, m)
  <2>1. ASSUME NEW d \in 0..(m - 1) PROVE t[Len(t) - d] = s[Len(s) - d]
    <3>1. k - d \in 1..k /\ q + (k - d) = Len(s) - d
      BY <1>1
    <3> QED BY <1>2, <3>1
  <2>2. m <= Len(t) /\ m <= Len(s)
    BY <1>1, <1>2
  <2> QED BY <2>1, <2>2 DEF EndsAlike
<1>9. Ids(s) = Ids(r) \cup Ids(t)
  <2>1. \A x : x \in Ids(s) <=> x # 0 /\ \E i \in 1..Len(s) : x = s[i].id
    BY <1>1 DEF Ids
  <2>2. \A x : x \in Ids(r) <=> x # 0 /\ \E i \in 1..q : x = r[i].id
    BY <1>3 DEF Ids
  <2>3. \A x : x \in Ids(t) <=> x # 0 /\ \E i \in 1..k : x = t[i].id
    BY <1>2 DEF Ids
  <2>4. \A x \in Ids(s) : x \in Ids(r) \cup Ids(t)
    BY <1>2, <1>3, <1>6, <2>1, <2>2, <2>3
  <2>5. \A x \in Ids(r) : x \in Ids(s)
    BY <1>3, <1>5, <2>1, <2>2
  <2>6. \A x \in Ids(t) : x \in Ids(s)
    BY <1>2, <1>4, <2>1, <2>3
  <2> QED BY <2>4, <2>5, <2>6
<1>10. Covered(s) = Covered(r) \cup Covered(t)
  <2>1. \A x : x \in Covered(s) <=> \E i \in 1..Len(s) : x \in s[i].covers
    BY <1>1 DEF Covered
  <2>2. \A x : x \in Covered(r) <=> \E i \in 1..q : x \in r[i].covers
    BY <1>3 DEF Covered
  <2>3. \A x : x \in Covered(t) <=> \E i \in 1..k : x \in t[i].covers
    BY <1>2 DEF Covered
  <2>4. \A x \in Covered(s) : x \in Covered(r) \cup Covered(t)
    BY <1>2, <1>3, <1>6, <2>1, <2>2, <2>3
  <2>5. ASSUME NEW x \in Covered(r) PROVE x \in Covered(s)
    <3>1. PICK i \in 1..q : x \in r[i].covers
      BY <2>2
    <3> QED BY <1>3, <1>5, <2>1, <3>1
  <2>6. ASSUME NEW x \in Covered(t) PROVE x \in Covered(s)
    <3>1. PICK i \in 1..k : x \in t[i].covers
      BY <2>3
    <3> QED BY <1>2, <1>4, <2>1, <3>1
  <2> QED BY <2>4, <2>5, <2>6
<1> QED BY <1>2, <1>7, <1>8, <1>9, <1>10 DEF t, r

LEMMA SoundCovers ==
    ASSUME NEW n \in Nat, NEW s, Sound(s, n)
    PROVE  Ids(s) \subseteq 1..n /\ Covered(s) \subseteq 1..n
<1>1. DOMAIN s = 1..Len(s) /\ \A i \in 1..Len(s) : SoundMessage(s[i], n)
  BY DEF Sound
<1>2. \A i \in 1..Len(s) : s[i].id \in 0..n /\ s[i].covers \subseteq 1..n
  BY <1>1 DEF SoundMessage
<1>3. Ids(s) \subseteq 1..n
  <2>1. \A x \in 0..n : x = 0 \/ x \in 1..n
    OBVIOUS
  <2> QED BY <1>1, <1>2, <2>1 DEF Ids
<1>4. Covered(s) \subseteq 1..n
  BY <1>1, <1>2 DEF Covered
<1> QED BY <1>3, <1>4

\* A message of the system, and so the preamble and a summary, is a front.
LEMMA SystemIs ==
    ASSUME NEW n \in Nat, NEW text \in Answers \cup {NoText}, NEW tok \in Nat, NEW covers \in SUBSET (1..n)
    PROVE  /\ System(text, tok, covers) \in Message /\ SoundMessage(System(text, tok, covers), n)
           /\ System(text, tok, covers).id = 0 /\ System(text, tok, covers).covers = covers
<1> DEFINE x == System(text, tok, covers)
<1>1. covers \in SUBSET Nat /\ 0 \in 0..n
  OBVIOUS
<1>2. x = [id |-> 0, role |-> "system", text |-> text, call |-> NoCall, tok |-> tok, covers |-> covers]
  BY DEF System
<1> HIDE DEF x
<1>3. x \in Message
  BY <1>1, <1>2 DEF Message, Roles
<1>4. SoundMessage(x, n)
  BY <1>1, <1>2 DEF SoundMessage
<1> QED BY <1>2, <1>3, <1>4 DEF x

LEMMA PreambleIsFront ==
    ASSUME NEW n \in Nat
    PROVE  FirstPart(PreambleMessages, n) /\ Len(PreambleMessages) = Len(Preamble)
<1>1. /\ Preamble \in Seq(Nat) /\ DOMAIN Preamble = 1..Len(Preamble) /\ Len(Preamble) \in Nat
      /\ \A i \in 1..Len(Preamble) : Preamble[i] \in Nat
  BY ContextAssumption
<1>2. \A i \in 1..Len(Preamble) : /\ System(NoText, Preamble[i], {}) \in Message
                                  /\ SoundMessage(System(NoText, Preamble[i], {}), n)
                                  /\ System(NoText, Preamble[i], {}).id = 0
  <2>1. NoText \in Answers \cup {NoText}
    OBVIOUS
  <2> DEFINE none == {}
  <2>2. none \in SUBSET (1..n)
    OBVIOUS
  <2> HIDE DEF none
  <2>3. \A tok \in Nat : /\ System(NoText, tok, none) \in Message
                         /\ SoundMessage(System(NoText, tok, none), n)
                         /\ System(NoText, tok, none).id = 0
    BY <2>1, <2>2, SystemIs
  <2> QED BY <1>1, <2>3 DEF none
<1>3. PreambleMessages = [i \in 1..Len(Preamble) |-> System(NoText, Preamble[i], {})]
  BY <1>1 DEF PreambleMessages
<1>4. PreambleMessages \in Seq(Message) /\ Len(PreambleMessages) = Len(Preamble)
  BY <1>1, <1>2, <1>3
<1> QED BY <1>2, <1>3, <1>4 DEF FirstPart

\* What messages stand for is told to a summarizer or curtailed.
LEMMA ToldOrCurtailed ==
    ASSUME NEW n \in Nat, NEW s \in Seq(Message), Ids(s) \subseteq 1..n, Covered(s) \subseteq 1..n
    PROVE  /\ Told(s) \subseteq 1..n
           /\ Ids(s) \cup Covered(s) \subseteq Told(s) \cup Curtailed(s)
<1>1. \A i \in DOMAIN s : ({s[i].id} \cup s[i].covers) \ {0} \subseteq Ids(s) \cup Covered(s)
  BY DEF Ids, Covered
<1>2. Told(s) \subseteq 1..n
  BY <1>1 DEF Told, StoodFor, Whole
<1>3. ASSUME NEW i \in DOMAIN s, NEW x \in ({s[i].id} \cup s[i].covers) \ {0}
      PROVE  x \in Told(s) \cup Curtailed(s)
  <2>1. i \in Whole(s) \/ i \in DOMAIN s \ Whole(s)
    BY <1>3
  <2> QED BY <1>3, <2>1 DEF Told, Curtailed, StoodFor
<1>4. ASSUME NEW x \in Ids(s) PROVE x \in Told(s) \cup Curtailed(s)
  <2>1. PICK i \in DOMAIN s : x = s[i].id /\ x # 0
    BY <1>4 DEF Ids
  <2> QED BY <1>3, <2>1
<1>5. ASSUME NEW x \in Covered(s) PROVE x \in Told(s) \cup Curtailed(s)
  <2>1. PICK i \in DOMAIN s : x \in s[i].covers
    BY <1>5 DEF Covered
  <2>2. x # 0
    BY <1>5
  <2> QED BY <1>3, <2>1, <2>2
<1> QED BY <1>2, <1>4, <1>5

LEMMA CurtailedOfFirst ==
    ASSUME NEW s \in Seq(Message), NEW k \in 0..Len(s)
    PROVE  Curtailed(AllBut(s, k)) \subseteq Curtailed(s)
<1> DEFINE t == AllBut(s, k)
<1>1. /\ DOMAIN t = 1..(Len(s) - k) /\ DOMAIN s = 1..Len(s)
      /\ \A i \in 1..(Len(s) - k) : t[i] = s[i] /\ i \in 1..Len(s)
  BY AllButIs
<1> HIDE DEF t
<1>2. ASSUME NEW i \in DOMAIN t \ Whole(t)
      PROVE  i \in DOMAIN s \ Whole(s) /\ t[i] = s[i]
  BY <1>1 DEF Whole
<1>3. Curtailed(t) \subseteq Curtailed(s)
  BY <1>2 DEF Curtailed, StoodFor
<1> QED BY <1>3 DEF t

LEMMA SummaryIsFront ==
    ASSUME NEW n \in Nat, NEW s \in Seq(Message), NEW answer \in Answers,
           Ids(s) \subseteq 1..n, Covered(s) \subseteq 1..n
    PROVE  /\ FirstPart(<<Summary(s, answer)>>, n)
           /\ answer # Unavailable => Covered(<<Summary(s, answer)>>) = Told(s)
<1> DEFINE covers == IF answer = Unavailable THEN {} ELSE Told(s)
           x == System(answer, SummaryTok[answer], covers)
<1>1. covers \in SUBSET (1..n) /\ SummaryTok[answer] \in Nat
  BY ContextAssumption, ToldOrCurtailed
<1>2. Summary(s, answer) = x
  BY DEF Summary
<1> HIDE DEF covers
<1>3. x \in Message /\ SoundMessage(x, n) /\ x.id = 0 /\ x.covers = covers
  BY <1>1, SystemIs
<1> HIDE DEF x
<1>4. FirstPart(<<x>>, n)
  <2>1. <<x>> \in Seq(Message) /\ Len(<<x>>) = 1 /\ <<x>>[1] = x
    BY <1>3
  <2>2. \A i \in 1..1 : i = 1
    OBVIOUS
  <2> QED BY <1>3, <2>1, <2>2 DEF FirstPart
<1>5. Covered(<<x>>) = covers
  <2>1. DOMAIN <<x>> = {1} /\ <<x>>[1] = x
    OBVIOUS
  <2> QED BY <1>3, <2>1 DEF Covered
<1> QED BY <1>2, <1>4, <1>5 DEF covers

\* What a strategy owes its caller: a sound conversation that ends with the same
\* n messages.
Owed(r, s, n, m) ==
    /\ Sound(r.messages, m) /\ r.dropped \in Nat
    /\ n <= Len(s) => EndsAlike(r.messages, s, n)
    /\ Len(s) < n => EndsAlike(r.messages, s, Len(s))

\* What a summary is owed besides: nothing it was told is lost.
Holds(r, s) ==
    Ids(s) \cup Covered(s) \subseteq Ids(r.messages) \cup Covered(r.messages) \cup Curtailed(s)

\* The three ways a compaction ends.
LEMMA KeepsAll ==
    ASSUME NEW m \in Nat, NEW s, Sound(s, m), NEW n \in Nat
    PROVE  Owed(Result(s, 0), s, n, m) /\ Holds(Result(s, 0), s)
<1>1. s \in Seq(Message) /\ Len(s) \in Nat /\ (n <= Len(s) => n \in 0..Len(s)) /\ Len(s) \in 0..Len(s)
  BY DEF Sound
<1>2. Result(s, 0).messages = s /\ Result(s, 0).dropped = 0
  BY DEF Result
<1> QED BY <1>1, <1>2, AlikeSelf DEF Owed, Holds

LEMMA KeepsLast ==
    ASSUME NEW m \in Nat, NEW s, Sound(s, m), NEW n \in Nat, NEW k \in 0..Len(s),
           n <= k \/ k = Len(s), NEW a, FirstPart(a, m), NEW dropped \in Nat
    PROVE  /\ Owed(Result(a \o LastOf(s, k), dropped), s, n, m)
           /\ Ids(AllBut(s, k)) \cup Covered(AllBut(s, k)) \subseteq Covered(a) \cup Curtailed(s)
                => Holds(Result(a \o LastOf(s, k), dropped), s)
<1> DEFINE t == LastOf(s, k)  c == a \o t
<1>1. s \in Seq(Message) /\ Len(s) \in Nat /\ k \in Nat /\ k <= Len(s)
  BY DEF Sound
<1>2. /\ Sound(t, m) /\ Len(t) = k /\ \A i \in 0..k : EndsAlike(t, s, i)
      /\ Ids(s) = Ids(AllBut(s, k)) \cup Ids(t)
      /\ Covered(s) = Covered(AllBut(s, k)) \cup Covered(t)
  BY LastOfKeeps
<1> HIDE DEF t
<1>3. /\ Sound(c, m) /\ Len(c) = Len(a) + k /\ \A i \in 0..k : EndsAlike(c, t, i)
      /\ Ids(t) \subseteq Ids(c) /\ Covered(a) \cup Covered(t) \subseteq Covered(c)
  BY <1>2, FrontKeeps
<1> HIDE DEF c
<1>4. ASSUME NEW i \in 0..k PROVE EndsAlike(c, s, i)
  BY <1>2, <1>3 DEF EndsAlike
<1>5. (n <= Len(s) => n \in 0..k) /\ (Len(s) < n => Len(s) \in 0..k)
  BY <1>1
<1>6. Result(c, dropped).messages = c /\ Result(c, dropped).dropped = dropped
  BY DEF Result
<1>7. Owed(Result(c, dropped), s, n, m)
  BY <1>3, <1>4, <1>5, <1>6 DEF Owed
<1>8. ASSUME Ids(AllBut(s, k)) \cup Covered(AllBut(s, k)) \subseteq Covered(a) \cup Curtailed(s)
      PROVE  Holds(Result(c, dropped), s)
  BY <1>2, <1>3, <1>6, <1>8 DEF Holds
<1> QED BY <1>7, <1>8 DEF c, t

\* A preamble, a summary, or both, before the last messages.
LEMMA FrontsOf ==
    ASSUME NEW m \in Nat, NEW s, Sound(s, m), NEW k \in 0..Len(s), NEW answer \in Answers
    PROVE  LET older == AllBut(s, k) IN
           /\ FirstPart(PreambleMessages \o <<Summary(older, answer)>>, m)
           /\ answer # Unavailable =>
                Ids(older) \cup Covered(older)
                  \subseteq Covered(PreambleMessages \o <<Summary(older, answer)>>) \cup Curtailed(s)
           /\ older \in Seq(Message) /\ Len(older) = Len(s) - k
<1> DEFINE older == AllBut(s, k)  a == <<Summary(older, answer)>>  c == PreambleMessages \o a
<1>1. older \in Seq(Message) /\ Len(older) = Len(s) - k /\ s \in Seq(Message)
  BY AllButIs DEF Sound
<1>2. /\ Ids(older) \subseteq 1..m /\ Covered(older) \subseteq 1..m
      /\ Curtailed(older) \subseteq Curtailed(s)
  BY <1>1, SoundCovers, LastOfKeeps, CurtailedOfFirst
<1> HIDE DEF older
<1>3. /\ FirstPart(a, m) /\ (answer # Unavailable => Covered(a) = Told(older))
      /\ Ids(older) \cup Covered(older) \subseteq Told(older) \cup Curtailed(older)
  BY <1>1, <1>2, SummaryIsFront, ToldOrCurtailed
<1> HIDE DEF a
<1>4. Sound(a, m)
  BY <1>3 DEF FirstPart, Sound, InOrder
<1>5. FirstPart(PreambleMessages, m)
  BY PreambleIsFront
<1>6. /\ Sound(c, m) /\ Len(c) = Len(PreambleMessages) + Len(a)
      /\ Covered(a) \subseteq Covered(c)
  BY <1>4, <1>5, FrontKeeps
<1>7. \A i \in 1..Len(c) : c[i].id = 0
  <2>1. /\ PreambleMessages \in Seq(Message) /\ a \in Seq(Message)
    BY <1>3, <1>5 DEF FirstPart
  <2>2. /\ Len(c) = Len(PreambleMessages) + Len(a)
        /\ Len(PreambleMessages) \in Nat /\ Len(a) \in Nat
        /\ \A i \in 1..Len(PreambleMessages) : c[i] = PreambleMessages[i]
        /\ \A i \in 1..Len(a) : c[Len(PreambleMessages) + i] = a[i]
    BY <2>1, ConcatProperties
  <2> HIDE DEF c
  <2> TAKE i \in 1..Len(c)
  <2>3. CASE i <= Len(PreambleMessages)
    <3>1. i \in 1..Len(PreambleMessages)
      BY <2>3
    <3> QED BY <1>5, <2>2, <3>1 DEF FirstPart
  <2>4. CASE ~(i <= Len(PreambleMessages))
    <3>1. /\ i - Len(PreambleMessages) \in 1..Len(a)
          /\ i = Len(PreambleMessages) + (i - Len(PreambleMessages))
      BY <2>2, <2>4
    <3> QED BY <1>3, <2>2, <3>1 DEF FirstPart
  <2> QED BY <2>3, <2>4
<1>8. FirstPart(c, m)
  BY <1>6, <1>7 DEF FirstPart, Sound
<1> QED BY <1>1, <1>2, <1>3, <1>6, <1>8 DEF older, a, c

LEMMA SummaryCompactionOwes ==
    ASSUME NEW m \in Nat, NEW s, Sound(s, m), NEW answer \in Answers
    PROVE  /\ Owed(SummaryCompaction(s, answer), s, KeepRecent, m)
           /\ answer # Unavailable => Holds(SummaryCompaction(s, answer), s)
<1>1. s \in Seq(Message) /\ Len(s) \in Nat /\ KeepRecent \in Nat /\ 0 \in Nat
  BY ContextAssumption DEF Sound
<1>2. CASE Len(s) <= KeepRecent
  <2>1. SummaryCompaction(s, answer) = Result(s, 0)
    BY <1>2 DEF SummaryCompaction
  <2> QED BY <1>1, <2>1, KeepsAll
<1>3. CASE ~(Len(s) <= KeepRecent)
  <2> DEFINE older == AllBut(s, KeepRecent)
  <2>1. KeepRecent \in 0..Len(s)
    BY <1>1, <1>3
  <2>2. CASE Len(older) < MinToSummarize
    <3>1. SummaryCompaction(s, answer) = Result(PreambleMessages \o s, 0)
      BY <1>3, <2>2 DEF SummaryCompaction
    <3>2. Len(s) \in 0..Len(s) /\ LastOf(s, Len(s)) = s /\ AllBut(s, Len(s)) = <<>>
      <4>1. Len(s) \in 0..Len(s)
        BY <1>1
      <4>2. /\ LastOf(s, Len(s)) \in Seq(Message) /\ Len(LastOf(s, Len(s))) = Len(s)
            /\ \A i \in 1..Len(s) : LastOf(s, Len(s))[i] = s[i]
        <5>1. \A i \in 1..Len(s) : Len(s) - Len(s) + i = i
          BY <1>1
        <5> QED BY <1>1, <4>1, <5>1, LastOfIs
      <4>3. AllBut(s, Len(s)) \in Seq(Message) /\ Len(AllBut(s, Len(s))) = 0
        BY <1>1, <4>1, AllButIs
      <4>4. AllBut(s, Len(s)) = <<>>
        BY <4>3, EmptySeq
      <4> QED BY <1>1, <4>1, <4>2, <4>4, SeqEqual
    <3>3. Ids(<<>>) = {} /\ Covered(<<>>) = {}
      BY DEF Ids, Covered
    <3>4. FirstPart(PreambleMessages, m)
      BY PreambleIsFront
    <3> QED BY <1>1, <3>1, <3>2, <3>3, <3>4, KeepsLast
  <2>3. CASE ~(Len(older) < MinToSummarize)
    <3> DEFINE a == PreambleMessages \o <<Summary(older, answer)>>
    <3>1. SummaryCompaction(s, answer) = Result(a \o LastOf(s, KeepRecent), Len(older))
      BY <1>3, <2>3 DEF SummaryCompaction
    <3>2. /\ FirstPart(a, m) /\ Len(older) \in Nat
          /\ answer # Unavailable => Ids(older) \cup Covered(older) \subseteq Covered(a) \cup Curtailed(s)
      BY <1>1, <2>1, FrontsOf
    <3> HIDE DEF a
    <3> QED BY <1>1, <2>1, <3>1, <3>2, KeepsLast
  <2> QED BY <2>2, <2>3
<1> QED BY <1>2, <1>3

LEMMA SlidingWindowOwes ==
    ASSUME NEW m \in Nat, NEW s, Sound(s, m)
    PROVE  Owed(SlidingWindow(s), s, WindowSize, m)
<1>1. s \in Seq(Message) /\ Len(s) \in Nat /\ WindowSize \in Nat /\ 0 \in Nat
  BY ContextAssumption DEF Sound
<1>2. CASE Len(s) <= WindowSize
  <2>1. SlidingWindow(s) = Result(s, 0)
    BY <1>2 DEF SlidingWindow
  <2> QED BY <1>1, <2>1, KeepsAll
<1>3. CASE ~(Len(s) <= WindowSize)
  <2>1. SlidingWindow(s) = Result(PreambleMessages \o LastOf(s, WindowSize), Len(s) - WindowSize)
    BY <1>3 DEF SlidingWindow
  <2>2. WindowSize \in 0..Len(s) /\ Len(s) - WindowSize \in Nat
    BY <1>1, <1>3
  <2>3. FirstPart(PreambleMessages, m)
    BY PreambleIsFront
  <2> QED BY <1>1, <2>1, <2>2, <2>3, KeepsLast
<1> QED BY <1>2, <1>3

\* The loop of TokenBudgetPruning stops somewhere, and not behind the budget
\* unless at its first chance.
LEMMA KeptCountIs ==
    ASSUME NEW s \in Seq(Message), NEW rest \in Int
    PROVE  LET k == KeptCount(s, rest)  least == MinOf(MinRecent, Len(s)) IN
           /\ k \in least..Len(s)
           /\ k = least \/ Tokens(LastOf(s, k)) <= rest
<1> DEFINE least == IF Len(s) < MinRecent THEN Len(s) ELSE MinRecent
           stops(k) == \/ k = Len(s)
                       \/ Tokens(LastOf(s, k)) >= rest
                       \/ Tokens(LastOf(s, k + 1)) > rest
           k == CHOOSE k \in least..Len(s) : stops(k) /\ \A j \in least..(k - 1) : ~stops(j)
           S == {i \in least..Len(s) : stops(i)}
<1>1. /\ Len(s) \in Nat /\ MinRecent \in Nat /\ least \in Nat /\ least <= Len(s)
      /\ least = MinOf(MinRecent, Len(s)) /\ Len(s) \in least..Len(s)
  BY ContextAssumption DEF MinOf
<1>2. S \subseteq Nat /\ S # {}
  BY <1>1
<1>3. PICK i \in S : \A j \in S : i <= j
  <2> HIDE DEF S
  <2> QED BY <1>2, LeastElement
<1>4. /\ i \in least..Len(s) /\ stops(i)
      /\ \A j \in least..(i - 1) : j \in least..Len(s) /\ ~(i <= j)
  BY <1>1, <1>3
<1>5. \A j \in least..(i - 1) : ~stops(j)
  BY <1>3, <1>4
<1>6. KeptCount(s, rest) = k
  BY DEF KeptCount
<1>7. k \in least..Len(s) /\ \A j \in least..(k - 1) : ~stops(j)
  <2> HIDE DEF stops, least
  <2> QED BY <1>4, <1>5
<1> HIDE DEF k
<1>8. ASSUME k # least PROVE Tokens(LastOf(s, k)) <= rest
  <2>1. k - 1 \in least..(k - 1) /\ k - 1 + 1 = k /\ k \in 0..Len(s)
    BY <1>1, <1>7, <1>8
  <2>2. ~(Tokens(LastOf(s, k)) > rest)
    BY <1>7, <2>1
  <2>3. Tokens(LastOf(s, k)) \in Nat
    BY <2>1, LastOfIs, TokensType
  <2> QED BY <2>2, <2>3
<1> QED BY <1>1, <1>6, <1>7, <1>8

LEMMA TokenBudgetOwes ==
    ASSUME NEW m \in Nat, NEW s, Sound(s, m), NEW summarizes \in BOOLEAN, NEW answer \in Answers
    PROVE  LET r == TokenBudget(s, summarizes, answer) IN
           /\ Owed(r, s, MinRecent, m)
           /\ summarizes /\ answer # Unavailable => Holds(r, s)
           /\ ~summarizes =>
                \/ Tokens(r.messages) <= Budget
                \/ Len(r.messages) = Len(Preamble) + MinOf(MinRecent, Len(s))
<1> DEFINE r == TokenBudget(s, summarizes, answer)
<1>1. /\ s \in Seq(Message) /\ Len(s) \in Nat /\ MinRecent \in Nat /\ 0 \in Nat /\ Budget \in Nat
      /\ FirstPart(PreambleMessages, m) /\ PreambleMessages \in Seq(Message)
      /\ Len(PreambleMessages) = Len(Preamble)
  BY ContextAssumption, PreambleIsFront DEF Sound, FirstPart
<1>2. Tokens(s) \in Nat /\ Tokens(PreambleMessages) \in Nat
  BY <1>1, TokensType
<1>3. CASE Tokens(s) <= Budget
  <2>1. r = Result(s, 0)
    BY <1>3 DEF TokenBudget
  <2>2. r.messages = s
    BY <2>1 DEF Result
  <2> QED BY <1>1, <1>3, <2>1, <2>2, KeepsAll
<1>4. CASE ~(Tokens(s) <= Budget)
  <2> DEFINE rest == Budget - Tokens(PreambleMessages)
             k == KeptCount(s, rest)
             pruned == AllBut(s, k)
             summary == IF pruned # <<>> /\ summarizes THEN <<Summary(pruned, answer)>> ELSE <<>>
             a == PreambleMessages \o summary
             t == LastOf(s, k)
  <2>1. r = Result(a \o t, Len(pruned))
    BY <1>4 DEF TokenBudget
  <2>2. rest \in Int
    BY <1>1, <1>2
  <2>3. /\ k \in MinOf(MinRecent, Len(s))..Len(s)
        /\ k = MinOf(MinRecent, Len(s)) \/ Tokens(LastOf(s, k)) <= rest
    <3> HIDE DEF rest
    <3> QED BY <1>1, <2>2, KeptCountIs
  <2> HIDE DEF k, r
  <2>4. k \in 0..Len(s) /\ (MinRecent <= k \/ k = Len(s))
    BY <1>1, <2>3 DEF MinOf
  <2>5. /\ FirstPart(PreambleMessages \o <<Summary(pruned, answer)>>, m)
        /\ answer # Unavailable =>
             Ids(pruned) \cup Covered(pruned)
               \subseteq Covered(PreambleMessages \o <<Summary(pruned, answer)>>) \cup Curtailed(s)
        /\ pruned \in Seq(Message) /\ Len(pruned) \in Nat
    BY <1>1, <2>4, FrontsOf
  <2>6. Ids(<<>>) = {} /\ Covered(<<>>) = {}
    BY DEF Ids, Covered
  <2>7. ASSUME summary = <<>> PROVE a = PreambleMessages
    BY <1>1, <2>7
  <2>8. /\ FirstPart(a, m)
        /\ summarizes /\ answer # Unavailable => Ids(pruned) \cup Covered(pruned) \subseteq Covered(a) \cup Curtailed(s)
    <3>1. CASE pruned # <<>> /\ summarizes
      <4>1. a = PreambleMessages \o <<Summary(pruned, answer)>>
        BY <3>1
      <4> HIDE DEF a, pruned, summary
      <4> QED BY <2>5, <4>1
    <3>2. CASE ~(pruned # <<>> /\ summarizes)
      <4>1. a = PreambleMessages /\ (summarizes => pruned = <<>>)
        BY <2>7, <3>2
      <4> HIDE DEF a, pruned, summary
      <4> QED BY <1>1, <2>6, <4>1
    <3> QED BY <3>1, <3>2
  <2>9. ~summarizes => a = PreambleMessages
    BY <2>7
  <2> HIDE DEF a, pruned, summary
  <2>10. /\ Owed(Result(a \o t, Len(pruned)), s, MinRecent, m)
         /\ summarizes /\ answer # Unavailable => Holds(Result(a \o t, Len(pruned)), s)
    BY <1>1, <2>4, <2>5, <2>8, KeepsLast DEF pruned
  <2>11. /\ t \in Seq(Message) /\ Len(t) = k /\ Tokens(t) \in Nat
    BY <1>1, <2>4, LastOfIs, TokensType
  <2>12. ASSUME ~summarizes
         PROVE  \/ Tokens(r.messages) <= Budget
                \/ Len(r.messages) = Len(Preamble) + MinOf(MinRecent, Len(s))
    <3>1. r.messages = PreambleMessages \o t
      BY <2>1, <2>9, <2>12 DEF Result
    <3>2. CASE k = MinOf(MinRecent, Len(s))
      <4>1. Len(PreambleMessages \o t) = Len(PreambleMessages) + Len(t)
        BY <1>1, <2>11, ConcatProperties
      <4> QED BY <1>1, <2>11, <3>1, <3>2, <4>1
    <3>3. CASE Tokens(t) <= rest
      <4>1. Tokens(PreambleMessages \o t) = Tokens(PreambleMessages) + Tokens(t)
        BY <1>1, <2>11, TokensOfBoth
      <4>2. Tokens(PreambleMessages) + Tokens(t) <= Budget
        BY <1>1, <1>2, <2>11, <3>3
      <4> QED BY <3>1, <4>1, <4>2
    <3> QED BY <2>3, <3>2, <3>3
  <2>13. Owed(r, s, MinRecent, m) /\ (summarizes /\ answer # Unavailable => Holds(r, s))
    BY <2>1, <2>10
  <2> QED BY <2>12, <2>13 DEF r
<1> QED BY <1>3, <1>4


\* t is made of some of the first i messages of s, in their order, and has all
\* of those that are among the last n.
Follows(t, s, i) ==
    /\ t \in Seq(Message) /\ Len(t) <= i /\ InOrder(t)
    /\ \A k \in 1..Len(t) : \E j \in 1..i : t[k] = s[j]

Reaches(t, s, i, n) ==
    \A d \in 0..(i - 1) : i - d > Len(s) - n => d < Len(t) /\ t[Len(t) - d] = s[i - d]

\* One message after the other is kept or, when nothing protects it, left out.
Prunes(kept, s, n) ==
    /\ kept \in [0..Len(s) -> Seq(Message)] /\ kept[0] = <<>>
    /\ \A i \in 1..Len(s) : \/ kept[i] = Append(kept[i - 1], s[i])
                            \/ kept[i] = kept[i - 1] /\ ~Protected(s, i, n)

LEMMA FollowsKept ==
    ASSUME NEW m \in Nat, NEW s, Sound(s, m), NEW i \in 1..Len(s), NEW t, Follows(t, s, i - 1)
    PROVE  Follows(Append(t, s[i]), s, i) /\ Follows(t, s, i)
<1> DEFINE u == Append(t, s[i])
<1>1. /\ s[i] \in Message /\ t \in Seq(Message) /\ i \in Nat /\ i \in 1..i
      /\ Len(t) \in Nat /\ Len(t) <= i - 1
  <2>1. s[i] \in Message
    BY ElementOfSeq DEF Sound
  <2> QED BY <2>1 DEF Follows
<1>2. /\ u \in Seq(Message) /\ Len(u) = Len(t) + 1 /\ u[Len(t) + 1] = s[i]
      /\ \A k \in 1..Len(t) : u[k] = t[k]
  BY <1>1
<1>3. \A j \in 1..(i - 1) : j \in 1..i /\ j \in 1..Len(s) /\ j < i
  BY <1>1
<1>4. \A k \in 1..Len(u) : k \in 1..Len(t) \/ k = Len(t) + 1
  BY <1>1, <1>2
<1> HIDE DEF u
<1>5. \A k \in 1..Len(t) : \E j \in 1..(i - 1) : t[k] = s[j]
  BY DEF Follows
<1>6. \A k \in 1..Len(u) : \E j \in 1..i : u[k] = s[j]
  BY <1>1, <1>2, <1>3, <1>4, <1>5
<1>7. InOrder(u)
  <2> SUFFICES ASSUME NEW k \in 1..Len(u), NEW l \in 1..Len(u), k < l, u[k].id # 0, u[l].id # 0
               PROVE  u[k].id < u[l].id
    BY DEF InOrder
  <2>1. k \in 1..Len(t)
    BY <1>1, <1>2
  <2>2. CASE l \in 1..Len(t)
    BY <1>2, <2>1, <2>2 DEF Follows, InOrder
  <2>3. CASE l = Len(t) + 1
    <3>1. PICK j \in 1..(i - 1) : t[k] = s[j]
      BY <1>5, <2>1
    <3>2. j \in 1..Len(s) /\ j < i /\ u[k] = s[j] /\ u[l] = s[i]
      BY <1>2, <1>3, <2>1, <2>3, <3>1
    <3> QED BY <3>2 DEF Sound, InOrder
  <2> QED BY <1>4, <2>2, <2>3
<1>8. Follows(u, s, i)
  BY <1>1, <1>2, <1>6, <1>7 DEF Follows
<1>9. Follows(t, s, i)
  <2>1. Len(t) <= i
    BY <1>1
  <2> QED BY <1>1, <1>3, <1>5, <2>1 DEF Follows
<1> QED BY <1>8, <1>9 DEF u

LEMMA ReachesKept ==
    ASSUME NEW s \in Seq(Message), NEW n \in Nat, NEW i \in 1..Len(s), NEW t \in Seq(Message),
           Reaches(t, s, i - 1, n)
    PROVE  /\ Reaches(Append(t, s[i]), s, i, n)
           /\ ~Protected(s, i, n) => Reaches(t, s, i, n)
<1> DEFINE u == Append(t, s[i])
<1>1. /\ s[i] \in Message /\ i \in Nat /\ Len(t) \in Nat /\ Len(s) \in Nat
  BY ElementOfSeq
<1>2. /\ u \in Seq(Message) /\ Len(u) = Len(t) + 1 /\ u[Len(t) + 1] = s[i]
      /\ \A k \in 1..Len(t) : u[k] = t[k]
  BY <1>1
<1> HIDE DEF u
<1>3. ASSUME NEW d \in 0..(i - 1), i - d > Len(s) - n
      PROVE  d < Len(u) /\ u[Len(u) - d] = s[i - d]
  <2>1. CASE d = 0
    <3>1. Len(u) - d = Len(t) + 1 /\ i - d = i /\ d < Len(u)
      BY <1>1, <1>2, <2>1
    <3> QED BY <1>2, <3>1
  <2>2. CASE d # 0
    <3>1. d - 1 \in 0..((i - 1) - 1) /\ (i - 1) - (d - 1) = i - d
      BY <1>1, <2>2
    <3>2. d - 1 < Len(t) /\ t[Len(t) - (d - 1)] = s[i - d]
      BY <1>3, <3>1 DEF Reaches
    <3>3. Len(t) - (d - 1) \in 1..Len(t) /\ Len(u) - d = Len(t) - (d - 1) /\ d < Len(u)
      BY <1>1, <1>2, <3>1, <3>2
    <3> QED BY <1>2, <3>2, <3>3
  <2> QED BY <2>1, <2>2
<1>4. ASSUME ~Protected(s, i, n) PROVE Reaches(t, s, i, n)
  <2>1. \A d \in 0..(i - 1) : ~(i - d > Len(s) - n)
    BY <1>1, <1>4 DEF Protected
  <2> QED BY <2>1 DEF Reaches
<1> QED BY <1>3, <1>4 DEF Reaches, u

\* What is kept so far follows and reaches, all the way.
LEMMA PrunesKeeps ==
    ASSUME NEW m \in Nat, NEW s, Sound(s, m), NEW n \in Nat, NEW kept, Prunes(kept, s, n)
    PROVE  \A i \in 0..Len(s) : Follows(kept[i], s, i) /\ Reaches(kept[i], s, i, n)
<1> DEFINE P == {i \in 0..Len(s) : Follows(kept[i], s, i) /\ Reaches(kept[i], s, i, n)}
<1>1. s \in Seq(Message) /\ Len(s) \in Nat
  BY DEF Sound
<1>2. 0 \in P
  <2>1. kept[0] = <<>> /\ 0 \in 0..Len(s)
    BY <1>1 DEF Prunes
  <2>2. Follows(<<>>, s, 0)
    BY DEF Follows, InOrder
  <2>3. Reaches(<<>>, s, 0, n)
    BY DEF Reaches
  <2> QED BY <2>1, <2>2, <2>3
<1>3. ASSUME NEW i \in 1..Len(s), i - 1 \in P PROVE i \in P
  <2>1. i \in 0..Len(s) /\ Follows(kept[i - 1], s, i - 1) /\ Reaches(kept[i - 1], s, i - 1, n)
    BY <1>1, <1>3
  <2>2. kept[i - 1] \in Seq(Message)
    BY <2>1 DEF Follows
  <2>3. /\ Follows(Append(kept[i - 1], s[i]), s, i) /\ Follows(kept[i - 1], s, i)
        /\ Reaches(Append(kept[i - 1], s[i]), s, i, n)
        /\ ~Protected(s, i, n) => Reaches(kept[i - 1], s, i, n)
    BY <1>1, <2>1, <2>2, FollowsKept, ReachesKept
  <2>4. \/ kept[i] = Append(kept[i - 1], s[i])
        \/ kept[i] = kept[i - 1] /\ ~Protected(s, i, n)
    BY DEF Prunes
  <2> QED BY <2>1, <2>3, <2>4
<1> HIDE DEF P
<1>4. \A i \in 0..Len(s) : i \in P
  BY <1>1, <1>2, <1>3, Induction
<1> QED BY <1>4 DEF P

LEMMA PruningOwes ==
    ASSUME NEW m \in Nat, NEW s, Sound(s, m), NEW n \in Nat, NEW kept, Prunes(kept, s, n)
    PROVE  Owed(Result(kept[Len(s)], Len(s) - Len(kept[Len(s)])), s, n, m)
<1> DEFINE t == kept[Len(s)]
<1>1. s \in Seq(Message) /\ Len(s) \in Nat /\ Len(s) \in 0..Len(s)
  BY DEF Sound
<1>2. Follows(t, s, Len(s)) /\ Reaches(t, s, Len(s), n)
  BY <1>1, PrunesKeeps
<1> HIDE DEF t
<1>3. /\ t \in Seq(Message) /\ Len(t) \in Nat /\ Len(t) <= Len(s) /\ InOrder(t)
      /\ \A k \in 1..Len(t) : \E j \in 1..Len(s) : t[k] = s[j]
  BY <1>2 DEF Follows
<1>4. Sound(t, m)
  BY <1>3 DEF Sound
<1>5. ASSUME NEW k \in Nat, k <= n, k <= Len(s) PROVE EndsAlike(t, s, k)
  <2>1. \A d \in 0..(k - 1) : d \in 0..(Len(s) - 1) /\ Len(s) - d > Len(s) - n
    BY <1>1, <1>5
  <2>2. \A d \in 0..(k - 1) : d < Len(t) /\ t[Len(t) - d] = s[Len(s) - d]
    BY <1>2, <2>1 DEF Reaches
  <2>3. k <= Len(t)
    <3>1. CASE k = 0
      BY <1>3, <3>1
    <3>2. CASE k # 0
      <4>1. k - 1 \in 0..(k - 1)
        BY <3>2
      <4>2. k - 1 < Len(t)
        BY <2>2, <4>1
      <4> QED BY <1>3, <4>2
    <3> QED BY <3>1, <3>2
  <2> QED BY <1>5, <2>2, <2>3 DEF EndsAlike
<1>6. Len(s) - Len(t) \in Nat
  BY <1>1, <1>3
<1>7. /\ Result(t, Len(s) - Len(t)).messages = t
      /\ Result(t, Len(s) - Len(t)).dropped = Len(s) - Len(t)
  BY DEF Result
<1>8. (n <= Len(s) => EndsAlike(t, s, n)) /\ (Len(s) < n => EndsAlike(t, s, Len(s)))
  BY <1>1, <1>5
<1> QED BY <1>4, <1>6, <1>7, <1>8 DEF Owed, t

\* Keeping is the last of what is kept at each position.
Keeps(g, s, positions) ==
    /\ g \in [0..Len(s) -> Seq(Message)] /\ g[0] = <<>>
    /\ \A i \in 1..Len(s) :
         g[i] = IF i \in positions THEN Append(g[i - 1], s[i]) ELSE g[i - 1]

LEMMA KeepingIs ==
    ASSUME NEW s \in Seq(Message), NEW positions
    PROVE  \E g : Keeps(g, s, positions) /\ Keeping(s, positions) = g[Len(s)]
<1> DEFINE n == Len(s)  S == Seq(Message)
           step == [i \in 1..n |-> [x \in S |-> IF i \in positions THEN Append(x, s[i]) ELSE x]]
           kept == CHOOSE f : f = [i \in 0..n |->
                     IF i = 0 THEN <<>>
                     ELSE IF i \in positions THEN Append(f[i - 1], s[i]) ELSE f[i - 1]]
<1>1. n \in Nat /\ <<>> \in S /\ \A i \in 1..n : s[i] \in Message
  BY ElementOfSeq
<1>2. \A i \in 1..n, x \in S : Append(x, s[i]) \in S
  BY <1>1
<1>3. /\ \A i \in 1..n, x \in S : step[i][x] = IF i \in positions THEN Append(x, s[i]) ELSE x
      /\ Steps(step, n, S)
  BY <1>2 DEF Steps
<1>4. PICK g : Goes(g, n, S, <<>>, step)
  <2> HIDE DEF step, n, S
  <2> QED BY <1>1, <1>3, Recursion
<1>5. /\ g \in [0..n -> S] /\ g[0] = <<>> /\ n \in 0..n
      /\ \A i \in 1..n : i - 1 \in 0..n /\ i \in 0..n /\ i # 0
      /\ \A i \in 1..n : g[i] = IF i \in positions THEN Append(g[i - 1], s[i]) ELSE g[i - 1]
  <2>1. \A i \in 1..n : i - 1 \in 0..n /\ i \in 0..n /\ i # 0
    BY <1>1
  <2> HIDE DEF step, n, S
  <2>2. g \in [0..n -> S] /\ g[0] = <<>> /\ \A i \in 1..n : g[i] = step[i][g[i - 1]]
    BY <1>4 DEF Goes
  <2>3. \A i \in 1..n : g[i - 1] \in S
    BY <2>1, <2>2
  <2>4. \A i \in 1..n : g[i] = IF i \in positions THEN Append(g[i - 1], s[i]) ELSE g[i - 1]
    BY <1>3, <2>2, <2>3
  <2>5. n \in 0..n
    BY <1>1
  <2> QED BY <2>1, <2>2, <2>4, <2>5
<1>6. g = [i \in 0..n |-> IF i = 0 THEN <<>>
             ELSE IF i \in positions THEN Append(g[i - 1], s[i]) ELSE g[i - 1]]
  <2>1. \A i \in 0..n : i = 0 \/ i \in 1..n
    BY <1>1
  <2> HIDE DEF n, S
  <2>2. \A i \in 0..n : g[i] = IF i = 0 THEN <<>>
             ELSE IF i \in positions THEN Append(g[i - 1], s[i]) ELSE g[i - 1]
    BY <1>5, <2>1
  <2> QED BY <1>5, <2>2
<1>7. kept = [i \in 0..n |-> IF i = 0 THEN <<>>
             ELSE IF i \in positions THEN Append(kept[i - 1], s[i]) ELSE kept[i - 1]]
  BY <1>6
<1>8. Keeping(s, positions) = kept[n]
  BY DEF Keeping
<1> HIDE DEF kept, n, S
<1>9. \A i \in 0..n : kept[i] = g[i]
  <2> DEFINE P == {i \in 0..n : kept[i] = g[i]}
  <2>1. 0 \in P
    BY <1>1, <1>5, <1>7
  <2>2. \A i \in 1..n : i - 1 \in P => i \in P
    BY <1>5, <1>7
  <2> HIDE DEF P
  <2>3. \A i \in 0..n : i \in P
    BY <1>1, <2>1, <2>2, Induction
  <2> QED BY <2>3 DEF P
<1>10. Keeping(s, positions) = g[n]
  BY <1>5, <1>8, <1>9
<1> QED BY <1>5, <1>10 DEF Keeps, n, S

LEMMA RelevancePruningOwes ==
    ASSUME NEW m \in Nat, NEW s, Sound(s, m)
    PROVE  Owed(RelevancePruning(s), s, ProtectRelevant, m)
<1>1. s \in Seq(Message) /\ DOMAIN s = 1..Len(s) /\ ProtectRelevant \in Nat
  BY ContextAssumption DEF Sound
<1>2. CASE Spoken(s) = {}
  <2>1. RelevancePruning(s) = Result(s, 0)
    BY <1>2 DEF RelevancePruning
  <2> QED BY <1>1, <2>1, KeepsAll
<1>3. CASE Spoken(s) # {}
  <2> DEFINE anchor == s[Max(Spoken(s))].text
             relevant == {i \in DOMAIN s :
                \/ Protected(s, i, ProtectRelevant)
                \/ s[i].text = NoText /\ s[i].call # NoCall
                \/ s[i].text # NoText /\ Len(s) - i <= FadesAfter[<<anchor, s[i].text>>]}
             t == Keeping(s, relevant)
  <2>1. RelevancePruning(s) = Result(t, Len(s) - Len(t))
    BY <1>3 DEF RelevancePruning
  <2>2. \A i \in 1..Len(s) : Protected(s, i, ProtectRelevant) => i \in relevant
    BY <1>1
  <2> HIDE DEF relevant
  <2>3. PICK g : Keeps(g, s, relevant) /\ t = g[Len(s)]
    BY <1>1, KeepingIs
  <2> HIDE DEF t
  <2>4. Prunes(g, s, ProtectRelevant)
    BY <2>2, <2>3 DEF Prunes, Keeps
  <2>5. Owed(Result(g[Len(s)], Len(s) - Len(g[Len(s)])), s, ProtectRelevant, m)
    BY <1>1, <2>4, PruningOwes
  <2> QED BY <2>1, <2>3, <2>5
<1> QED BY <1>2, <1>3

\* Duplicate pruning: what is kept, the call and the content it compares with.
Accs(s) == [kept : Seq(Message), sig : {<<>>} \cup {<<s[i].call>> : i \in 1..Len(s)},
            user : {<<>>} \cup {<<s[i].text>> : i \in 1..Len(s)}]

Dedups(g, s) == /\ g \in [0..Len(s) -> Accs(s)] /\ g[0] = Untracked
                /\ \A i \in 1..Len(s) : g[i] = DuplicateStep(s, g[i - 1], i)

LEMMA DuplicateStepCases ==
    ASSUME NEW s, NEW acc, NEW i, NEW r, r = DuplicateStep(s, acc, i)
    PROVE  \/ r = [kept |-> Append(acc.kept, s[i]), sig |-> <<>>, user |-> <<>>]
           \/ ~Protected(s, i, ProtectDuplicate) /\ r = acc
              /\ \/ IsEmptyTurn(s[i])
                 \/ s[i].role = "user" /\ acc.user = <<s[i].text>>
                 \/ IsCallOnly(s[i]) /\ acc.sig = <<s[i].call>>
           \/ s[i].role = "user"
              /\ r = [kept |-> Append(acc.kept, s[i]), sig |-> <<>>, user |-> <<s[i].text>>]
           \/ IsCallOnly(s[i])
              /\ r = [kept |-> Append(acc.kept, s[i]), sig |-> <<s[i].call>>, user |-> acc.user]
<1> DEFINE msg == s[i]
           plain == [kept |-> Append(acc.kept, msg), sig |-> <<>>, user |-> <<>>]
           asked == [kept |-> Append(acc.kept, msg), sig |-> <<>>, user |-> <<msg.text>>]
           called == [kept |-> Append(acc.kept, msg), sig |-> <<msg.call>>, user |-> acc.user]
           sameUser == acc.user = <<msg.text>>
           sameCall == acc.sig = <<msg.call>>
<1>1. r = IF Protected(s, i, ProtectDuplicate) THEN plain
          ELSE CASE IsEmptyTurn(msg) -> acc
                 [] msg.role = "user" -> IF sameUser THEN acc ELSE asked
                 [] IsCallOnly(msg) -> IF sameCall THEN acc ELSE called
                 [] OTHER -> plain
  BY Zenon DEF DuplicateStep
<1>2. /\ IsEmptyTurn(msg) => msg.role # "user" /\ ~IsCallOnly(msg)
      /\ IsCallOnly(msg) => msg.role # "user"
  BY DEF IsEmptyTurn, IsCallOnly
<1> HIDE DEF plain, asked, called, sameUser, sameCall
<1>3. \/ r = plain
      \/ ~Protected(s, i, ProtectDuplicate) /\ r = acc
         /\ \/ IsEmptyTurn(msg)
            \/ msg.role = "user" /\ sameUser
            \/ IsCallOnly(msg) /\ sameCall
      \/ msg.role = "user" /\ r = asked
      \/ IsCallOnly(msg) /\ r = called
  BY <1>1, <1>2
<1> QED BY <1>3, Zenon DEF plain, asked, called, sameUser, sameCall

LEMMA DuplicateStepKept ==
    ASSUME NEW s, NEW acc, NEW i, NEW r, r = DuplicateStep(s, acc, i)
    PROVE  \/ r.kept = Append(acc.kept, s[i])
           \/ r = acc /\ ~Protected(s, i, ProtectDuplicate)
<1> DEFINE more == Append(acc.kept, s[i])
<1>1. \/ r = [kept |-> more, sig |-> <<>>, user |-> <<>>]
      \/ r = acc /\ ~Protected(s, i, ProtectDuplicate)
      \/ r = [kept |-> more, sig |-> <<>>, user |-> <<s[i].text>>]
      \/ r = [kept |-> more, sig |-> <<s[i].call>>, user |-> acc.user]
  BY DuplicateStepCases
<1> HIDE DEF more
<1>2. r.kept = more \/ (r = acc /\ ~Protected(s, i, ProtectDuplicate))
  BY <1>1
<1> QED BY <1>2 DEF more

LEMMA DuplicateStepType ==
    ASSUME NEW s \in Seq(Message), NEW acc \in Accs(s), NEW i \in 1..Len(s)
    PROVE  DuplicateStep(s, acc, i) \in Accs(s)
<1> DEFINE r == DuplicateStep(s, acc, i)
           Sigs == {<<>>} \cup {<<s[j].call>> : j \in 1..Len(s)}
           Users == {<<>>} \cup {<<s[j].text>> : j \in 1..Len(s)}
<1>1. Accs(s) = [kept : Seq(Message), sig : Sigs, user : Users]
  BY DEF Accs
<1>2. <<>> \in Sigs /\ <<>> \in Users /\ <<s[i].call>> \in Sigs /\ <<s[i].text>> \in Users
  OBVIOUS
<1> HIDE DEF Sigs, Users
<1>3. /\ acc \in [kept : Seq(Message), sig : Sigs, user : Users]
      /\ acc.kept \in Seq(Message) /\ acc.user \in Users /\ s[i] \in Message
  BY <1>1, ElementOfSeq
<1>4. Append(acc.kept, s[i]) \in Seq(Message)
  BY <1>3
<1> DEFINE keep == Append(acc.kept, s[i])
<1> HIDE DEF keep, r
<1>5. \/ r = [kept |-> keep, sig |-> <<>>, user |-> <<>>]
      \/ r = acc
      \/ r = [kept |-> keep, sig |-> <<>>, user |-> <<s[i].text>>]
      \/ r = [kept |-> keep, sig |-> <<s[i].call>>, user |-> acc.user]
  BY DuplicateStepCases DEF keep, r
<1>6. keep \in Seq(Message)
  BY <1>4 DEF keep
<1> QED BY <1>1, <1>2, <1>3, <1>5, <1>6 DEF r

LEMMA DuplicatePruningIs ==
    ASSUME NEW s \in Seq(Message)
    PROVE  \E g : /\ Dedups(g, s)
                  /\ Len(s) >= 2 => DuplicatePruning(s)
                       = Result(g[Len(s)].kept, Len(s) - Len(g[Len(s)].kept))
<1> DEFINE n == Len(s)  S == Accs(s)
           step == [i \in 1..n |-> [x \in S |-> DuplicateStep(s, x, i)]]
           acc == CHOOSE f : f = [i \in 0..n |->
                    IF i = 0 THEN Untracked ELSE DuplicateStep(s, f[i - 1], i)]
<1>1. n \in Nat /\ Untracked \in S
  BY DEF Untracked, Accs
<1>2. /\ \A i \in 1..n, x \in S : step[i][x] = DuplicateStep(s, x, i)
      /\ Steps(step, n, S)
  <2>1. \A i \in 1..n, x \in S : DuplicateStep(s, x, i) \in S
    BY DuplicateStepType
  <2>2. \A i \in 1..n, x \in S : step[i][x] = DuplicateStep(s, x, i)
    OBVIOUS
  <2> HIDE DEF step, S, n
  <2> QED BY <2>1, <2>2 DEF Steps
<1>3. PICK g : Goes(g, n, S, Untracked, step)
  <2> HIDE DEF step, n, S
  <2> QED BY <1>1, <1>2, Recursion
<1>4. /\ g \in [0..n -> S] /\ g[0] = Untracked /\ n \in 0..n
      /\ \A i \in 1..n : i - 1 \in 0..n /\ i \in 0..n /\ i # 0
      /\ \A i \in 1..n : g[i] = DuplicateStep(s, g[i - 1], i)
  <2>1. \A i \in 1..n : i - 1 \in 0..n /\ i \in 0..n /\ i # 0
    BY <1>1
  <2> HIDE DEF step, n, S
  <2>2. g \in [0..n -> S] /\ g[0] = Untracked /\ \A i \in 1..n : g[i] = step[i][g[i - 1]]
    BY <1>3 DEF Goes
  <2>3. \A i \in 1..n : g[i - 1] \in S
    BY <2>1, <2>2
  <2>4. \A i \in 1..n : g[i] = DuplicateStep(s, g[i - 1], i)
    BY <1>2, <2>2, <2>3
  <2>5. n \in 0..n
    BY <1>1
  <2> QED BY <2>1, <2>2, <2>4, <2>5
<1>5. g = [i \in 0..n |-> IF i = 0 THEN Untracked ELSE DuplicateStep(s, g[i - 1], i)]
  <2>1. \A i \in 0..n : i = 0 \/ i \in 1..n
    BY <1>1
  <2> HIDE DEF n, S
  <2>2. \A i \in 0..n : g[i] = IF i = 0 THEN Untracked ELSE DuplicateStep(s, g[i - 1], i)
    BY <1>4, <2>1
  <2> QED BY <1>4, <2>2
<1>6. acc = [i \in 0..n |-> IF i = 0 THEN Untracked ELSE DuplicateStep(s, acc[i - 1], i)]
  BY <1>5
<1>7. Len(s) >= 2 => DuplicatePruning(s) = Result(acc[n].kept, Len(s) - Len(acc[n].kept))
  BY DEF DuplicatePruning
<1> HIDE DEF acc, n, S
<1>8. \A i \in 0..n : acc[i] = g[i]
  <2> DEFINE P == {i \in 0..n : acc[i] = g[i]}
  <2>1. 0 \in P
    BY <1>1, <1>4, <1>6
  <2>2. \A i \in 1..n : i - 1 \in P => i \in P
    BY <1>4, <1>6
  <2> HIDE DEF P
  <2>3. \A i \in 0..n : i \in P
    BY <1>1, <2>1, <2>2, Induction
  <2> QED BY <2>3 DEF P
<1>9. acc[n] = g[n]
  BY <1>4, <1>8
<1>10. Dedups(g, s)
  BY <1>4 DEF Dedups, n, S
<1> QED BY <1>7, <1>9, <1>10 DEF n

\* A message that says the same and is no younger.
Stands(kept, msg) ==
    kept.id <= msg.id /\ kept.role = msg.role /\ kept.text = msg.text /\ kept.call = msg.call

\* The content and the call compared with are those of messages that are kept,
\* and every message so far is kept, said nothing or has one that stands for it.
Tracks(acc, s, i) ==
    /\ acc.user # <<>> => \E h \in 1..Len(acc.kept) :
          acc.kept[h].role = "user" /\ acc.user = <<acc.kept[h].text>>
    /\ acc.sig # <<>> => \E h \in 1..Len(acc.kept) :
          IsCallOnly(acc.kept[h]) /\ acc.sig = <<acc.kept[h].call>>
    /\ \A j \in 1..i : \/ IsEmptyTurn(s[j])
                       \/ \E h \in 1..Len(acc.kept) : Stands(acc.kept[h], s[j])

LEMMA TracksStep ==
    ASSUME NEW m \in Nat, NEW s, Sound(s, m), NEW i \in 1..Len(s), NEW acc \in Accs(s),
           Follows(acc.kept, s, i - 1), Tracks(acc, s, i - 1)
    PROVE  Tracks(DuplicateStep(s, acc, i), s, i)
<1> DEFINE r == DuplicateStep(s, acc, i)  keep == Append(acc.kept, s[i])
<1>1. /\ s \in Seq(Message) /\ s[i] \in Message /\ acc.kept \in Seq(Message)
      /\ Len(acc.kept) \in Nat
      /\ \A j \in 1..i : j \in 1..(i - 1) \/ j = i
  <2>1. s \in Seq(Message) /\ s[i] \in Message /\ acc.kept \in Seq(Message)
    BY ElementOfSeq DEF Sound, Accs
  <2> QED BY <2>1
<1>2. /\ keep \in Seq(Message) /\ Len(keep) = Len(acc.kept) + 1 /\ keep[Len(acc.kept) + 1] = s[i]
      /\ \A k \in 1..Len(acc.kept) : keep[k] = acc.kept[k]
      /\ Len(acc.kept) + 1 \in 1..Len(keep)
      /\ \A k \in 1..Len(acc.kept) : k \in 1..Len(keep)
  BY <1>1
<1> HIDE DEF keep, r
<1>3. Stands(s[i], s[i])
  BY <1>1 DEF Stands, Message
<1>4. \A j \in 1..i : \/ IsEmptyTurn(s[j])
                      \/ \E h \in 1..Len(keep) : Stands(keep[h], s[j])
  <2> TAKE j \in 1..i
  <2>1. CASE j = i
    BY <1>2, <1>3, <2>1
  <2>2. CASE j \in 1..(i - 1)
    <3>1. IsEmptyTurn(s[j]) \/ \E h \in 1..Len(acc.kept) : Stands(acc.kept[h], s[j])
      BY <2>2 DEF Tracks
    <3> QED BY <1>2, <3>1
  <2> QED BY <1>1, <2>1, <2>2
<1>5. ASSUME NEW h \in 1..Len(acc.kept), acc.kept[h].id # 0, s[i].id # 0
      PROVE  acc.kept[h].id <= s[i].id
  <2>1. PICK j \in 1..(i - 1) : acc.kept[h] = s[j]
    BY DEF Follows
  <2>2. j \in 1..Len(s) /\ j < i
    BY <1>1
  <2>3. s[j].id < s[i].id
    BY <1>5, <2>1, <2>2 DEF Sound, InOrder
  <2>4. s[j] \in Message
    BY <1>1, <2>2, ElementOfSeq
  <2>5. s[j].id \in Nat /\ s[i].id \in Nat
    BY <1>1, <2>4 DEF Message
  <2> QED BY <2>1, <2>3, <2>5
<1>6. \A h \in 1..Len(acc.kept) : SoundMessage(acc.kept[h], m)
  <2> TAKE h \in 1..Len(acc.kept)
  <2>1. PICK j \in 1..(i - 1) : acc.kept[h] = s[j]
    BY DEF Follows
  <2>2. j \in 1..Len(s)
    BY <1>1
  <2> QED BY <2>1, <2>2 DEF Sound
<1>7. SoundMessage(s[i], m)
  BY DEF Sound
<1>8. CASE r = [kept |-> keep, sig |-> <<>>, user |-> <<>>]
  BY <1>4, <1>8 DEF Tracks, r
<1>9. CASE /\ r = acc
           /\ \/ IsEmptyTurn(s[i])
              \/ s[i].role = "user" /\ acc.user = <<s[i].text>>
              \/ IsCallOnly(s[i]) /\ acc.sig = <<s[i].call>>
  <2>1. IsEmptyTurn(s[i]) \/ \E h \in 1..Len(acc.kept) : Stands(acc.kept[h], s[i])
    <3>1. CASE s[i].role = "user" /\ acc.user = <<s[i].text>>
      <4>1. acc.user # <<>>
        BY <3>1
      <4>2. PICK h \in 1..Len(acc.kept) : acc.kept[h].role = "user" /\ acc.user = <<acc.kept[h].text>>
        BY <4>1 DEF Tracks
      <4>3. acc.kept[h].text = s[i].text
        BY <3>1, <4>2
      <4>4. acc.kept[h].call = NoCall /\ s[i].call = NoCall /\ acc.kept[h].id # 0 /\ s[i].id # 0
        BY <1>6, <1>7, <3>1, <4>2 DEF SoundMessage
      <4> QED BY <1>5, <3>1, <4>2, <4>3, <4>4 DEF Stands
    <3>2. CASE IsCallOnly(s[i]) /\ acc.sig = <<s[i].call>>
      <4>1. acc.sig # <<>>
        BY <3>2
      <4>2. PICK h \in 1..Len(acc.kept) : IsCallOnly(acc.kept[h]) /\ acc.sig = <<acc.kept[h].call>>
        BY <4>1 DEF Tracks
      <4>3. /\ acc.kept[h].call = s[i].call /\ acc.kept[h].text = s[i].text
            /\ acc.kept[h].role = "assistant" /\ s[i].role = "assistant"
        BY <3>2, <4>2 DEF IsCallOnly
      <4>4. acc.kept[h].id # 0 /\ s[i].id # 0
        BY <1>6, <1>7, <4>3 DEF SoundMessage
      <4> QED BY <1>5, <4>3, <4>4 DEF Stands
    <3> QED BY <1>9, <3>1, <3>2
  <2>2. \A j \in 1..i : IsEmptyTurn(s[j]) \/ \E h \in 1..Len(acc.kept) : Stands(acc.kept[h], s[j])
    BY <1>1, <2>1 DEF Tracks
  <2> QED BY <1>9, <2>2 DEF Tracks, r
<1>10. CASE s[i].role = "user" /\ r = [kept |-> keep, sig |-> <<>>, user |-> <<s[i].text>>]
  <2>1. \E h \in 1..Len(keep) : keep[h].role = "user" /\ <<s[i].text>> = <<keep[h].text>>
    BY <1>2, <1>10
  <2> QED BY <1>4, <1>10, <2>1 DEF Tracks, r
<1>11. CASE IsCallOnly(s[i]) /\ r = [kept |-> keep, sig |-> <<s[i].call>>, user |-> acc.user]
  <2>1. \E h \in 1..Len(keep) : IsCallOnly(keep[h]) /\ <<s[i].call>> = <<keep[h].call>>
    BY <1>2, <1>11
  <2>2. acc.user # <<>> => \E h \in 1..Len(keep) :
          keep[h].role = "user" /\ acc.user = <<keep[h].text>>
    BY <1>2 DEF Tracks
  <2> QED BY <1>4, <1>11, <2>1, <2>2 DEF Tracks, r
<1> QED BY <1>8, <1>9, <1>10, <1>11, DuplicateStepCases DEF r, keep

LEMMA DuplicatePruningOwes ==
    ASSUME NEW m \in Nat, NEW s, Sound(s, m)
    PROVE  LET r == DuplicatePruning(s) IN
           /\ Owed(r, s, ProtectDuplicate, m)
           /\ \A i \in 1..Len(s) :
                \/ IsEmptyTurn(s[i])
                \/ \E h \in 1..Len(r.messages) : Stands(r.messages[h], s[i])
<1> DEFINE r == DuplicatePruning(s)  n == ProtectDuplicate
<1>1. s \in Seq(Message) /\ n \in Nat /\ Len(s) \in Nat /\ Len(s) \in 0..Len(s) /\ 0 \in 0..Len(s)
  BY ContextAssumption DEF Sound
<1>2. CASE Len(s) < 2
  <2>1. r = Result(s, 0)
    BY <1>2 DEF DuplicatePruning
  <2>2. Result(s, 0).messages = s
    BY DEF Result
  <2>3. \A i \in 1..Len(s) : Stands(s[i], s[i])
    <3>1. \A i \in 1..Len(s) : s[i] \in Message
      BY <1>1, ElementOfSeq
    <3> QED BY <3>1 DEF Stands, Message
  <2> QED BY <1>1, <2>1, <2>2, <2>3, KeepsAll
<1>3. CASE ~(Len(s) < 2)
  <2>1. PICK g : /\ Dedups(g, s)
                 /\ Len(s) >= 2 => r = Result(g[Len(s)].kept, Len(s) - Len(g[Len(s)].kept))
    BY <1>1, DuplicatePruningIs
  <2> DEFINE kept == [i \in 0..Len(s) |-> g[i].kept]
  <2>2. \A i \in 1..Len(s) : i - 1 \in 0..Len(s) /\ i \in 0..Len(s)
    BY <1>1
  <2>3. \A i \in 0..Len(s) : g[i] \in Accs(s) /\ kept[i] = g[i].kept /\ kept[i] \in Seq(Message)
    BY <2>1 DEF Dedups, Accs
  <2>4. kept[0] = <<>> /\ kept \in [0..Len(s) -> Seq(Message)]
    <3>1. g[0].kept = <<>>
      BY <2>1 DEF Dedups, Untracked
    <3> QED BY <1>1, <2>3, <3>1
  <2> HIDE DEF kept, r
  <2>5. Prunes(kept, s, n)
    <3>1. ASSUME NEW i \in 1..Len(s)
          PROVE  \/ kept[i] = Append(kept[i - 1], s[i])
                 \/ kept[i] = kept[i - 1] /\ ~Protected(s, i, n)
      <4> DEFINE x == g[i]  y == g[i - 1]
      <4>1. x = DuplicateStep(s, y, i)
        BY <2>1 DEF Dedups
      <4> HIDE DEF x, y
      <4>2. \/ x.kept = Append(y.kept, s[i])
            \/ x = y /\ ~Protected(s, i, n)
        BY <4>1, DuplicateStepKept
      <4> USE DEF x, y
      <4> QED BY <2>2, <2>3, <4>2
    <3> QED BY <2>4, <3>1 DEF Prunes
  <2>6. \A i \in 0..Len(s) : Follows(kept[i], s, i)
    BY <1>1, <2>5, PrunesKeeps
  <2> DEFINE P == {i \in 0..Len(s) : Tracks(g[i], s, i)}
  <2>7. 0 \in P
    <3>1. g[0] = Untracked
      BY <2>1 DEF Dedups
    <3>2. Tracks(Untracked, s, 0)
      BY DEF Tracks, Untracked
    <3> QED BY <1>1, <3>1, <3>2
  <2>8. \A i \in 1..Len(s) : i - 1 \in P => i \in P
    <3> TAKE i \in 1..Len(s)
    <3> HAVE i - 1 \in P
    <3>1. g[i] = DuplicateStep(s, g[i - 1], i)
      BY <2>1 DEF Dedups
    <3>2. g[i - 1] \in Accs(s) /\ Follows(g[i - 1].kept, s, i - 1) /\ Tracks(g[i - 1], s, i - 1)
      BY <2>2, <2>3, <2>6
    <3>3. Tracks(g[i], s, i)
      BY <3>1, <3>2, TracksStep
    <3> QED BY <2>2, <3>3
  <2> HIDE DEF P
  <2>9. \A i \in 0..Len(s) : i \in P
    BY <1>1, <2>7, <2>8, Induction
  <2>10. Tracks(g[Len(s)], s, Len(s))
    BY <1>1, <2>9 DEF P
  <2>11. r = Result(kept[Len(s)], Len(s) - Len(kept[Len(s)]))
    <3>1. Len(s) >= 2 /\ kept[Len(s)] = g[Len(s)].kept
      BY <1>1, <1>3, <2>3
    <3> QED BY <2>1, <3>1
  <2>12. r.messages = g[Len(s)].kept
    BY <1>1, <2>3, <2>11 DEF Result
  <2>13. Owed(r, s, n, m)
    BY <1>1, <2>5, <2>11, PruningOwes
  <2>14. \A i \in 1..Len(s) :
                \/ IsEmptyTurn(s[i])
                \/ \E h \in 1..Len(r.messages) : Stands(r.messages[h], s[i])
    BY <2>10, <2>12 DEF Tracks
  <2> QED BY <2>13, <2>14 DEF r
<1> QED BY <1>2, <1>3

\* Duplicates first, then what is not relevant.
LEMMA CompositeOwes ==
    ASSUME NEW m \in Nat, NEW s, Sound(s, m)
    PROVE  Owed(Composite(s), s, MinOf(ProtectDuplicate, ProtectRelevant), m)
<1> DEFINE first == DuplicatePruning(s)  t == first.messages
           second == RelevancePruning(t)  u == second.messages
           n == MinOf(ProtectDuplicate, ProtectRelevant)
<1>1. /\ s \in Seq(Message) /\ Len(s) \in Nat
      /\ ProtectDuplicate \in Nat /\ ProtectRelevant \in Nat
      /\ n \in Nat /\ n <= ProtectDuplicate /\ n <= ProtectRelevant
  BY ContextAssumption DEF Sound, MinOf
<1>2. Owed(first, s, ProtectDuplicate, m)
  BY DuplicatePruningOwes
<1>3. Sound(t, m) /\ Len(t) \in Nat
  BY <1>2 DEF Owed, Sound
<1> HIDE DEF first, t
<1>4. Owed(second, t, ProtectRelevant, m)
  BY <1>3, RelevancePruningOwes
<1>5. /\ Composite(s).messages = u
      /\ Composite(s).dropped = first.dropped + second.dropped
  BY DEF Composite, Result, first, t
<1>6. Sound(u, m) /\ first.dropped + second.dropped \in Nat
  <2> HIDE DEF second
  <2> QED BY <1>2, <1>4 DEF Owed
<1> HIDE DEF second, n
<1>7. ASSUME NEW k \in Nat, k <= n, k <= Len(s) PROVE EndsAlike(u, s, k)
  <2>1. \A d \in 0..(k - 1) : t[Len(t) - d] = s[Len(s) - d]
    BY <1>1, <1>2, <1>7 DEF Owed, EndsAlike, t
  <2>2. k <= Len(t)
    BY <1>1, <1>2, <1>3, <1>7 DEF Owed, EndsAlike, t
  <2>3. k <= Len(u) /\ \A d \in 0..(k - 1) : u[Len(u) - d] = t[Len(t) - d]
    <3>1. \A d \in 0..(k - 1) : d \in 0..(Len(t) - 1) /\ d \in 0..(ProtectRelevant - 1)
      BY <1>1, <1>3, <1>7, <2>2
    <3>2. Len(u) \in Nat
      BY <1>6 DEF Sound
    <3>3. CASE ProtectRelevant <= Len(t)
      BY <1>1, <1>3, <1>4, <1>7, <3>1, <3>2, <3>3 DEF Owed, EndsAlike
    <3>4. CASE Len(t) < ProtectRelevant
      BY <1>1, <1>3, <1>4, <1>7, <2>2, <3>1, <3>2, <3>4 DEF Owed, EndsAlike
    <3> QED BY <1>1, <1>3, <3>3, <3>4
  <2> QED BY <1>7, <2>1, <2>3 DEF EndsAlike
<1>8. (n <= Len(s) => EndsAlike(u, s, n)) /\ (Len(s) < n => EndsAlike(u, s, Len(s)))
  BY <1>1, <1>7
<1> QED BY <1>5, <1>6, <1>8 DEF Owed, n

LEMMA ShrunkOwes ==
    ASSUME NEW m \in Nat, NEW s, Sound(s, m), NEW op \in Shrinks, NEW answer \in Answers
    PROVE  LET r == Shrunk(op, s, answer) IN
           /\ Owed(r, s, TailSize(op), m)
           /\ answer # Unavailable /\ op \in Summarizing => Holds(r, s)
           /\ op = "budget" =>
                \/ Tokens(r.messages) <= Budget
                \/ Len(r.messages) = Len(Preamble) + MinOf(MinRecent, Len(s))
           /\ op = "duplicate" => \A i \in 1..Len(s) :
                \/ IsEmptyTurn(s[i])
                \/ \E h \in 1..Len(r.messages) : Stands(r.messages[h], s[i])
<1>1. CASE op = "summary"
  <2>1. Shrunk(op, s, answer) = SummaryCompaction(s, answer) /\ TailSize(op) = KeepRecent
    BY <1>1 DEF Shrunk, TailSize
  <2> QED BY <1>1, <2>1, SummaryCompactionOwes
<1>2. CASE op = "sliding"
  <2>1. Shrunk(op, s, answer) = SlidingWindow(s) /\ TailSize(op) = WindowSize
    BY <1>2 DEF Shrunk, TailSize
  <2> QED BY <1>2, <2>1, SlidingWindowOwes DEF Summarizing
<1>3. CASE op = "budget"
  <2>1. Shrunk(op, s, answer) = TokenBudget(s, FALSE, answer) /\ TailSize(op) = MinRecent
    BY <1>3 DEF Shrunk, TailSize
  <2> QED BY <1>3, <2>1, TokenBudgetOwes DEF Summarizing
<1>4. CASE op = "budget_summary"
  <2>1. Shrunk(op, s, answer) = TokenBudget(s, TRUE, answer) /\ TailSize(op) = MinRecent
    BY <1>4 DEF Shrunk, TailSize
  <2> QED BY <1>4, <2>1, TokenBudgetOwes DEF Summarizing
<1>5. CASE op = "relevance"
  <2>1. Shrunk(op, s, answer) = RelevancePruning(s) /\ TailSize(op) = ProtectRelevant
    BY <1>5 DEF Shrunk, TailSize
  <2> QED BY <1>5, <2>1, RelevancePruningOwes DEF Summarizing
<1>6. CASE op = "duplicate"
  <2>1. Shrunk(op, s, answer) = DuplicatePruning(s) /\ TailSize(op) = ProtectDuplicate
    BY <1>6 DEF Shrunk, TailSize
  <2> QED BY <1>6, <2>1, DuplicatePruningOwes DEF Summarizing
<1>7. CASE op = "composite"
  <2>1. /\ Shrunk(op, s, answer) = Composite(s)
        /\ TailSize(op) = MinOf(ProtectDuplicate, ProtectRelevant)
    BY <1>7 DEF Shrunk, TailSize
  <2> QED BY <1>7, <2>1, CompositeOwes DEF Summarizing
<1> QED BY <1>1, <1>2, <1>3, <1>4, <1>5, <1>6, <1>7 DEF Shrinks

\* The inductive invariant: the conversation is sound, every message is in it,
\* covered, gone or clipped, and the latest strategy has given what it owes.
LastOwed ==
    last.op # "none" =>
      /\ TailSize(last.op) <= Len(last.before) => EndsAlike(context, last.before, TailSize(last.op))
      /\ Len(last.before) < TailSize(last.op) => EndsAlike(context, last.before, Len(last.before))
      /\ last.op = "budget" =>
           \/ Tokens(context) <= Budget
           \/ Len(context) = Len(Preamble) + MinOf(MinRecent, Len(last.before))
      /\ last.op = "duplicate" => \A i \in 1..Len(last.before) :
           \/ IsEmptyTurn(last.before[i])
           \/ \E h \in 1..Len(context) : Stands(context[h], last.before[i])

ContextInv ==
    /\ Sound(context, said) /\ said \in 0..MaxSaid /\ shrinks \in 0..MaxShrinks
    /\ gone \subseteq 1..said /\ clipped \subseteq 1..said
    /\ last.op \in Shrinks \cup {"none"} /\ last.before \in Seq(Message) /\ last.dropped \in Nat
    /\ 1..said \subseteq Ids(context) \cup Covered(context) \cup gone \cup clipped
    /\ LastOwed

LEMMA ContextInitOwes == ContextInit => ContextInv
<1> SUFFICES ASSUME ContextInit PROVE ContextInv
  OBVIOUS
<1>1. Sound(<<>>, 0)
  BY DEF Sound, InOrder
<1> QED BY <1>1, ContextAssumption DEF ContextInit, ContextInv, LastOwed, Nothing

LEMMA SayKeeps == ASSUME ContextInv, NEW k \in Kinds, Say(k) PROVE ContextInv'
<1> DEFINE x == AsMessage(k, said + 1)  t == Append(context, x)  m == said + 1
<1>1. /\ said \in Nat /\ said < MaxSaid /\ said' = m /\ context' = t /\ last' = Nothing
      /\ UNCHANGED <<shrinks, gone, clipped>> /\ m \in 0..MaxSaid
  BY ContextAssumption DEF ContextInv, Say
<1>2. /\ context \in Seq(Message) /\ Len(context) \in Nat /\ DOMAIN context = 1..Len(context)
  BY DEF ContextInv, Sound
<1>3. x \in Message /\ SoundMessage(x, m) /\ x.id = m /\ x.covers = {}
  <2>1. /\ m \in Nat /\ m \in 0..m /\ m # 0 /\ {} \in SUBSET Nat /\ {} \subseteq 1..m
    BY <1>1
  <2>2. /\ k.role \in Roles /\ k.tok \in Nat /\ (k.call # NoCall => k.role = "assistant")
        /\ k.text \in {q.text : q \in Kinds} \cup {NoText} \cup Answers
        /\ k.call \in {q.call : q \in Kinds} \cup {NoCall}
    <3>1. k.role \in Roles /\ k.tok \in Nat /\ (k.call # NoCall => k.role = "assistant")
      BY ContextAssumption
    <3>2. k.text \in {q.text : q \in Kinds} /\ k.call \in {q.call : q \in Kinds}
      OBVIOUS
    <3> QED BY <3>1, <3>2
  <2>3. x = [id |-> m, role |-> k.role, text |-> k.text, call |-> k.call, tok |-> k.tok, covers |-> {}]
    BY DEF AsMessage
  <2> HIDE DEF m, x
  <2>4. x \in Message
    BY <2>1, <2>2, <2>3 DEF Message
  <2>5. SoundMessage(x, m)
    BY <2>1, <2>2, <2>3 DEF SoundMessage
  <2> QED BY <2>3, <2>4, <2>5
<1> HIDE DEF x
<1>4. /\ t \in Seq(Message) /\ Len(t) = Len(context) + 1 /\ t[Len(context) + 1] = x
      /\ \A i \in 1..Len(context) : t[i] = context[i]
      /\ DOMAIN t = 1..(Len(context) + 1)
  BY <1>2, <1>3
<1>5. \A i \in 1..Len(t) : i \in 1..Len(context) \/ i = Len(context) + 1
  BY <1>2, <1>4
<1>6. \A i \in 1..Len(context) : SoundMessage(context[i], said)
  BY DEF ContextInv, Sound
<1> HIDE DEF t
<1>7. Sound(t, m)
  <2>1. \A i \in 1..Len(context) : SoundMessage(context[i], m)
    <3>1. \A i \in 0..said : i \in 0..m
      BY <1>1
    <3>2. \A i \in 1..said : i \in 1..m
      BY <1>1
    <3> QED BY <1>6, <3>1, <3>2 DEF SoundMessage
  <2>2. \A i \in 1..Len(t) : SoundMessage(t[i], m)
    BY <1>3, <1>4, <1>5, <2>1
  <2>3. InOrder(t)
    <3> SUFFICES ASSUME NEW i \in 1..Len(t), NEW j \in 1..Len(t), i < j, t[i].id # 0, t[j].id # 0
                 PROVE  t[i].id < t[j].id
      BY DEF InOrder
    <3>1. i \in 1..Len(context)
      BY <1>2, <1>4
    <3>2. CASE j \in 1..Len(context)
      BY <1>4, <3>1, <3>2 DEF ContextInv, Sound, InOrder
    <3>3. CASE j = Len(context) + 1
      <4>1. context[i].id \in 0..said
        BY <1>6, <3>1 DEF SoundMessage
      <4> QED BY <1>1, <1>3, <1>4, <3>1, <3>3, <4>1
    <3> QED BY <1>5, <3>2, <3>3
  <2> QED BY <1>4, <2>2, <2>3 DEF Sound
<1>8. 1..m \subseteq Ids(t) \cup Covered(t) \cup gone \cup clipped
  <2>1. \A y \in Ids(context) : y \in Ids(t)
    <3>1. \A i \in 1..Len(context) : i \in DOMAIN t
      BY <1>2, <1>4
    <3> QED BY <1>2, <1>4, <3>1 DEF Ids
  <2>2. \A y \in Covered(context) : y \in Covered(t)
    <3>1. \A i \in 1..Len(context) : i \in DOMAIN t
      BY <1>2, <1>4
    <3> QED BY <1>2, <1>4, <3>1 DEF Covered
  <2>3. m \in Ids(t)
    <3>1. Len(context) + 1 \in DOMAIN t /\ m # 0
      BY <1>1, <1>2, <1>4
    <3> QED BY <1>3, <1>4, <3>1 DEF Ids
  <2>4. \A y \in 1..m : y \in 1..said \/ y = m
    BY <1>1
  <2> QED BY <2>1, <2>2, <2>3, <2>4 DEF ContextInv
<1>9. gone \subseteq 1..m /\ clipped \subseteq 1..m
  <2>1. \A i \in 1..said : i \in 1..m
    BY <1>1
  <2> QED BY <2>1 DEF ContextInv
<1> QED BY <1>1, <1>7, <1>8, <1>9 DEF ContextInv, LastOwed, Nothing

LEMMA ShrinkKeeps ==
    ASSUME ContextInv, NEW op \in Shrinks, NEW answer \in Answers, Shrink(op, answer)
    PROVE  ContextInv'
<1> DEFINE r == Shrunk(op, context, answer)
           had == Ids(context) \cup Covered(context)
           has == Ids(r.messages) \cup Covered(r.messages)
           lossy == op \notin Summarizing \/ answer = Unavailable
<1>1. /\ said' = said /\ said \in Nat /\ shrinks' = shrinks + 1 /\ shrinks' \in 0..MaxShrinks
      /\ context' = r.messages /\ last' = [op |-> op, before |-> context, dropped |-> r.dropped]
      /\ gone' = IF lossy THEN gone \cup (had \ has) ELSE gone
      /\ clipped' = IF lossy THEN clipped ELSE clipped \cup ((had \ has) \cap Curtailed(context))
      /\ Sound(context, said) /\ context \in Seq(Message)
  BY ContextAssumption DEF ContextInv, Shrink, Sound
<1>2. /\ Owed(r, context, TailSize(op), said)
      /\ answer # Unavailable /\ op \in Summarizing => Holds(r, context)
      /\ op = "budget" =>
           \/ Tokens(r.messages) <= Budget
           \/ Len(r.messages) = Len(Preamble) + MinOf(MinRecent, Len(context))
      /\ op = "duplicate" => \A i \in 1..Len(context) :
           \/ IsEmptyTurn(context[i])
           \/ \E h \in 1..Len(r.messages) : Stands(r.messages[h], context[i])
  BY <1>1, ShrunkOwes
<1>3. had \subseteq 1..said
  BY <1>1, SoundCovers
<1>4. gone' \subseteq 1..said /\ clipped' \subseteq 1..said
  <2> HIDE DEF had, has, lossy
  <2> QED BY <1>1, <1>3 DEF ContextInv
<1>5. 1..said \subseteq has \cup gone' \cup clipped'
  <2>1. 1..said \subseteq had \cup gone \cup clipped
    BY DEF ContextInv
  <2>2. CASE lossy
    <3> HIDE DEF had, has, lossy
    <3> QED BY <1>1, <2>1, <2>2
  <2>3. CASE ~lossy
    <3>1. had \subseteq has \cup Curtailed(context)
      BY <1>2, <2>3 DEF Holds
    <3> HIDE DEF had, has, lossy
    <3> QED BY <1>1, <2>1, <2>3, <3>1
  <2> QED BY <2>2, <2>3
<1>6. LastOwed'
  <2>1. last'.op = op /\ last'.before = context /\ op # "none"
    BY <1>1 DEF Shrinks
  <2> HIDE DEF r
  <2> QED BY <1>1, <1>2, <2>1 DEF LastOwed, Owed
<1>7. /\ Sound(context, said)' /\ (said \in 0..MaxSaid)'
      /\ (last.op \in Shrinks \cup {"none"} /\ last.before \in Seq(Message) /\ last.dropped \in Nat)'
  <2> HIDE DEF r
  <2> QED BY <1>1, <1>2 DEF Owed, ContextInv
<1>8. (1..said \subseteq Ids(context) \cup Covered(context) \cup gone \cup clipped)'
  BY <1>1, <1>5
<1> HIDE DEF r, had, has
<1> QED BY <1>1, <1>4, <1>6, <1>7, <1>8 DEF ContextInv

LEMMA ContextStepKeeps == ContextInv /\ [ContextNext]_contextVars => ContextInv'
<1> SUFFICES ASSUME ContextInv, [ContextNext]_contextVars PROVE ContextInv'
  OBVIOUS
<1>1. ASSUME NEW k \in Kinds, Say(k) PROVE ContextInv'
  BY <1>1, SayKeeps
<1>2. ASSUME NEW op \in Shrinks, NEW answer \in Answers, Shrink(op, answer) PROVE ContextInv'
  BY <1>2, ShrinkKeeps
<1>3. CASE UNCHANGED contextVars
  BY <1>3 DEF contextVars, ContextInv, LastOwed
<1> QED BY <1>1, <1>2, <1>3 DEF ContextNext

LEMMA ContextInvHolds == ContextSpec => []ContextInv
<1> QED BY ContextInitOwes, ContextStepKeeps, PTL DEF ContextSpec

LEMMA InvMeansNothingLost == ContextInv => NothingLost
<1> SUFFICES ASSUME ContextInv PROVE NothingLost
  OBVIOUS
<1>1. /\ last.before \in Seq(Message) /\ DOMAIN last.before = 1..Len(last.before)
      /\ context \in Seq(Message) /\ DOMAIN context = 1..Len(context)
  BY DEF ContextInv, Sound
<1>2. ASSUME last.op = "duplicate", NEW i \in DOMAIN last.before, ~IsEmptyTurn(last.before[i])
      PROVE  \E kept \in Range(context) :
                /\ kept.id <= last.before[i].id /\ kept.role = last.before[i].role
                /\ kept.text = last.before[i].text /\ kept.call = last.before[i].call
  <2>1. PICK h \in 1..Len(context) : Stands(context[h], last.before[i])
    BY <1>1, <1>2 DEF ContextInv, LastOwed
  <2>2. context[h] \in Range(context)
    BY <1>1 DEF Range
  <2> QED BY <2>1, <2>2 DEF Stands
<1>3. 1..said \subseteq Ids(context) \cup Covered(context) \cup gone \cup clipped
  BY DEF ContextInv
<1> QED BY <1>2, <1>3 DEF NothingLost

LEMMA InvMeansTailVerbatim == ContextInv => TailVerbatim
<1> SUFFICES ASSUME ContextInv PROVE TailVerbatim
  OBVIOUS
<1>1. /\ last.before \in Seq(Message) /\ Len(last.before) \in Nat
      /\ context \in Seq(Message) /\ DOMAIN context = 1..Len(context) /\ InOrder(context)
  BY DEF ContextInv, Sound
<1>2. ASSUME last.op # "none"
      PROVE  LET n == MinOf(TailSize(last.op), Len(last.before)) IN
             n <= Len(context) /\ LastOf(context, n) = LastOf(last.before, n)
  <2> DEFINE n == MinOf(TailSize(last.op), Len(last.before))
  <2>1. TailSize(last.op) \in Nat
    <3>1. last.op \in Shrinks
      BY <1>2 DEF ContextInv
    <3> QED BY <3>1, ContextAssumption DEF Shrinks, TailSize, MinOf
  <2>2. n \in Nat /\ EndsAlike(context, last.before, n)
    <3>1. /\ TailSize(last.op) <= Len(last.before) =>
               EndsAlike(context, last.before, TailSize(last.op))
          /\ Len(last.before) < TailSize(last.op) =>
               EndsAlike(context, last.before, Len(last.before))
      BY <1>2 DEF ContextInv, LastOwed
    <3>2. CASE Len(last.before) < TailSize(last.op)
      <4>1. n = Len(last.before) \/ (n = TailSize(last.op) /\ n = Len(last.before))
        BY <1>1, <2>1, <3>2 DEF MinOf
      <4> QED BY <1>1, <3>1, <3>2, <4>1
    <3>3. CASE ~(Len(last.before) < TailSize(last.op))
      <4>1. n = TailSize(last.op) /\ TailSize(last.op) <= Len(last.before)
        BY <1>1, <2>1, <3>3 DEF MinOf
      <4> QED BY <2>1, <3>1, <4>1
    <3> QED BY <3>2, <3>3
  <2> HIDE DEF n
  <2>3. n <= Len(context) /\ LastOf(context, n) = LastOf(last.before, n)
    BY <1>1, <2>2, AlikeMeansEqual
  <2> QED BY <2>3 DEF n
<1> QED BY <1>1, <1>2 DEF TailVerbatim, InOrder

\* A message is never lost but to a strategy that drops, to a summarizer that failed,
\* or to the preview of a summarizer, which has neither tool calls nor what is beyond
\* its first characters; and a duplicate only while its equal stays (compaction.py,
\* pruning.py).
THEOREM NothingLostHolds == ContextSpec => []NothingLost
<1> QED BY ContextInvHolds, InvMeansNothingLost, PTL

\* The newest messages stay as they were, and all of them in their order,
\* whatever strategies ran before.
THEOREM TailVerbatimHolds == ContextSpec => []TailVerbatim
<1> QED BY ContextInvHolds, InvMeansTailVerbatim, PTL

\* Budget pruning ends within the budget, or with no more than what it must keep.
THEOREM BudgetKeptHolds == ContextSpec => []BudgetKept
<1>1. ContextInv => BudgetKept
  BY DEF ContextInv, LastOwed, BudgetKept
<1> QED BY <1>1, ContextInvHolds, PTL

\* Message list, history and counters stay in their types, whatever strategies ran
\* (compaction.py, pruning.py).
THEOREM ContextTypeHolds == ContextSpec => []ContextTypeOK
<1>1. ContextInv => ContextTypeOK
  BY DEF ContextInv, ContextTypeOK, Sound
<1> QED BY <1>1, ContextInvHolds, PTL

-----------------------------------------------------------------------------
(* The types of the two memories *)

LEMMA MemoryTypeHolds == MemorySpec => []MemoryTypeOK
<1>1. MemoryInv => MemoryTypeOK
  BY DEF MemoryInv
<1> QED BY <1>1, MemoryInvHolds, PTL

LEMMA SeededHolds == InMemorySpec => [](seeded \subseteq MemAgents)
<1>1. InMemoryInit => seeded \subseteq MemAgents
  BY DEF InMemoryInit
<1>2. seeded \subseteq MemAgents /\ [InMemoryNext]_inMemoryVars => (seeded \subseteq MemAgents)'
  <2> SUFFICES ASSUME seeded \subseteq MemAgents, [InMemoryNext]_inMemoryVars
               PROVE  seeded' \subseteq MemAgents
    OBVIOUS
  <2>1. seeded' = seeded \/ \E a \in MemAgents : seeded' = seeded \cup {a}
    BY Zenon DEF InMemoryNext, inMemoryVars, SeedAgent, AppendSoul, AppendMemoryEvent, FlushMemory,
                 StartWalk, ContinueWalk, EndWalk
  <2> QED BY <2>1
<1> QED BY <1>1, <1>2, PTL DEF InMemorySpec

LEMMA InMemoryTypeHolds == InMemorySpec => []InMemoryTypeOK
<1>1. InMemoryInit => WalkInv
  BY DEF InMemoryInit, WalkInv, EventsInv, EventsOk
<1>2. WalkInv /\ [InMemoryNext]_inMemoryVars => WalkInv'
  BY WalkStep
<1>3. WalkInv /\ SoulsInv /\ seeded \subseteq MemAgents => InMemoryTypeOK
  <2> SUFFICES ASSUME WalkInv, SoulsInv, seeded \subseteq MemAgents PROVE InMemoryTypeOK
    OBVIOUS
  <2>1. walk \in Seq(Walk)
    <3>1. \A w \in Walk : <<w>> \in Seq(Walk)
      OBVIOUS
    <3>2. walk = <<>> \/ \E w \in Walk : walk = <<w>>
      BY DEF WalkInv
    <3> QED BY <3>1, <3>2, EmptySeq
  <2>2. souls \in [MemAgents -> Seq([version : Nat])]
    <3>1. Row \subseteq [version : Nat]
      BY InMemoryAssumption DEF Row
    <3>2. ASSUME NEW s \in Seq(Row) PROVE s \in Seq([version : Nat])
      BY <3>1, SeqMonotonic
    <3> QED BY <3>2 DEF SoulsInv
  <2> QED BY <2>1, <2>2 DEF WalkInv, EventsInv, InMemoryTypeOK
<1> QED BY <1>1, <1>2, <1>3, SoulsInvHolds, SeededHolds, PTL DEF InMemorySpec
=============================================================================
