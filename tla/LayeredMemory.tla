---------------------------- MODULE LayeredMemory ----------------------------
(***************************************************************************)
(* agentcook_core/memory.py: MemoryManager with its identity loader and    *)
(* soul manager over InMemoryStore, which drops an expired entry only when *)
(* a read, a list or gc comes across it.  The store keeps a dictionary per *)
(* agent; this is one agent's.  Time moves in ticks, a tick being the      *)
(* millisecond in a generated diary key.  The n-th entry written has       *)
(* content n, and position n unless its key was there.                     *)
(***************************************************************************)
EXTENDS Naturals, Sequences, FiniteSets, SequencesExt

CONSTANTS
    Keys,           \* keys of callers
    Ttls,           \* times to live callers give; 0 is no expiry
    Score,          \* similarity of a content to the query
    HasEmbedder,    \* an EmbeddingProvider is configured
    SearchLimit,    \* entries of a layer a search looks at (1000 in the code)
    PrefixedKeys,   \* sets of keys with a prefix that lists ask for
    ListLimits, TopK,
    MaxWrites,      \* bound: entries written
    MaxNow          \* bound: ticks

Layers == {"identity", "soul", "memory", "diary"}
DiaryKey(t) == <<"diary", t>>
AllKeys == {<<k>> : k \in Keys} \cup {DiaryKey(t) : t \in 0..MaxNow}

ASSUME MemoryAssumption ==
    /\ Ttls \subseteq Nat /\ SearchLimit \in Nat \ {0} /\ TopK \in Nat \ {0}
    /\ ListLimits \subseteq Nat \ {0} /\ MaxWrites \in Nat /\ MaxNow \in Nat
    /\ HasEmbedder \in BOOLEAN /\ Score \in [1..MaxWrites -> Nat]
    /\ PrefixedKeys \subseteq SUBSET AllKeys

VARIABLES
    now,            \* time.time()
    data,           \* _data[agent]: a set of entries, each at its position in the dictionary
    written         \* entries written

memoryVars == <<now, data, written>>

Entry == [place : Layers \X AllKeys, pos : Nat, content : 1..MaxWrites, ts : Nat, ttl : Nat,
          embedded : BOOLEAN]
IsExpired(e) == e.ttl > 0 /\ now - e.ts > e.ttl

MemoryInit == now = 0 /\ data = {} /\ written = 0

\* A key that is there keeps its position, expired or not.
Position(place, n) ==
    IF \E e \in data : e.place = place THEN (CHOOSE e \in data : e.place = place).pos ELSE n

NewEntry(layer, key, n, ttl) ==
    [place |-> <<layer, key>>, pos |-> Position(<<layer, key>>, n), content |-> n, ts |-> now,
     ttl |-> ttl, embedded |-> HasEmbedder /\ layer \in {"memory", "diary"}]

\* InMemoryStore.write.
Written(new) == data' = new \cup {e \in data : \A d \in new : d.place # e.place}

WriteToLayer(layer, key, ttl) ==
    /\ written < MaxWrites /\ written' = written + 1
    /\ Written({NewEntry(layer, key, written + 1, ttl)})
    /\ UNCHANGED now

\* write_to_layer and remember.
Write(layer, k, ttl) == WriteToLayer(layer, <<k>>, ttl)

\* append_diary without a key: the key is made of the time, so an entry of the same
\* tick is replaced.
AppendDiary(ttl) == WriteToLayer("diary", DiaryKey(now), ttl)

\* load_from_dict, set_trait and bulk_set: one entry per key, in the dict's order.
WriteAll(layer, keys) ==
    /\ written + Len(keys) <= MaxWrites /\ written' = written + Len(keys)
    /\ Written({NewEntry(layer, <<keys[i]>>, written + i, 0) : i \in DOMAIN keys})
    /\ UNCHANGED now

-----------------------------------------------------------------------------
At(layer, key) == {e \in data : e.place = <<layer, key>>}

\* read, recall and get_trait: what they return, and the expired entry they drop.
Found(layer, key) == {e \in At(layer, key) : ~IsExpired(e)}

Read(layer, key) ==
    /\ data' = data \ {e \in At(layer, key) : IsExpired(e)}
    /\ UNCHANGED <<now, written>>

\* Slip: a list does not look at the time to live.
ListableExpired(layer, keys) == {e \in data : e.place[1] = layer /\ e.place[2] \in keys}

\* What list_entries comes across and returns, if no limit stops it.
Listable(layer, keys) ==
    {e \in data : e.place[1] = layer /\ e.place[2] \in keys /\ ~IsExpired(e)}

\* How much of that lies ahead of a position.
Ahead(layer, keys, pos) == Cardinality({e \in Listable(layer, keys) : e.pos < pos})

Listed(layer, keys, limit) ==
    {e \in Listable(layer, keys) : Ahead(layer, keys, e.pos) < limit}

\* Slip: the entries behind the limit are dropped.
DroppedBehind(layer, keys, limit) ==
    {e \in data : e.place[1] = layer /\ (IsExpired(e) \/ Ahead(layer, keys, e.pos) >= limit)}

\* What it drops; where the limit stops it, what is expired behind stays.
Dropped(layer, keys, limit) ==
    {e \in data : e.place[1] = layer /\ IsExpired(e) /\ Ahead(layer, keys, e.pos) < limit}

\* list_layer and list_traits; `keys' are those with the prefix.
List(layer, keys, limit) ==
    /\ data' = data \ Dropped(layer, keys, limit)
    /\ UNCHANGED <<now, written>>

\* semantic_search over both layers, in this order: only what was written with an
\* embedder is a candidate, and the sort is stable.
ByScore(d, e) == Score[d.content] > Score[e.content]

Candidates ==
    {e \in UNION {Listed(l, AllKeys, SearchLimit) : l \in {"memory", "diary"}} : e.embedded}

SortedBefore(d, e) ==
    \/ ByScore(d, e)
    \/ /\ ~ByScore(e, d)
       /\ IF d.place[1] = e.place[1] THEN d.pos < e.pos ELSE d.place[1] = "memory"

Searched == {e \in Candidates : Cardinality({d \in Candidates : SortedBefore(d, e)}) < TopK}

Search ==
    /\ HasEmbedder
    /\ data' = data \ UNION {Dropped(l, AllKeys, SearchLimit) : l \in {"memory", "diary"}}
    /\ UNCHANGED <<now, written>>

Gc ==
    /\ data' = {e \in data : ~IsExpired(e)}
    /\ UNCHANGED <<now, written>>

\* delete_trait.
DeleteTrait(k) ==
    /\ data' = {e \in data : e.place # <<"soul", <<k>> >>}
    /\ UNCHANGED <<now, written>>

Tick ==
    /\ now < MaxNow /\ now' = now + 1
    /\ UNCHANGED <<data, written>>

MemoryNext ==
    \/ \E k \in Keys, ttl \in Ttls : Write("memory", k, ttl)
    \/ \E ttl \in Ttls : AppendDiary(ttl)
    \/ \E l \in {"identity", "soul"}, n \in 1..MaxWrites : \E keys \in Injection(1..n, Keys) : WriteAll(l, keys)
    \/ \E l \in Layers, k \in AllKeys : At(l, k) # {} /\ Read(l, k)
    \/ \E l \in Layers, ks \in PrefixedKeys \cup {AllKeys}, n \in ListLimits : List(l, ks, n)
    \/ Search \/ Gc
    \/ \E k \in Keys : DeleteTrait(k)
    \/ Tick

MemorySpec == MemoryInit /\ [][MemoryNext]_memoryVars

-----------------------------------------------------------------------------
Live == {e \in data : ~IsExpired(e)}

MemoryTypeOK ==
    /\ now \in 0..MaxNow /\ data \subseteq Entry /\ written \in 0..MaxWrites
    /\ \A d, e \in data : d.place = e.place \/ d.pos = e.pos => d = e

\* Lazy deletion cannot be seen: the entries that are not expired make up a map
\* in which an entry lives from its write to the end of its time, and no read,
\* list, search or gc changes it.
Ttl == INSTANCE TtlStore WITH Places <- Layers \X AllKeys, live <- Live,
    Removable <- {"soul"} \X AllKeys
TtlStoreSpec == Ttl!StoreSpec

\* Whatever the store is asked now, a read or list would return what lives, as
\* much of it as the limit allows; a search would return the best-scoring of what
\* was embedded, unless a layer has more live entries than a search looks at.
AnswersComplete ==
    /\ \A l \in Layers, k \in AllKeys : Found(l, k) = {e \in Live : e.place = <<l, k>>}
    /\ \A l \in Layers, ks \in PrefixedKeys \cup {AllKeys}, n \in ListLimits :
         LET found == Listed(l, ks, n)
             asked == {e \in Live : e.place[1] = l /\ e.place[2] \in ks}
         IN  found \subseteq asked /\ (found # asked => Cardinality(found) = n)
    /\ LET pool == {e \in Live : e.embedded}
           found == Searched
           inReach == \A l \in Layers : Cardinality({e \in Live : e.place[1] = l}) <= SearchLimit
       IN  /\ found \subseteq pool
           /\ HasEmbedder /\ inReach /\ found # pool =>
                /\ Cardinality(found) = TopK
                /\ \A e \in pool \ found, f \in found : ~ByScore(e, f)
=============================================================================
