------------------------------- MODULE TtlStore -------------------------------
(***************************************************************************)
(* What agentcook_core/memory.py promises of a memory store: a map from    *)
(* keys to entries in which an entry is there from the write until its     *)
(* time to live is over or the key is written or deleted again, whoever    *)
(* reads, lists, searches or collects garbage meanwhile.                   *)
(***************************************************************************)
EXTENDS Naturals

CONSTANTS
    Places,         \* layer and key of an entry
    Removable       \* places whose entries can be deleted

VARIABLES
    now,            \* the time
    live            \* entries that are there: a set of records with place, ts, ttl

Expired(e, t) == e.ttl > 0 /\ t - e.ts > e.ttl

StoreInit == now = 0 /\ live = {}

Put(new) ==
    /\ \A e \in new : e.place \in Places /\ e.ts = now
    /\ \A d, e \in new : d.place = e.place => d = e
    /\ live' = new \cup {e \in live : \A d \in new : d.place # e.place}
    /\ UNCHANGED now

Remove(p) == live' = {e \in live : e.place # p} /\ UNCHANGED now

Pass == now' = now + 1 /\ live' = {e \in live : ~Expired(e, now')}

StoreNext ==
    \/ \E new \in SUBSET (live' \ live) : Put(new)
    \/ \E p \in Removable : Remove(p)
    \/ Pass

StoreSpec == StoreInit /\ [][StoreNext]_<<now, live>>
=============================================================================
