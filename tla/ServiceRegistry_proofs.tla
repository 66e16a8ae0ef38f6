----------------------- MODULE ServiceRegistry_proofs -----------------------
(***************************************************************************)
(* A process that has ended leaves no entry behind, and, where no two      *)
(* processes run under one key, a process that renews is found: for any    *)
(* number of processes and any lease, interval and timeout that fit.       *)
(***************************************************************************)
EXTENDS ServiceRegistry, TLAPS

\* The time that m renewals take.
Span(m) == m * Interval

\* The loop of a process in state s has not missed what a lease tolerates.
Renews(s) == s.loop /\ Span(s.missed + 1) + PutTimeout < Ttl

\* How the time left on lease l bounds what its owner, in state s, may sleep.
Timely(s, l) ==
    /\ s.loop => s.pc = "up" /\ s.sleep <= Interval
    /\ s.pc \in {"new", "granting"} => ~s.loop /\ s.sleep = 0 /\ s.missed = 0
    /\ s.pc = "putting" => /\ ~s.loop /\ s.missed = 0 /\ s.sleep <= PutTimeout
                           /\ l.state = "alive" /\ l.ttl + s.sleep = Ttl
    /\ Renews(s) => /\ l.state = "alive"
                    /\ l.ttl + PutTimeout + Span(s.missed) + s.sleep >= Ttl
    /\ s.pc # "ended" => s.since = 0
    /\ s.pc = "ended" => ~s.loop /\ (l.state = "alive" => s.since + l.ttl <= Ttl)

\* A key hangs on a lease of its own owner that is still running.
HeldByLease ==
    \A k \in Key, q \in Proc : holder[k] = q => k = KeyOf(q) /\ Alive(q)

Runs(s) == s.pc \in {"granting", "putting", "up"}

\* One process per key runs, and its renewals are of the lease its key is on.
OnePerKey ==
    \A p, q \in Proc : Running(p) /\ Running(q) /\ KeyOf(p) = KeyOf(q) => p = q
RenewsItsKey ==
    \A p \in Proc : proc[p].loop /\ Alive(p) => Discoverable(p)

IInv ==
    /\ TypeOK
    /\ \A p \in Proc : Timely(proc[p], lease[p])
    /\ HeldByLease
    /\ ~Replicas => OnePerKey /\ RenewsItsKey

-----------------------------------------------------------------------------
(* Arithmetic *)

LEMMA SpanFacts ==
    /\ Span(0) = 0
    /\ \A m \in Nat : Span(m) \in Nat /\ Span(m + 1) = Span(m) + Interval
<1>1. Interval \in Nat
  BY TimeAssumption
<1>2. \A m \in Nat : m * Interval \in Nat /\ (m + 1) * Interval = m * Interval + Interval
  BY <1>1
<1> QED BY <1>1, <1>2 DEF Span

LEMMA LivesFacts ==
    Lives \in Nat /\ Span(Lives + 1) > Ttl
<1>1. Ttl \in Nat /\ Interval \in Nat /\ Interval > 0
  BY TimeAssumption
<1>2. Lives \in Nat
  BY <1>1 DEF Lives
<1>3. (Lives + 1) * Interval > Ttl
  BY <1>1 DEF Lives
<1> QED BY <1>2, <1>3 DEF Span

HIDE DEF Span
USE DEF Running, Alive, Discoverable, At, IsJava

-----------------------------------------------------------------------------
(* The initial states *)

LEMMA InitInv == Init => IInv
<1> SUFFICES ASSUME Init PROVE IInv
  OBVIOUS
<1> PICK kind \in [Proc -> Kinds] :
      proc = [p \in Proc |-> [kind |-> kind[p], pc |-> "new", leaseId |-> FALSE,
                              loop |-> FALSE, sleep |-> 0, missed |-> 0, since |-> 0]]
  BY DEF Init
<1>1. \A p \in Proc : /\ proc[p] \in ProcState
                      /\ proc[p].pc = "new" /\ ~proc[p].loop
                      /\ proc[p].sleep = 0 /\ proc[p].missed = 0 /\ proc[p].since = 0
  <2>1. 0 \in 0..Interval /\ 0 \in 0..Lives /\ 0 \in 0..(Ttl + 1)
    BY TimeAssumption, LivesFacts
  <2> QED BY <2>1 DEF ProcState
<1>2. \A p \in Proc : lease[p] \in LeaseState
  <2>1. 0 \in 0..Ttl
    BY TimeAssumption
  <2> QED BY <2>1 DEF Init, LeaseState
<1>3. TypeOK
  BY <1>1, <1>2 DEF Init, TypeOK
<1>4. \A p \in Proc : Timely(proc[p], lease[p])
  BY <1>1 DEF Timely, Renews
<1>5. HeldByLease /\ OnePerKey /\ RenewsItsKey
  BY <1>1, ProcAssumption DEF Init, HeldByLease, OnePerKey, RenewsItsKey
<1> QED BY <1>3, <1>4, <1>5 DEF IInv

-----------------------------------------------------------------------------
(* The steps of one process *)

LEMMA ProcType ==
    ASSUME IInv, NEW p \in Proc
    PROVE  /\ proc[p] \in ProcState /\ lease[p] \in LeaseState
           /\ Timely(proc[p], lease[p])
  BY DEF IInv, TypeOK

\* p goes from proc[p] to s and its lease to l; a key goes to p, or leaves p,
\* or it is the key of p, which runs.
LEMMA OneStep ==
    ASSUME IInv, NEW p \in Proc, NEW s \in ProcState, NEW l \in LeaseState,
           Timely(s, l), s.kind = proc[p].kind,
           proc' = [proc EXCEPT ![p] = s],
           lease' = [lease EXCEPT ![p] = l],
           holder' \in [Key -> Proc \cup {NoProc}],
           link' \in [Proc -> BOOLEAN],
           \A k \in Key : \/ holder'[k] \in {NoProc, holder[k]}
                          \/ k = KeyOf(p) /\ holder'[k] = p,
           \A k \in Key : holder'[k] = p => l.state = "alive",
           ~Replicas =>
             /\ Runs(s) => \/ Running(p)
                           \/ \A q \in Proc : KeyOf(q) = KeyOf(p) => ~Running(q)
             /\ s.loop /\ l.state = "alive" => holder'[KeyOf(p)] = p
             /\ \A k \in Key : \/ holder'[k] = holder[k] \/ holder[k] = p
                               \/ k = KeyOf(p) /\ Running(p)
    PROVE  IInv'
<1>1. /\ proc' \in [Proc -> ProcState] /\ proc'[p] = s
      /\ \A q \in Proc \ {p} : proc'[q] = proc[q]
  BY DEF IInv, TypeOK
<1>2. /\ lease' \in [Proc -> LeaseState] /\ lease'[p] = l
      /\ \A q \in Proc \ {p} : lease'[q] = lease[q]
  BY DEF IInv, TypeOK
<1>3. TypeOK'
  BY <1>1, <1>2 DEF TypeOK
<1>4. \A q \in Proc : Timely(proc'[q], lease'[q])
  BY <1>1, <1>2 DEF IInv
<1>5. (\A q \in Proc : Timely(proc[q], lease[q]))'
  BY <1>4 DEF Timely, Renews
<1>6. \A q \in Proc : KeyOf(q)' = KeyOf(q) /\ KeyOf(q) \in Key
  BY <1>1 DEF KeyOf, Key
<1>7. HeldByLease'
  <2> SUFFICES ASSUME NEW k \in Key, NEW q \in Proc, holder'[k] = q
               PROVE  k = KeyOf(q) /\ lease'[q].state = "alive"
    BY <1>6 DEF HeldByLease
  <2>1. q # NoProc
    BY ProcAssumption
  <2>2. CASE holder[k] = q
    <3>1. k = KeyOf(q) /\ lease[q].state = "alive"
      BY <2>2 DEF IInv, HeldByLease
    <3> QED BY <3>1, <1>2
  <2>3. CASE q = p /\ k = KeyOf(p)
    BY <2>3, <1>2
  <2> QED BY <2>1, <2>2, <2>3
<1>8. ASSUME ~Replicas PROVE OnePerKey' /\ RenewsItsKey'
  <2>1. \A q \in Proc \ {p} : (proc'[q].loop => proc[q].loop /\ Running(q))
                              /\ (Running(q)' => Running(q))
    BY <1>1, ProcType DEF Timely
  <2>2. OnePerKey /\ RenewsItsKey
    BY <1>8 DEF IInv
  <2>3. OnePerKey'
    <3> SUFFICES ASSUME NEW q \in Proc, NEW r \in Proc, Running(q)', Running(r)',
                        KeyOf(q) = KeyOf(r)
                 PROVE  q = r
      BY <1>6 DEF OnePerKey
    <3>1. CASE q # p /\ r # p
      BY <3>1, <2>1, <2>2 DEF OnePerKey
    <3>2. CASE q = p /\ r # p
      <4>1. Runs(s) /\ Running(r)
        BY <3>2, <1>1, <2>1 DEF Runs
      <4> QED BY <4>1, <3>2, <2>2, <1>8 DEF OnePerKey
    <3>3. CASE r = p /\ q # p
      <4>1. Runs(s) /\ Running(q)
        BY <3>3, <1>1, <2>1 DEF Runs
      <4> QED BY <4>1, <3>3, <2>2, <1>8 DEF OnePerKey
    <3> QED BY <3>1, <3>2, <3>3
  <2>4. RenewsItsKey'
    <3> SUFFICES ASSUME NEW q \in Proc, proc'[q].loop, lease'[q].state = "alive"
                 PROVE  holder'[KeyOf(q)] = q
      BY <1>6 DEF RenewsItsKey
    <3>1. CASE q = p
      BY <3>1, <1>1, <1>2, <1>8
    <3>2. CASE q # p
      <4>1. holder[KeyOf(q)] = q /\ Running(q)
        BY <3>2, <1>2, <2>1, <2>2 DEF RenewsItsKey
      <4>2. ~(KeyOf(q) = KeyOf(p) /\ Running(p))
        BY <3>2, <4>1, <2>2 DEF OnePerKey
      <4> QED BY <4>1, <4>2, <3>2, <1>6, <1>8
    <3> QED BY <3>1, <3>2
  <2> QED BY <2>3, <2>4
<1> QED BY <1>3, <1>5, <1>7, <1>8 DEF IInv

\* A step of p that at most renews its lease, moves no key and starts nothing.
LEMMA KeylessStep ==
    ASSUME IInv, NEW p \in Proc, NEW s \in ProcState, NEW l \in LeaseState,
           Timely(s, l), s.kind = proc[p].kind, l.state = lease[p].state,
           s.loop => proc[p].loop, Runs(s) => Running(p),
           proc' = [proc EXCEPT ![p] = s],
           lease' = [lease EXCEPT ![p] = l],
           UNCHANGED <<holder, link>>
    PROVE  IInv'
<1>1. holder' \in [Key -> Proc \cup {NoProc}] /\ link' \in [Proc -> BOOLEAN]
  BY DEF IInv, TypeOK
<1>2. \A k \in Key : holder'[k] = holder[k]
  OBVIOUS
<1>3. \A k \in Key : holder'[k] = p => l.state = "alive"
  BY <1>2 DEF IInv, HeldByLease
<1>4. ~Replicas /\ s.loop /\ l.state = "alive" => holder'[KeyOf(p)] = p
  BY DEF IInv, RenewsItsKey
<1> QED BY <1>1, <1>2, <1>3, <1>4, OneStep

LEMMA OwnStep ==
    ASSUME IInv, NEW p \in Proc, NEW s \in ProcState,
           Timely(s, lease[p]), s.kind = proc[p].kind,
           s.loop => proc[p].loop, Runs(s) => Running(p),
           proc' = [proc EXCEPT ![p] = s],
           UNCHANGED <<lease, holder, link>>
    PROVE  IInv'
<1>1. lease' = [lease EXCEPT ![p] = lease[p]] /\ lease[p] \in LeaseState
  BY DEF IInv, TypeOK
<1> QED BY <1>1, KeylessStep

LEMMA KeyOfType == \A p \in Proc : KeyOf(p) \in Key
  BY DEF KeyOf, Key

LEMMA StartInv ==
    ASSUME IInv, NEW p \in Proc, Start(p)
    PROVE  IInv'
<1> DEFINE s == [proc[p] EXCEPT !.pc = "granting"]
<1>1. s \in ProcState
  BY ProcType DEF ProcState
<1>2. s.pc = "granting" /\ s.kind = proc[p].kind /\ s.loop = proc[p].loop
      /\ s.sleep = proc[p].sleep /\ s.missed = proc[p].missed
      /\ s.since = proc[p].since
  BY ProcType DEF ProcState
<1>3. Timely(s, lease[p])
  BY <1>2, ProcType DEF Timely, Renews, Start
<1>4. ~s.loop
  BY <1>2, <1>3 DEF Timely
<1>5. lease' = [lease EXCEPT ![p] = lease[p]] /\ lease[p] \in LeaseState
      /\ holder' \in [Key -> Proc \cup {NoProc}] /\ link' \in [Proc -> BOOLEAN]
      /\ \A k \in Key : holder'[k] = holder[k]
  BY DEF IInv, TypeOK, Start
<1>6. proc' = [proc EXCEPT ![p] = s]
  BY DEF Start
<1>7. \A k \in Key : holder'[k] = p => lease[p].state = "alive"
  BY <1>5 DEF IInv, HeldByLease
<1>8. ~Replicas => \A q \in Proc : KeyOf(q) = KeyOf(p) => ~Running(q)
  BY DEF Start
<1> HIDE DEF s
<1>9. ~Replicas =>
        /\ Runs(s) => \/ Running(p)
                      \/ \A q \in Proc : KeyOf(q) = KeyOf(p) => ~Running(q)
        /\ s.loop /\ lease[p].state = "alive" => holder'[KeyOf(p)] = p
        /\ \A k \in Key : \/ holder'[k] = holder[k] \/ holder[k] = p
                          \/ k = KeyOf(p) /\ Running(p)
  BY <1>4, <1>5, <1>8
<1>10. \A k \in Key : \/ holder'[k] \in {NoProc, holder[k]}
                      \/ k = KeyOf(p) /\ holder'[k] = p
  BY <1>5
<1> QED BY <1>1, <1>2, <1>3, <1>5, <1>6, <1>7, <1>9, <1>10, OneStep

\* What p knows while it registers, and when it is granted its lease.
LEMMA GrantInv ==
    ASSUME IInv, NEW p \in Proc, Grant(p) \/ GrantFails(p)
    PROVE  IInv'
<1> DEFINE g == [proc[p] EXCEPT !.pc = "putting", !.leaseId = TRUE]
           f == [proc[p] EXCEPT !.pc = "up"]
           l == [state |-> "alive", ttl |-> Ttl]
<1>1. At(p, "granting") /\ Running(p)
  BY DEF Grant, GrantFails
<1>2. l \in LeaseState /\ l.state = "alive" /\ l.ttl = Ttl
  BY TimeAssumption DEF LeaseState
<1>3. /\ g \in ProcState /\ g.pc = "putting" /\ g.kind = proc[p].kind
      /\ g.loop = proc[p].loop /\ g.sleep = proc[p].sleep
      /\ g.missed = proc[p].missed /\ g.since = proc[p].since
  BY ProcType DEF ProcState
<1>4. /\ f \in ProcState /\ f.pc = "up" /\ f.kind = proc[p].kind
      /\ f.loop = proc[p].loop /\ f.sleep = proc[p].sleep
      /\ f.missed = proc[p].missed /\ f.since = proc[p].since
  BY ProcType DEF ProcState
<1>5. ~proc[p].loop /\ proc[p].sleep = 0 /\ proc[p].missed = 0 /\ proc[p].since = 0
  BY <1>1, ProcType DEF Timely
<1> HIDE DEF g, f, l
<1>6. Timely(g, l)
  BY <1>2, <1>3, <1>5, TimeAssumption DEF Timely, Renews
<1>7. Timely(f, l) /\ Timely(f, lease[p])
  BY <1>4, <1>5 DEF Timely, Renews
<1>8. holder' = holder /\ link' = link
      /\ holder \in [Key -> Proc \cup {NoProc}] /\ link \in [Proc -> BOOLEAN]
  BY DEF IInv, TypeOK, Grant, GrantFails
<1>9. CASE lease' = [lease EXCEPT ![p] = l] /\ proc' = [proc EXCEPT ![p] = g]
  BY <1>9, <1>1, <1>2, <1>3, <1>5, <1>6, <1>8, OneStep
<1>10. CASE lease' = [lease EXCEPT ![p] = l] /\ proc' = [proc EXCEPT ![p] = f]
  BY <1>10, <1>1, <1>2, <1>4, <1>5, <1>7, <1>8, OneStep
<1>11. CASE lease' = lease /\ proc' = [proc EXCEPT ![p] = f]
  BY <1>11, <1>1, <1>4, <1>5, <1>7, <1>8, OwnStep
<1> QED BY <1>9, <1>10, <1>11 DEF Grant, GrantFails, GrantLease, g, f, l

\* A put that etcd executes, or not; the loop starts if p knows that it was.
LEMMA PutInv ==
    ASSUME IInv, NEW p \in Proc, Put(p) \/ PutFails(p)
    PROVE  IInv'
<1> DEFINE r == [proc[p] EXCEPT !.pc = "up", !.loop = TRUE, !.sleep = 0]
           f == [proc[p] EXCEPT !.pc = "up", !.sleep = 0]
<1>1. At(p, "putting") /\ Running(p)
  BY DEF Put, PutFails
<1>2. 0 \in 0..Interval
  BY TimeAssumption
<1>3. /\ r \in ProcState /\ r.pc = "up" /\ r.kind = proc[p].kind /\ r.loop
      /\ r.sleep = 0 /\ r.missed = proc[p].missed /\ r.since = proc[p].since
  BY <1>2, ProcType DEF ProcState
<1>4. /\ f \in ProcState /\ f.pc = "up" /\ f.kind = proc[p].kind
      /\ f.loop = proc[p].loop /\ f.sleep = 0
      /\ f.missed = proc[p].missed /\ f.since = proc[p].since
  BY <1>2, ProcType DEF ProcState
<1>5. /\ ~proc[p].loop /\ proc[p].missed = 0 /\ proc[p].since = 0 /\ Alive(p)
      /\ proc[p].sleep <= PutTimeout /\ lease[p].ttl + proc[p].sleep = Ttl
  BY <1>1, ProcType DEF Timely
<1>6. lease[p] \in LeaseState /\ lease[p].ttl \in Nat /\ proc[p].sleep \in Nat
  BY ProcType, TimeAssumption DEF LeaseState, ProcState
<1> HIDE DEF r, f
<1>7. Timely(r, lease[p])
  BY <1>3, <1>5, <1>6, SpanFacts, TimeAssumption DEF Timely, Renews
<1>8. Timely(f, lease[p])
  BY <1>4, <1>5 DEF Timely, Renews
<1>9. lease' = [lease EXCEPT ![p] = lease[p]] /\ link' = link
      /\ lease' = lease /\ link \in [Proc -> BOOLEAN]
      /\ holder \in [Key -> Proc \cup {NoProc}]
  BY DEF IInv, TypeOK, Put, PutFails
<1>10. ASSUME PutKey(p)
       PROVE  /\ holder' \in [Key -> Proc \cup {NoProc}]
              /\ holder'[KeyOf(p)] = p
              /\ \A k \in Key \ {KeyOf(p)} : holder'[k] = holder[k]
  BY <1>9, <1>10, KeyOfType DEF PutKey
<1>11. ASSUME PutKey(p), NEW s \in {r, f}, proc' = [proc EXCEPT ![p] = s]
       PROVE  IInv'
  <2>1. /\ s \in ProcState /\ Timely(s, lease[p]) /\ s.kind = proc[p].kind
        /\ lease[p].state = "alive" /\ link' \in [Proc -> BOOLEAN]
    BY <1>3, <1>4, <1>5, <1>7, <1>8, <1>9
  <2>2. \A k \in Key : \/ holder'[k] \in {NoProc, holder[k]}
                       \/ k = KeyOf(p) /\ holder'[k] = p
    BY <1>10, <1>11
  <2>3. ~Replicas =>
          /\ Runs(s) => \/ Running(p)
                        \/ \A q \in Proc : KeyOf(q) = KeyOf(p) => ~Running(q)
          /\ s.loop /\ lease[p].state = "alive" => holder'[KeyOf(p)] = p
          /\ \A k \in Key : \/ holder'[k] = holder[k] \/ holder[k] = p
                            \/ k = KeyOf(p) /\ Running(p)
    BY <1>1, <1>10, <1>11
  <2>4. holder' \in [Key -> Proc \cup {NoProc}]
    BY <1>10, <1>11
  <2> QED BY <1>6, <1>9, <1>11, <2>1, <2>2, <2>3, <2>4, OneStep
<1>12. CASE holder' = holder /\ proc' = [proc EXCEPT ![p] = f]
  BY <1>12, <1>1, <1>4, <1>8, <1>9, OwnStep
<1> QED BY <1>5, <1>11, <1>12 DEF Put, PutFails, r, f

\* A renewal, executed by etcd or not: the time left on the lease covers the
\* renewals that may still be missed.
LEMMA RenewalTimely ==
    ASSUME IInv, NEW p \in Proc, Due(p), NEW s \in ProcState, NEW l \in LeaseState,
           s.pc = proc[p].pc, s.since = proc[p].since, s.sleep = 0,
           \/ s.missed = 0 /\ l.state = "alive" /\ l.ttl = Ttl
           \/ s.missed = OneMore(proc[p].missed) /\ l = lease[p]
    PROVE  Timely(s, l)
<1>1. proc[p].loop /\ proc[p].pc = "up" /\ proc[p].sleep = Interval
  BY ProcType DEF Due, Timely
<1>2. proc[p].since = 0
  BY <1>1, ProcType DEF Timely
<1>3. s.loop => s.sleep <= Interval
  BY TimeAssumption
<1>4. ASSUME Renews(s)
      PROVE  l.state = "alive" /\ l.ttl + PutTimeout + Span(s.missed) + s.sleep >= Ttl
  <2>1. CASE s.missed = 0 /\ l.state = "alive" /\ l.ttl = Ttl
    BY <2>1, SpanFacts, TimeAssumption
  <2>2. CASE s.missed = OneMore(proc[p].missed) /\ l = lease[p]
    <3> DEFINE m == proc[p].missed
    <3>1. m \in Nat /\ m <= Lives /\ lease[p].ttl \in Nat
      BY ProcType, LivesFacts, TimeAssumption DEF ProcState, LeaseState
    <3>2. s.missed = m + 1
      <4>1. CASE m < Lives
        BY <4>1, <2>2 DEF OneMore
      <4>2. CASE ~(m < Lives)
        <5>1. m = Lives /\ s.missed = Lives
          BY <4>2, <3>1, <2>2, LivesFacts DEF OneMore
        <5> QED BY <5>1, <1>4, LivesFacts, SpanFacts, TimeAssumption DEF Renews
      <4> QED BY <4>1, <4>2
    <3>3. /\ Span(m) \in Nat /\ Span(m + 1) = Span(m) + Interval
          /\ Span(m + 1) \in Nat /\ Span((m + 1) + 1) = Span(m + 1) + Interval
      <4>1. m + 1 \in Nat
        BY <3>1
      <4> QED BY <3>1, <4>1, SpanFacts
    <3>4. Span(m + 1) + PutTimeout < Ttl
      BY <1>4, <3>2, <3>3, TimeAssumption DEF Renews
    <3>5. /\ lease[p].state = "alive"
          /\ lease[p].ttl + PutTimeout + Span(m) + proc[p].sleep >= Ttl
      BY <1>1, <3>4, ProcType DEF Timely, Renews
    <3> QED BY <1>1, <2>2, <3>1, <3>2, <3>3, <3>5, TimeAssumption
  <2> QED BY <2>1, <2>2
<1> QED BY <1>1, <1>2, <1>3, <1>4 DEF Timely

LEMMA RefreshInv ==
    ASSUME IInv, NEW p \in Proc, Refresh(p) \/ RefreshFails(p)
    PROVE  IInv'
<1> DEFINE r == [lease[p] EXCEPT !.ttl = Ttl]
           Woken(go, m) == [proc[p] EXCEPT !.sleep = 0, !.loop = go, !.missed = m]
<1>1. Due(p) /\ proc[p].loop /\ Running(p)
  BY ProcType DEF Refresh, RefreshFails, Due, Timely
<1>2. r \in LeaseState /\ r.state = lease[p].state /\ r.ttl = Ttl
  BY ProcType, TimeAssumption DEF LeaseState
<1>3. 0 \in 0..Interval /\ 0 \in 0..Lives /\ OneMore(proc[p].missed) \in 0..Lives
  BY ProcType, TimeAssumption, LivesFacts DEF ProcState, OneMore
<1>4. ASSUME NEW go \in BOOLEAN, NEW m \in 0..Lives
      PROVE  /\ Woken(go, m) \in ProcState
             /\ Woken(go, m).pc = proc[p].pc /\ Woken(go, m).kind = proc[p].kind
             /\ Woken(go, m).sleep = 0 /\ Woken(go, m).missed = m
             /\ Woken(go, m).since = proc[p].since
  BY <1>3, ProcType DEF ProcState
<1>5. lease \in [Proc -> LeaseState]
  BY DEF IInv, TypeOK
<1>6. UNCHANGED <<holder, link>>
  BY DEF Refresh, RefreshFails
<1>7. \E go \in BOOLEAN :
        \/ /\ Alive(p) /\ lease' = [lease EXCEPT ![p] = r]
           /\ proc' = [proc EXCEPT ![p] = Woken(go, 0)]
        \/ /\ lease' = [lease EXCEPT ![p] = lease[p]]
           /\ proc' = [proc EXCEPT ![p] = Woken(go, OneMore(proc[p].missed))]
  <2>1. CASE Refresh(p)
    <3>1. \A m \in 0..Lives : [proc[p] EXCEPT !.sleep = 0, !.missed = m] = Woken(TRUE, m)
      BY <1>1, ProcType DEF ProcState
    <3>2. CASE Alive(p)
      BY <3>2, <3>1, <1>3, <2>1 DEF Refresh, RenewLease
    <3>3. CASE ~Alive(p)
      BY <3>3, <3>1, <1>3, <1>5, <2>1 DEF Refresh, RenewLease
    <3> QED BY <3>2, <3>3
  <2>2. CASE RefreshFails(p)
    <3>1. PICK executed \in BOOLEAN :
            /\ IF executed THEN RenewLease(p) ELSE UNCHANGED lease
            /\ proc' = [proc EXCEPT ![p] = [@ EXCEPT !.sleep = 0,
                          !.loop = IsJava(p),
                          !.missed = IF executed /\ Alive(p) THEN 0 ELSE OneMore(proc[p].missed)]]
      BY <2>2 DEF RefreshFails
    <3>2. IsJava(p) \in BOOLEAN
      OBVIOUS
    <3>3. CASE executed /\ Alive(p)
      BY <3>1, <3>2, <3>3 DEF RenewLease
    <3>4. CASE ~(executed /\ Alive(p))
      BY <3>1, <3>2, <3>4, <1>5 DEF RenewLease
    <3> QED BY <3>3, <3>4
  <2> QED BY <2>1, <2>2
<1> HIDE DEF r, Woken
<1>8. ASSUME NEW go \in BOOLEAN, Alive(p), lease' = [lease EXCEPT ![p] = r],
             proc' = [proc EXCEPT ![p] = Woken(go, 0)]
      PROVE  IInv'
  <2>1. Timely(Woken(go, 0), r)
    BY <1>1, <1>2, <1>3, <1>4, <1>8, RenewalTimely
  <2> QED BY <2>1, <1>1, <1>2, <1>3, <1>4, <1>6, <1>8, KeylessStep DEF Runs
<1>9. ASSUME NEW go \in BOOLEAN, lease' = [lease EXCEPT ![p] = lease[p]],
             proc' = [proc EXCEPT ![p] = Woken(go, OneMore(proc[p].missed))]
      PROVE  IInv'
  <2>1. Timely(Woken(go, OneMore(proc[p].missed)), lease[p])
    BY <1>1, <1>3, <1>4, ProcType, RenewalTimely
  <2> QED BY <2>1, <1>1, <1>3, <1>4, <1>6, <1>9, ProcType, KeylessStep DEF Runs
<1> QED BY <1>7, <1>8, <1>9

-----------------------------------------------------------------------------
(* The end of a lease and of a process *)

LEMMA EndLeaseStep ==
    ASSUME IInv, NEW p \in Proc, NEW s \in ProcState,
           Timely(s, [state |-> "gone", ttl |-> 0]), s.kind = proc[p].kind,
           Runs(s) => Running(p),
           proc' = [proc EXCEPT ![p] = s],
           EndLease(p), UNCHANGED link
    PROVE  IInv'
<1> DEFINE l == [state |-> "gone", ttl |-> 0]
<1>1. l \in LeaseState /\ l.state = "gone"
  BY TimeAssumption DEF LeaseState
<1>2. /\ holder \in [Key -> Proc \cup {NoProc}] /\ link' \in [Proc -> BOOLEAN]
      /\ holder' = [k \in Key |-> IF holder[k] = p THEN NoProc ELSE holder[k]]
  BY DEF IInv, TypeOK, EndLease
<1>3. /\ holder' \in [Key -> Proc \cup {NoProc}]
      /\ \A k \in Key : holder'[k] # p /\ holder'[k] \in {NoProc, holder[k]}
      /\ \A k \in Key : holder'[k] = holder[k] \/ holder[k] = p
  BY <1>2, ProcAssumption
<1>4. lease' = [lease EXCEPT ![p] = l]
  BY DEF EndLease
<1> HIDE DEF l
<1>5. Timely(s, l)
  BY DEF l
<1> QED BY <1>1, <1>2, <1>3, <1>4, <1>5, OneStep

\* A process that ends.
LEMMA EndedFacts ==
    ASSUME IInv, NEW p \in Proc, Running(p)
    PROVE  \E s \in ProcState :
             /\ Ended(p) = [proc EXCEPT ![p] = s]
             /\ s.pc = "ended" /\ s.kind = proc[p].kind /\ ~s.loop
             /\ Timely(s, lease[p]) /\ Timely(s, [state |-> "gone", ttl |-> 0])
<1> DEFINE s == [proc[p] EXCEPT !.pc = "ended", !.leaseId = FALSE,
                                !.loop = FALSE, !.sleep = 0, !.missed = 0]
<1>1. 0 \in 0..Interval /\ 0 \in 0..Lives
  BY TimeAssumption, LivesFacts
<1>2. /\ s \in ProcState /\ s.pc = "ended" /\ s.kind = proc[p].kind /\ ~s.loop
      /\ s.since = proc[p].since
  BY <1>1, ProcType DEF ProcState
<1>3. s.since = 0
  BY <1>2, ProcType DEF Timely
<1>4. lease[p].ttl \in 0..Ttl
  BY ProcType DEF LeaseState
<1>5. Timely(s, lease[p]) /\ Timely(s, [state |-> "gone", ttl |-> 0])
  BY <1>2, <1>3, <1>4, TimeAssumption DEF Timely, Renews
<1>6. Ended(p) = [proc EXCEPT ![p] = s]
  BY DEF Ended
<1> QED BY <1>2, <1>5, <1>6

LEMMA StopInv ==
    ASSUME IInv, NEW p \in Proc, Stop(p)
    PROVE  IInv'
<1>1. At(p, "up") /\ Running(p) /\ proc' = Ended(p) /\ link' = link
  BY DEF Stop
<1>2. PICK s \in ProcState :
        /\ proc' = [proc EXCEPT ![p] = s]
        /\ s.pc = "ended" /\ s.kind = proc[p].kind /\ ~s.loop
        /\ Timely(s, lease[p]) /\ Timely(s, [state |-> "gone", ttl |-> 0])
  BY <1>1, EndedFacts
<1>3. /\ proc' = [proc EXCEPT ![p] = s] /\ s.kind = proc[p].kind
      /\ ~Runs(s) /\ ~s.loop /\ Timely(s, lease[p])
  BY <1>2 DEF Runs
<1>4. CASE EndLease(p)
  BY <1>1, <1>2, <1>4, <1>3, EndLeaseStep
<1>5. CASE UNCHANGED <<lease, holder>>
  BY <1>1, <1>5, <1>3, OwnStep
<1>6. CASE holder' = [holder EXCEPT ![KeyOf(p)] = NoProc] /\ lease' = lease
  <2>1. /\ holder \in [Key -> Proc \cup {NoProc}] /\ link' \in [Proc -> BOOLEAN]
        /\ lease' = [lease EXCEPT ![p] = lease[p]] /\ lease[p] \in LeaseState
    BY <1>1, <1>6 DEF IInv, TypeOK
  <2>2. /\ holder' \in [Key -> Proc \cup {NoProc}] /\ holder'[KeyOf(p)] = NoProc
        /\ \A k \in Key \ {KeyOf(p)} : holder'[k] = holder[k]
    BY <1>6, <2>1, KeyOfType
  <2>3. \A k \in Key : holder'[k] = p => lease[p].state = "alive"
    BY <2>2, ProcAssumption DEF IInv, HeldByLease
  <2>4. \A k \in Key : \/ holder'[k] \in {NoProc, holder[k]}
                       \/ k = KeyOf(p) /\ holder'[k] = p
    BY <2>2
  <2>5. ~Replicas =>
          /\ Runs(s) => \/ Running(p)
                        \/ \A q \in Proc : KeyOf(q) = KeyOf(p) => ~Running(q)
          /\ s.loop /\ lease[p].state = "alive" => holder'[KeyOf(p)] = p
          /\ \A k \in Key : \/ holder'[k] = holder[k] \/ holder[k] = p
                            \/ k = KeyOf(p) /\ Running(p)
    BY <1>1, <1>3, <2>2
  <2> QED BY <1>3, <2>1, <2>2, <2>3, <2>4, <2>5, OneStep
<1>7. EndLease(p) \/ UNCHANGED <<lease, holder>>
      \/ (holder' = [holder EXCEPT ![KeyOf(p)] = NoProc] /\ lease' = lease)
  <2>1. CASE IsJava(p) /\ proc[p].leaseId
    BY <2>1 DEF Stop
  <2>2. CASE ~(IsJava(p) /\ proc[p].leaseId) /\ proc[p].kind = "tidy"
    BY <2>2 DEF Stop
  <2>3. CASE ~(IsJava(p) /\ proc[p].leaseId) /\ proc[p].kind # "tidy"
    BY <2>3 DEF Stop
  <2> QED BY <2>1, <2>2, <2>3
<1> QED BY <1>4, <1>5, <1>6, <1>7

LEMMA CrashInv ==
    ASSUME IInv, NEW p \in Proc, Crash(p)
    PROVE  IInv'
<1>1. Running(p) /\ proc' = Ended(p) /\ UNCHANGED <<lease, holder, link>>
  BY DEF Crash
<1> PICK s \in ProcState :
      /\ proc' = [proc EXCEPT ![p] = s]
      /\ s.pc = "ended" /\ s.kind = proc[p].kind /\ ~s.loop
      /\ Timely(s, lease[p])
  BY <1>1, EndedFacts
<1>2. ~Runs(s)
  BY DEF Runs
<1> QED BY <1>1, <1>2, OwnStep

\* A lease runs out only when too many renewals were missed, or none is made.
LEMMA ExpireInv ==
    ASSUME IInv, NEW p \in Proc, Expire(p)
    PROVE  IInv'
<1>1. Alive(p) /\ lease[p].ttl = 0 /\ EndLease(p) /\ UNCHANGED <<proc, link>>
  BY DEF Expire
<1>2. proc' = [proc EXCEPT ![p] = proc[p]]
  BY <1>1 DEF IInv, TypeOK
<1>3. ~(proc[p].pc = "putting")
  BY <1>1, ProcType, TimeAssumption DEF Timely, ProcState
<1>4. ~Renews(proc[p])
  <2> SUFFICES ASSUME Renews(proc[p]) PROVE FALSE
    OBVIOUS
  <2>1. proc[p].sleep <= Interval /\ proc[p].sleep \in Nat
        /\ PutTimeout + Span(proc[p].missed) + proc[p].sleep >= Ttl
    BY <1>1, ProcType, TimeAssumption, SpanFacts DEF Timely, Renews, ProcState
  <2>2. proc[p].missed \in Nat
    BY ProcType, LivesFacts DEF ProcState
  <2>3. /\ Span(proc[p].missed) \in Nat
        /\ Span(proc[p].missed + 1) = Span(proc[p].missed) + Interval
    BY <2>2, SpanFacts
  <2>4. Span(proc[p].missed + 1) + PutTimeout < Ttl
    BY DEF Renews
  <2> QED BY <2>1, <2>3, <2>4, TimeAssumption
<1>5. Timely(proc[p], [state |-> "gone", ttl |-> 0])
  BY <1>3, <1>4, ProcType DEF Timely
<1>6. Runs(proc[p]) => Running(p)
  BY DEF Runs
<1> QED BY <1>1, <1>2, <1>5, <1>6, ProcType, EndLeaseStep

LEMMA LinkChangesInv ==
    ASSUME IInv, NEW p \in Proc, LinkChanges(p)
    PROVE  IInv'
<1>1. UNCHANGED <<proc, lease, holder>> /\ link' \in [Proc -> BOOLEAN]
  BY DEF LinkChanges, IInv, TypeOK
<1>2. TypeOK'
  BY <1>1 DEF IInv, TypeOK
<1>3. (\A q \in Proc : Timely(proc[q], lease[q]))'
  BY <1>1 DEF IInv
<1>4. HeldByLease' /\ (~Replicas => OnePerKey' /\ RenewsItsKey')
  BY <1>1 DEF IInv, HeldByLease, OnePerKey, RenewsItsKey, KeyOf
<1> QED BY <1>2, <1>3, <1>4 DEF IInv

-----------------------------------------------------------------------------
(* Time *)

\* What a tick does to one process and its lease.
LEMMA TickOne ==
    ASSUME IInv, Tick, NEW p \in Proc
    PROVE  /\ proc'[p] \in ProcState /\ lease'[p] \in LeaseState
           /\ proc'[p].pc = proc[p].pc /\ proc'[p].kind = proc[p].kind
           /\ proc'[p].loop = proc[p].loop /\ lease'[p].state = lease[p].state
           /\ Timely(proc'[p], lease'[p])
<1> DEFINE s == proc[p]
           l == lease[p]
<1>1. /\ s.loop => s.sleep # Interval
      /\ l.state = "alive" => l.ttl > 0
      /\ s.pc = "putting" => s.sleep < PutTimeout
  BY DEF Tick, Due
<1>2. /\ s \in ProcState /\ l \in LeaseState /\ Timely(s, l)
      /\ s.sleep \in Nat /\ s.since \in Nat /\ s.since <= Ttl + 1
      /\ l.ttl \in Nat /\ l.ttl <= Ttl /\ s.missed \in Nat
  BY ProcType, TimeAssumption, LivesFacts DEF ProcState, LeaseState
<1>3. proc'[p] = [s EXCEPT !.sleep = proc'[p].sleep, !.since = proc'[p].since]
      /\ proc'[p].sleep = (IF s.loop \/ s.pc = "putting" THEN s.sleep + 1 ELSE s.sleep)
      /\ proc'[p].since = (IF s.pc = "ended" /\ s.since <= Ttl THEN s.since + 1 ELSE s.since)
  BY <1>2 DEF Tick, ProcState
<1>4. /\ lease'[p] = [l EXCEPT !.ttl = lease'[p].ttl]
      /\ lease'[p].ttl = IF l.state = "alive" THEN l.ttl - 1 ELSE l.ttl
  BY <1>2 DEF Tick, LeaseState
<1> HIDE DEF s, l
<1>5. /\ proc'[p].sleep \in 0..Interval \cup 0..PutTimeout
      /\ s.loop => proc'[p].sleep <= Interval
      /\ s.pc = "putting" => proc'[p].sleep <= PutTimeout
  <2>1. CASE s.loop
    <3>1. s.sleep <= Interval /\ s.pc = "up"
      BY <2>1, <1>2 DEF Timely
    <3> QED BY <3>1, <2>1, <1>1, <1>2, <1>3, TimeAssumption
  <2>2. CASE ~s.loop /\ s.pc = "putting"
    BY <2>2, <1>1, <1>2, <1>3, TimeAssumption
  <2>3. CASE ~s.loop /\ s.pc # "putting"
    BY <2>3, <1>2, <1>3 DEF ProcState
  <2> QED BY <2>1, <2>2, <2>3
<1>6. proc'[p].since \in 0..(Ttl + 1)
  BY <1>2, <1>3, TimeAssumption
<1>7. lease'[p].ttl \in 0..Ttl
  BY <1>1, <1>2, <1>4, TimeAssumption
<1>8. /\ proc'[p] \in ProcState /\ proc'[p].pc = s.pc /\ proc'[p].kind = s.kind
      /\ proc'[p].loop = s.loop /\ proc'[p].missed = s.missed
  BY <1>2, <1>3, <1>5, <1>6 DEF ProcState
<1>9. lease'[p] \in LeaseState /\ lease'[p].state = l.state
  BY <1>2, <1>4, <1>7 DEF LeaseState
<1>10. Timely(proc'[p], lease'[p])
  <2>1. proc'[p].pc = "putting" =>
          /\ ~proc'[p].loop /\ proc'[p].missed = 0 /\ proc'[p].sleep <= PutTimeout
          /\ lease'[p].state = "alive" /\ lease'[p].ttl + proc'[p].sleep = Ttl
    BY <1>2, <1>3, <1>4, <1>5, <1>8, <1>9, TimeAssumption DEF Timely
  <2>2. ASSUME Renews(proc'[p])
        PROVE  /\ lease'[p].state = "alive"
               /\ lease'[p].ttl + PutTimeout + Span(proc'[p].missed)
                    + proc'[p].sleep >= Ttl
    <3>1. /\ s.loop /\ l.state = "alive"
          /\ l.ttl + PutTimeout + Span(s.missed) + s.sleep >= Ttl
      BY <2>2, <1>2, <1>8 DEF Timely, Renews
    <3>2. Span(s.missed) \in Nat
      BY <1>2, SpanFacts
    <3> QED BY <3>1, <3>2, <1>2, <1>3, <1>4, <1>8, <1>9, TimeAssumption
  <2>3. proc'[p].pc = "ended" =>
          ~proc'[p].loop /\ (lease'[p].state = "alive"
                               => proc'[p].since + lease'[p].ttl <= Ttl)
    BY <1>1, <1>2, <1>3, <1>4, <1>8, <1>9, TimeAssumption DEF Timely
  <2>4. /\ proc'[p].loop => proc'[p].pc = "up" /\ proc'[p].sleep <= Interval
        /\ proc'[p].pc # "ended" => proc'[p].since = 0
        /\ proc'[p].pc \in {"new", "granting"} =>
             ~proc'[p].loop /\ proc'[p].sleep = 0 /\ proc'[p].missed = 0
    BY <1>2, <1>3, <1>5, <1>8 DEF Timely
  <2> QED BY <2>1, <2>2, <2>3, <2>4 DEF Timely
<1> QED BY <1>8, <1>9, <1>10 DEF s, l

LEMMA TickInv ==
    ASSUME IInv, Tick
    PROVE  IInv'
<1>1. UNCHANGED <<holder, link>>
  BY DEF Tick
<1>2. TypeOK'
  <2>1. proc' \in [Proc -> ProcState]
    <3>1. proc' = [p \in Proc |-> proc'[p]]
      BY DEF Tick
    <3> QED BY <3>1, TickOne
  <2>2. lease' \in [Proc -> LeaseState]
    <3>1. lease' = [p \in Proc |-> lease'[p]]
      BY DEF Tick
    <3> QED BY <3>1, TickOne
  <2> QED BY <1>1, <2>1, <2>2 DEF IInv, TypeOK
<1>3. (\A p \in Proc : Timely(proc[p], lease[p]))'
  <2>1. \A p \in Proc : Timely(proc'[p], lease'[p])
    BY TickOne
  <2> QED BY <2>1 DEF Timely, Renews
<1>4. HeldByLease'
  BY <1>1, TickOne DEF IInv, HeldByLease, KeyOf
<1>5. ~Replicas => OnePerKey' /\ RenewsItsKey'
  BY <1>1, TickOne DEF IInv, OnePerKey, RenewsItsKey, KeyOf
<1> QED BY <1>2, <1>3, <1>4, <1>5 DEF IInv

-----------------------------------------------------------------------------
(* The theorems *)

LEMMA NextInv == IInv /\ [Next]_vars => IInv'
<1> SUFFICES ASSUME IInv, [Next]_vars PROVE IInv'
  OBVIOUS
<1>1. CASE Tick
  BY <1>1, TickInv
<1>2. ASSUME NEW p \in Proc, Start(p) \/ Stop(p) \/ Crash(p) \/ LinkChanges(p)
      PROVE  IInv'
  BY <1>2, StartInv, StopInv, CrashInv, LinkChangesInv
<1>3. ASSUME NEW p \in Proc, Program(p) \/ Expire(p)
      PROVE  IInv'
  BY <1>3, GrantInv, PutInv, RefreshInv, ExpireInv DEF Program
<1>4. CASE UNCHANGED vars
  <2>1. proc' = proc /\ lease' = lease /\ holder' = holder /\ link' = link
    BY <1>4 DEF vars
  <2> QED BY <2>1 DEF IInv, TypeOK, Timely, Renews, HeldByLease, OnePerKey,
                      RenewsItsKey, KeyOf
<1> QED BY <1>1, <1>2, <1>3, <1>4 DEF Next

LEMMA Invariant == Spec => []IInv
  BY InitInv, NextInv, PTL DEF Spec

\* Every reachable state of the registry is well typed.
THEOREM RegistryTypeCorrect == Spec => []TypeOK
<1>1. IInv => TypeOK
  BY DEF IInv
<1> QED BY <1>1, Invariant, PTL

\* Once the time of a lease has passed, nothing is left of a process that has
\* ended: crashed, stopped with or without deregistering, at whatever moment of
\* register(), also where replicas share a key.
THEOREM EndedLeavesNoGhost == Spec => []NoGhost
<1>1. IInv => NoGhost
  <2> SUFFICES ASSUME IInv, NEW p \in Proc, proc[p].since > Ttl,
                      NEW k \in Key, holder[k] = p
               PROVE  FALSE
    BY DEF NoGhost
  <2>1. Alive(p)
    BY DEF IInv, HeldByLease
  <2>2. lease[p].ttl \in Nat /\ proc[p].since \in Nat
    BY ProcType, TimeAssumption DEF ProcState, LeaseState
  <2>3. proc[p].since = 0 \/ proc[p].since + lease[p].ttl <= Ttl
    BY <2>1, ProcType DEF Timely
  <2> QED BY <2>2, <2>3, TimeAssumption
<1> QED BY <1>1, Invariant, PTL

\* Where the processes of one key run one after the other, the one that renews
\* is found under it, through as many missed renewals as its lease tolerates.
THEOREM RenewingIsFound ==
    ASSUME ~Replicas
    PROVE  Spec => []RenewingIsDiscoverable
<1>1. IInv => RenewingIsDiscoverable
  <2> SUFFICES ASSUME IInv, NEW p \in Proc, Renewing(p)
               PROVE  holder[KeyOf(p)] = p
    BY DEF RenewingIsDiscoverable
  <2>1. Renews(proc[p]) /\ proc[p].loop
    BY DEF Renewing, Renews, Span
  <2>2. Alive(p)
    BY <2>1, ProcType DEF Timely
  <2> QED BY <2>1, <2>2 DEF IInv, RenewsItsKey
<1> QED BY <1>1, Invariant, PTL
=============================================================================
