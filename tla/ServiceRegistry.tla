-------------------------- MODULE ServiceRegistry --------------------------
(***************************************************************************)
(* Service registration in etcd: EtcdServiceRegistry of the Python         *)
(* agent-core (agentcook-swarm/services/agent-core/etcd_registry.py, used  *)
(* by its main.py) and EtcdServiceRegistry.java (used by                   *)
(* ServiceRegistryConfig.java).  Both put a key under a lease and renew    *)
(* the lease every Interval; they differ in what ends the renewal and in   *)
(* what they do when they stop.                                            *)
(*                                                                         *)
(* A process registers once in its life, so a restart is another process   *)
(* with the same key.  Time is a tick; a tick waits for a renewal that is  *)
(* due and for a lease that has run out.  A request on a broken link       *)
(* raises, and etcd may have executed it all the same.  etcd itself is     *)
(* external: a key is removed with the lease it was last put under.        *)
(***************************************************************************)
EXTENDS Naturals

CONSTANTS
    Proc,           \* processes, one life each
    NoProc,         \* no process
    PidOne,         \* the instance id that agent-core's processes share
    Kinds,          \* the kinds of processes to look at
    Replicas,       \* processes with the same key may run side by side
    Ttl,            \* lease TTL, in ticks
    Interval,       \* renewal interval, in ticks
    PutTimeout      \* how long the put may take, in ticks

ASSUME TimeAssumption ==
    Ttl \in Nat /\ Interval \in Nat \ {0} /\ PutTimeout \in Nat
    /\ Interval + PutTimeout < Ttl
ASSUME ProcAssumption == NoProc \notin Proc /\ PidOne \notin Proc
ASSUME KindAssumption == Kinds \subseteq {"java", "python", "tidy"}

VARIABLES
    proc,       \* proc[p]: where p is, and its renewal loop
    lease,      \* lease[p]: the lease p was granted, as etcd has it
    holder,     \* holder[k]: whose lease k hangs on; NoProc: k is not there
    link        \* link[p]: p reaches etcd

vars == <<proc, lease, holder, link>>

\* An instance id stands for the key /agentcook/services/{name}/{instance_id}.
Key == Proc \cup {PidOne}

Lives == Ttl \div Interval

\* kind is "java", "python" (agent-core, whose main() does not deregister) or
\* "tidy" (Python with an owner that calls deregister).  missed counts the
\* renewals in a row that did nothing, since the ticks since the process ended.
ProcState ==
    [kind : Kinds, pc : {"new", "granting", "putting", "up", "ended"},
     leaseId : BOOLEAN, loop : BOOLEAN, sleep : 0..Interval \cup 0..PutTimeout,
     missed : 0..Lives, since : 0..(Ttl + 1)]
LeaseState == [state : {"none", "alive", "gone"}, ttl : 0..Ttl]

TypeOK ==
    /\ proc \in [Proc -> ProcState]
    /\ lease \in [Proc -> LeaseState]
    /\ holder \in [Key -> Proc \cup {NoProc}]
    /\ link \in [Proc -> BOOLEAN]

Init ==
    /\ \E kind \in [Proc -> Kinds] :
         proc = [p \in Proc |-> [kind |-> kind[p], pc |-> "new", leaseId |-> FALSE,
                                 loop |-> FALSE, sleep |-> 0, missed |-> 0,
                                 since |-> 0]]
    /\ lease = [p \in Proc |-> [state |-> "none", ttl |-> 0]]
    /\ holder = [k \in Key |-> NoProc]
    /\ link \in [Proc -> BOOLEAN]

At(p, pc) == proc[p].pc = pc
IsJava(p) == proc[p].kind = "java"

\* Java draws a UUID in every life, agent-core takes os.getpid().
KeyOf(p) == IF IsJava(p) THEN p ELSE PidOne

Running(p) == proc[p].pc \in {"granting", "putting", "up"}
Alive(p) == lease[p].state = "alive"

-----------------------------------------------------------------------------
(* What a request does in etcd *)

GrantLease(p) ==
    lease' = [lease EXCEPT ![p] = [state |-> "alive", ttl |-> Ttl]]

\* A put under a lease takes the key from the lease it hung on before.
PutKey(p) == holder' = [holder EXCEPT ![KeyOf(p)] = p]

RenewLease(p) ==
    lease' = IF Alive(p) THEN [lease EXCEPT ![p].ttl = Ttl] ELSE lease

EndLease(p) ==
    /\ lease' = [lease EXCEPT ![p] = [state |-> "gone", ttl |-> 0]]
    /\ holder' = [k \in Key |-> IF holder[k] = p THEN NoProc ELSE holder[k]]

-----------------------------------------------------------------------------
(* register() *)

Start(p) ==
    /\ At(p, "new")
    /\ Replicas \/ \A q \in Proc : KeyOf(q) = KeyOf(p) => ~Running(q)
    /\ proc' = [proc EXCEPT ![p].pc = "granting"]
    /\ UNCHANGED <<lease, holder, link>>

Grant(p) ==
    /\ At(p, "granting") /\ link[p]
    /\ GrantLease(p)
    /\ proc' = [proc EXCEPT ![p] = [@ EXCEPT !.pc = "putting", !.leaseId = TRUE]]
    /\ UNCHANGED <<holder, link>>

\* The exception is caught: the service runs without discovery.
GrantFails(p) ==
    /\ At(p, "granting") /\ ~link[p]
    /\ GrantLease(p) \/ UNCHANGED lease
    /\ proc' = [proc EXCEPT ![p].pc = "up"]
    /\ UNCHANGED <<holder, link>>

\* Slip: a transaction that puts the key only when it is not there yet.
PutIfAbsent(p) ==
    /\ At(p, "putting") /\ link[p]
    /\ IF Alive(p)
       THEN /\ IF holder[KeyOf(p)] = NoProc THEN PutKey(p) ELSE UNCHANGED holder
            /\ proc' = [proc EXCEPT ![p] = [@ EXCEPT !.pc = "up", !.loop = TRUE,
                                                     !.sleep = 0]]
       ELSE /\ proc' = [proc EXCEPT ![p] = [@ EXCEPT !.pc = "up", !.sleep = 0]]
            /\ UNCHANGED holder
    /\ UNCHANGED <<lease, link>>

\* etcd refuses a put under a lease that has run out.
Put(p) ==
    /\ At(p, "putting") /\ link[p]
    /\ IF Alive(p)
       THEN /\ PutKey(p)
            /\ proc' = [proc EXCEPT ![p] = [@ EXCEPT !.pc = "up", !.loop = TRUE,
                                                     !.sleep = 0]]
       ELSE /\ proc' = [proc EXCEPT ![p] = [@ EXCEPT !.pc = "up", !.sleep = 0]]
            /\ UNCHANGED holder
    /\ UNCHANGED <<lease, link>>

\* The key may be there, but nothing renews its lease.
PutFails(p) ==
    /\ At(p, "putting") /\ ~link[p]
    /\ \/ Alive(p) /\ PutKey(p)
       \/ UNCHANGED holder
    /\ proc' = [proc EXCEPT ![p] = [@ EXCEPT !.pc = "up", !.sleep = 0]]
    /\ UNCHANGED <<lease, link>>

-----------------------------------------------------------------------------
(* The renewal: _keepalive_loop and the scheduled task *)

OneMore(missed) == IF missed < Lives THEN missed + 1 ELSE missed

\* Slip: the loop sleeps one tick too long.
DueLate(p) == proc[p].loop /\ proc[p].sleep > Interval

Due(p) == proc[p].loop /\ proc[p].sleep = Interval

\* Renewing a lease that is gone does nothing, and the loop goes on.
Refresh(p) ==
    /\ Due(p) /\ link[p]
    /\ RenewLease(p)
    /\ proc' = [proc EXCEPT ![p] = [@ EXCEPT !.sleep = 0,
                  !.missed = IF Alive(p) THEN 0 ELSE OneMore(proc[p].missed)]]
    /\ UNCHANGED <<holder, link>>

\* Python's loop breaks on the first exception, Java's logs it and goes on.
RefreshFails(p) ==
    /\ Due(p) /\ ~link[p]
    /\ \E executed \in BOOLEAN :
        /\ IF executed THEN RenewLease(p) ELSE UNCHANGED lease
        /\ proc' = [proc EXCEPT ![p] = [@ EXCEPT !.sleep = 0,
                      !.loop = IsJava(p),
                      !.missed = IF executed /\ Alive(p) THEN 0
                                 ELSE OneMore(proc[p].missed)]]
    /\ UNCHANGED <<holder, link>>

-----------------------------------------------------------------------------
(* The end of a process *)

Ended(p) == [proc EXCEPT ![p] = [@ EXCEPT !.pc = "ended", !.leaseId = FALSE,
                                    !.loop = FALSE, !.sleep = 0, !.missed = 0]]

\* Slip: deregister() leaves the renewal running.
StopKeepsRenewing(p) ==
    /\ At(p, "up")
    /\ proc' = [proc EXCEPT ![p].pc = "ended"]
    /\ \/ IsJava(p) /\ proc[p].leaseId /\ EndLease(p)
       \/ ~(IsJava(p) /\ proc[p].leaseId /\ link[p]) /\ UNCHANGED <<lease, holder>>
    /\ UNCHANGED link

\* Java revokes its lease, if it knows it; a Python owner that calls
\* deregister deletes its key, whoever put it last.  agent-core's main() does
\* not.
Stop(p) ==
    /\ At(p, "up")
    /\ proc' = Ended(p)
    /\ CASE IsJava(p) /\ proc[p].leaseId ->
                EndLease(p) \/ (~link[p] /\ UNCHANGED <<lease, holder>>)
         [] proc[p].kind = "tidy" ->
                /\ \/ holder' = [holder EXCEPT ![KeyOf(p)] = NoProc]
                   \/ ~link[p] /\ UNCHANGED holder
                /\ UNCHANGED lease
         [] OTHER -> UNCHANGED <<lease, holder>>
    /\ UNCHANGED link

Crash(p) ==
    /\ Running(p)
    /\ proc' = Ended(p)
    /\ UNCHANGED <<lease, holder, link>>

-----------------------------------------------------------------------------
(* Network and time *)

\* The link of a process that does not run is nobody's concern.
LinkChanges(p) ==
    /\ Running(p)
    /\ link' = [link EXCEPT ![p] = ~@]
    /\ UNCHANGED <<proc, lease, holder>>

Expire(p) ==
    /\ Alive(p) /\ lease[p].ttl = 0
    /\ EndLease(p)
    /\ UNCHANGED <<proc, link>>

Tick ==
    /\ \A p \in Proc : ~Due(p) /\ (Alive(p) => lease[p].ttl > 0)
                       /\ (At(p, "putting") => proc[p].sleep < PutTimeout)
    /\ proc' = [p \in Proc |->
                  [proc[p] EXCEPT
                     !.sleep = IF proc[p].loop \/ At(p, "putting") THEN @ + 1 ELSE @,
                     !.since = IF At(p, "ended") /\ @ <= Ttl THEN @ + 1 ELSE @]]
    /\ lease' = [p \in Proc |->
                   IF Alive(p) THEN [lease[p] EXCEPT !.ttl = @ - 1] ELSE lease[p]]
    /\ UNCHANGED <<holder, link>>

Program(p) ==
    Grant(p) \/ GrantFails(p) \/ Put(p) \/ PutFails(p) \/ Refresh(p) \/ RefreshFails(p)

Next ==
    \/ Tick
    \/ \E p \in Proc : \/ Start(p) \/ Stop(p) \/ Crash(p) \/ LinkChanges(p)
                       \/ Program(p) \/ Expire(p)

Spec == Init /\ [][Next]_vars

-----------------------------------------------------------------------------
(* Properties *)

Discoverable(p) == holder[KeyOf(p)] = p

Renewing(p) ==
    proc[p].loop /\ (proc[p].missed + 1) * Interval + PutTimeout < Ttl

\* A process that renews its lease is found by discover(), through as many
\* missed renewals as fit into a lease: the expiry of the lease of a life
\* before never takes the key of the present one with it.
RenewingIsDiscoverable == \A p \in Proc : Renewing(p) => Discoverable(p)

\* A process that has ended, in whatever way and at whatever moment of its
\* registration, is no longer found once a lease's time has passed.
NoGhost ==
    \A p \in Proc : proc[p].since > Ttl => \A k \in Key : holder[k] # p

\* README.md:120 of agentcook-swarm, "registers each service on startup with a
\* 30 s TTL keepalive": as long as a process renews, discover() finds an
\* instance under its key.  main.py takes the process id as instance id.
RenewingHasEntry ==
    \A p \in Proc : Renewing(p) => holder[KeyOf(p)] # NoProc
=============================================================================
