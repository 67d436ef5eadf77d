--------------------------- MODULE CallbackGuards ---------------------------
(***************************************************************************)
(* The guards a button press passes in navigate(): the per-user callback   *)
(* lock and the short-lived navigation debounce of                         *)
(* app/services/callback_protection.py.                                    *)
(*                                                                         *)
(* One chat and user, one button: every handler of the model competes for  *)
(* the same lock key and the same fingerprint, and keys do not interact.   *)
(* A handler runs in one process; each process has a lock manager and an   *)
(* idempotency store of its own, which use Redis until a first failed call *)
(* and their own memory from then on.  A call of either class does not     *)
(* suspend, so each is one action.  Time passes in seconds.                *)
(***************************************************************************)
EXTENDS Integers

CONSTANTS
    Procs,          \* processes that deliver updates to navigate()
    Handlers,       \* presses of the button
    None,           \* no owner
    ProcOf,         \* the process that receives a press
    Deployments,    \* whether REDIS_URL is configured: the cases to consider
    LeaseTtl,       \* ttl_seconds of the callback lock
    SeenTtl,        \* NAVIGATION_IDEMPOTENCY_TTL_SECONDS
    MaxFaults,      \* bound: Redis calls that fail or lose their reply
    MaxCrashes      \* bound: process restarts

ASSUME GuardAssumption ==
    /\ ProcOf \in [Handlers -> Procs]
    /\ None \notin Handlers
    /\ Deployments \subseteq BOOLEAN
    /\ LeaseTtl \in Nat \ {0} /\ SeenTtl \in Nat \ {0}
    /\ MaxFaults \in Nat /\ MaxCrashes \in Nat

VARIABLES
    redisEnabled, \* whether this deployment has a REDIS_URL
    stage,       \* where each handler is
    handle,      \* the LockHandle a handler holds: [backend, left]
    redis,       \* the lock key in Redis: [owner, left]
    memory,      \* per process, _locks and _owners of the key: [owner, left]
    degraded,    \* processes whose lock manager has redis_degraded set
    seenRedis,   \* seconds left of the fingerprint in Redis, 0 when absent
    seenMemory,  \* the same for _seen of each process
    seenDegraded,\* processes whose idempotency store is degraded
    window,      \* per process, seconds left of the debounce of a press it
                 \* accepted (history)
    faults, crashes

locks == <<handle, redis, memory, degraded>>
seen == <<seenRedis, seenMemory, seenDegraded, window>>
vars == <<redisEnabled, stage, locks, seen, faults, crashes>>

Stages == {"new", "refused", "locked", "duplicate", "accepted", "done", "lost"}

\* The stages in which navigate() is between acquire and release.
Running == {"locked", "duplicate", "accepted"}

Free == [owner |-> None, left |-> 0]

NoHandle == [backend |-> "none", left |-> 0]

Less1(n) == IF n = 0 THEN 0 ELSE n - 1

Fault == faults < MaxFaults /\ faults' = faults + 1

NoFault == UNCHANGED faults

UsesRedis(p) == redisEnabled /\ p \notin degraded

-----------------------------------------------------------------------------
Init ==
    /\ redisEnabled \in Deployments
    /\ stage = [h \in Handlers |-> "new"]
    /\ handle = [h \in Handlers |-> NoHandle]
    /\ redis = Free
    /\ memory = [p \in Procs |-> Free]
    /\ degraded = {}
    /\ seenRedis = 0
    /\ seenMemory = [p \in Procs |-> 0]
    /\ seenDegraded = {}
    /\ window = [p \in Procs |-> 0]
    /\ faults = 0 /\ crashes = 0

Holds(h, backend) ==
    /\ stage' = [stage EXCEPT ![h] = "locked"]
    /\ handle' = [handle EXCEPT ![h] = [backend |-> backend, left |-> LeaseTtl]]

Refused(h) ==
    /\ stage' = [stage EXCEPT ![h] = "refused"]
    /\ UNCHANGED handle

SetNx(h) == redis' = IF redis = Free THEN [owner |-> h, left |-> LeaseTtl] ELSE redis

\* A variant of MemoryAcquire: an expired lease is reclaimed without a check.
MemoryAcquireAlways(h) ==
    /\ memory' = [memory EXCEPT ![ProcOf[h]] = [owner |-> h, left |-> LeaseTtl]]
    /\ Holds(h, "memory")

\* The memory path of _acquire: a lease that ran out is reclaimed first.
MemoryAcquire(h) ==
    IF memory[ProcOf[h]].left = 0
    THEN /\ memory' = [memory EXCEPT ![ProcOf[h]] = [owner |-> h, left |-> LeaseTtl]]
         /\ Holds(h, "memory")
    ELSE Refused(h) /\ UNCHANGED memory

\* _acquire: SET NX EX on Redis decides; a call that fails degrades the
\* manager for good and goes on to the memory path, whether or not Redis
\* executed it.
AcquireOnRedis(h) ==
    /\ stage[h] = "new" /\ UsesRedis(ProcOf[h])
    /\ \/ /\ NoFault /\ SetNx(h) /\ UNCHANGED <<memory, degraded>>
          /\ IF redis = Free THEN Holds(h, "redis") ELSE Refused(h)
       \/ /\ Fault
          /\ SetNx(h) \/ UNCHANGED redis
          /\ degraded' = degraded \cup {ProcOf[h]}
          /\ MemoryAcquire(h)
    /\ UNCHANGED <<redisEnabled, seen, crashes>>

AcquireInMemory(h) ==
    /\ stage[h] = "new" /\ ~UsesRedis(ProcOf[h])
    /\ MemoryAcquire(h)
    /\ UNCHANGED <<redisEnabled, redis, degraded, seen, faults, crashes>>

Verdict(h, isNew) ==
    /\ stage' = [stage EXCEPT ![h] = IF isNew THEN "accepted" ELSE "duplicate"]
    /\ window' = IF isNew THEN [window EXCEPT ![ProcOf[h]] = SeenTtl] ELSE window

\* The memory path of _mark_seen, after _purge.
MemoryMark(h) ==
    LET p == ProcOf[h] IN
    /\ seenMemory' = IF seenMemory[p] = 0 THEN [seenMemory EXCEPT ![p] = SeenTtl]
                                          ELSE seenMemory
    /\ Verdict(h, seenMemory[p] = 0)

\* A variant of MarkOnRedis: SET EX without NX.
MarkOnRedisAnyway(h) ==
    /\ stage[h] = "locked" /\ redisEnabled /\ ProcOf[h] \notin seenDegraded
    /\ Verdict(h, TRUE) /\ seenRedis' = SeenTtl
    /\ UNCHANGED <<redisEnabled, locks, seenMemory, seenDegraded, faults, crashes>>

\* mark_callback_seen: SET NX EX, with the same fallback.
MarkOnRedis(h) ==
    /\ stage[h] = "locked" /\ redisEnabled /\ ProcOf[h] \notin seenDegraded
    /\ \/ /\ NoFault /\ Verdict(h, seenRedis = 0)
          /\ seenRedis' = IF seenRedis = 0 THEN SeenTtl ELSE seenRedis
          /\ UNCHANGED <<seenMemory, seenDegraded>>
       \/ /\ Fault /\ MemoryMark(h)
          /\ \/ UNCHANGED seenRedis
             \/ seenRedis' = IF seenRedis = 0 THEN SeenTtl ELSE seenRedis
          /\ seenDegraded' = seenDegraded \cup {ProcOf[h]}
    /\ UNCHANGED <<redisEnabled, locks, crashes>>

MarkInMemory(h) ==
    /\ stage[h] = "locked" /\ (~redisEnabled \/ ProcOf[h] \in seenDegraded)
    /\ MemoryMark(h)
    /\ UNCHANGED <<redisEnabled, locks, seenRedis, seenDegraded, faults, crashes>>

\* The memory part of release: only the owner's own entry.
MemoryRelease(h) ==
    memory' = IF memory[ProcOf[h]].owner = h
              THEN [memory EXCEPT ![ProcOf[h]] = Free] ELSE memory

\* A variant of CompareAndDelete: DEL without comparing the owner.
DeleteAny(h) == redis' = Free

CompareAndDelete(h) == redis' = IF redis.owner = h THEN Free ELSE redis

\* release, from the finally clause of navigate(): a handle from Redis is
\* deleted there, even when the manager degraded meanwhile; a failing call
\* falls through to the memory part.
Release(h) ==
    /\ stage[h] \in Running
    /\ stage' = [stage EXCEPT ![h] = "done"]
    /\ handle' = [handle EXCEPT ![h] = NoHandle]
    /\ \/ /\ handle[h].backend = "redis" /\ NoFault
          /\ CompareAndDelete(h) /\ UNCHANGED <<memory, degraded>>
       \/ /\ handle[h].backend = "redis" /\ Fault
          /\ CompareAndDelete(h) \/ UNCHANGED redis
          /\ degraded' = degraded \cup {ProcOf[h]}
          /\ MemoryRelease(h)
       \/ /\ handle[h].backend = "memory" /\ NoFault
          /\ MemoryRelease(h) /\ UNCHANGED <<redis, degraded>>
    /\ UNCHANGED <<redisEnabled, seen, crashes>>

\* health_check and is_locked, called by status screens: a failing call
\* degrades the manager too.
HealthCheck(p) ==
    /\ UsesRedis(p) /\ Fault
    /\ degraded' = degraded \cup {p}
    /\ UNCHANGED <<redisEnabled, stage, handle, redis, memory, seen, crashes>>

\* The process restarts: its handlers and its memory are gone, Redis is not,
\* and its managers try Redis again.
Restart(p) ==
    /\ crashes < MaxCrashes /\ crashes' = crashes + 1
    /\ stage' = [h \in Handlers |->
                   IF ProcOf[h] = p /\ stage[h] \in Running THEN "lost" ELSE stage[h]]
    /\ handle' = [h \in Handlers |-> IF ProcOf[h] = p THEN NoHandle ELSE handle[h]]
    /\ memory' = [memory EXCEPT ![p] = Free]
    /\ degraded' = degraded \ {p}
    /\ seenMemory' = [seenMemory EXCEPT ![p] = 0]
    /\ seenDegraded' = seenDegraded \ {p}
    /\ UNCHANGED <<redisEnabled, redis, seenRedis, window, faults>>

\* A variant of RedisSecond: the key never expires.
RedisSecondNever == [redis EXCEPT !.left = Less1(@)]

RedisSecond == IF redis.left <= 1 THEN Free ELSE [redis EXCEPT !.left = @ - 1]

\* A memory lease that ran out stays until somebody reclaims it.
Second ==
    /\ redis' = RedisSecond
    /\ memory' = [p \in Procs |-> [memory[p] EXCEPT !.left = Less1(@)]]
    /\ handle' = [h \in Handlers |-> [handle[h] EXCEPT !.left = Less1(@)]]
    /\ seenRedis' = Less1(seenRedis)
    /\ seenMemory' = [p \in Procs |-> Less1(seenMemory[p])]
    /\ window' = [p \in Procs |-> Less1(window[p])]
    /\ UNCHANGED <<redisEnabled, stage, degraded, seenDegraded, faults, crashes>>

Next ==
    \/ \E h \in Handlers :
         \/ AcquireOnRedis(h) \/ AcquireInMemory(h)
         \/ MarkOnRedis(h) \/ MarkInMemory(h) \/ Release(h)
    \/ \E p \in Procs : HealthCheck(p) \/ Restart(p)
    \/ Second

Spec == Init /\ [][Next]_vars

-----------------------------------------------------------------------------
(* Properties.                                                             *)

Leases == [owner: Handlers \cup {None}, left: 0 .. LeaseTtl]

\* Every variable keeps its type; the Redis key is there while time is left.
TypeOK ==
    /\ redisEnabled \in Deployments
    /\ stage \in [Handlers -> Stages]
    /\ handle \in [Handlers -> [backend: {"none", "redis", "memory"}, left: 0 .. LeaseTtl]]
    /\ redis \in Leases /\ (redis.owner = None <=> redis.left = 0)
    /\ memory \in [Procs -> Leases]
    /\ degraded \subseteq Procs /\ seenDegraded \subseteq Procs
    /\ seenRedis \in 0 .. SeenTtl
    /\ seenMemory \in [Procs -> 0 .. SeenTtl] /\ window \in [Procs -> 0 .. SeenTtl]
    /\ faults \in 0 .. MaxFaults /\ crashes \in 0 .. MaxCrashes

Valid(h) == stage[h] \in Running /\ handle[h].left > 0

\* The place where a handler's lease is recorded.
SameSpace(g, h) ==
    /\ handle[g].backend = handle[h].backend
    /\ handle[g].backend = "memory" => ProcOf[g] = ProcOf[h]

\* Two handlers of one user run side by side only when a lease ran out or
\* when the lock space was split by a degradation: never with two leases
\* that are both still valid in one space.
OneLeasePerSpace ==
    \A g, h \in Handlers :
        g # h /\ Valid(g) /\ Valid(h) => ~SameSpace(g, h)

\* A lease whose handler still runs is taken from it only by time: a late
\* release, by a handler whose own lease ran out, leaves it alone.
LeaseIsOwn ==
    [][/\ redis.owner # None /\ redis'.owner # redis.owner =>
            redis.left = 1 \/ stage'[redis.owner] # stage[redis.owner]
       /\ \A p \in Procs :
            memory[p].left > 0 /\ memory'[p].owner # memory[p].owner =>
              stage'[memory[p].owner] # stage[memory[p].owner]]_vars

\* No store has lost an entry: none is degraded, and a restart forgot nothing
\* that is not in Redis as well.
StoresIntact ==
    /\ seenDegraded' = {}
    /\ crashes > 0 => redisEnabled /\ faults = 0

\* While the stores are intact, a second press of the button is accepted
\* only after the debounce of the first has passed, even when the press is
\* received by another process (with Redis) or the lock has been lost.
AcceptedOncePerWindow ==
    [][\A h \in Handlers : \A p \in IF redisEnabled THEN Procs ELSE {ProcOf[h]} :
         stage'[h] = "accepted" /\ stage[h] = "locked" /\ StoresIntact
         => window[p] = 0]_vars
=============================================================================
