------------------------ MODULE CallbackGuards_proofs ------------------------
(***************************************************************************)
(* Proofs about CallbackGuards: one valid lease per lock space, leases     *)
(* taken away only by time, and one accepted press per debounce window,    *)
(* for every number of processes and presses, every lease and window, and  *)
(* any number of faults and restarts.                                      *)
(***************************************************************************)
EXTENDS CallbackGuards, TLAPS

\* A valid lease is recorded where it was taken, for as long as it has left.
\* Without this nothing forbids a second SET NX while the first lease runs.
LeaseIsRecorded ==
    \A h \in Handlers : Valid(h) =>
        \/ /\ handle[h].backend = "redis"
           /\ redis.owner = h /\ redis.left = handle[h].left
        \/ /\ handle[h].backend = "memory"
           /\ memory[ProcOf[h]].owner = h
           /\ memory[ProcOf[h]].left = handle[h].left

\* The memory of a process knows owners that run in it and hold their lease
\* there, and nobody else; a lease that has time left has an owner.
MemoryKnowsItsOwn ==
    \A p \in Procs :
        /\ memory[p].owner = None => memory[p].left = 0
        /\ memory[p].owner # None =>
             /\ ProcOf[memory[p].owner] = p /\ stage[memory[p].owner] \in Running
             /\ handle[memory[p].owner].backend = "memory"

\* While a store has lost nothing, it remembers a press at least as long as
\* the debounce of the press lasts; and a store is degraded by faults only.
DebounceIsRemembered ==
    /\ faults = 0 => seenDegraded = {}
    /\ redisEnabled /\ seenDegraded = {} /\ (crashes > 0 => faults = 0) =>
         \A p \in Procs : window[p] <= seenRedis
    /\ ~redisEnabled /\ crashes = 0 => \A p \in Procs : window[p] <= seenMemory[p]

IInv ==
    /\ TypeOK
    /\ LeaseIsRecorded
    /\ MemoryKnowsItsOwn
    /\ DebounceIsRemembered

LEMMA InitIInv ==
    ASSUME Init
    PROVE  IInv
<1> USE GuardAssumption DEF Init
<1>1. TypeOK
  BY DEF TypeOK, Stages, NoHandle, Free, Leases
<1>2. LeaseIsRecorded /\ MemoryKnowsItsOwn /\ DebounceIsRemembered
  BY DEF LeaseIsRecorded, MemoryKnowsItsOwn, DebounceIsRemembered, Valid, Running, Free
<1> QED
  BY <1>1, <1>2 DEF IInv

-----------------------------------------------------------------------------
(* The lock.                                                               *)

\* A step that leaves the idempotency stores alone keeps what they remember.
LEMMA DebounceUntouched ==
    ASSUME IInv, UNCHANGED <<redisEnabled, seen, crashes>>, faults' \in {faults, faults + 1}
    PROVE  DebounceIsRemembered'
<1>1. faults \in Nat /\ (faults' = 0 => faults = 0)
  BY GuardAssumption DEF IInv, TypeOK
<1> QED
  BY <1>1 DEF IInv, DebounceIsRemembered, seen

\* A lease taken in memory replaces one that has no time left, so the handler
\* it was taken from holds no valid lease.
LEMMA MemoryAcquireKeeps ==
    ASSUME IInv, NEW h \in Handlers, stage[h] = "new", MemoryAcquire(h),
           redis' = redis \/ (redis = Free /\ redis' = [owner |-> h, left |-> LeaseTtl])
    PROVE  /\ stage' \in [Handlers -> Stages]
           /\ handle' \in [Handlers -> [backend: {"none", "redis", "memory"}, left: 0 .. LeaseTtl]]
           /\ memory' \in [Procs -> Leases]
           /\ LeaseIsRecorded' /\ MemoryKnowsItsOwn'
<1> DEFINE q == ProcOf[h]
<1>1. /\ q \in Procs /\ LeaseTtl \in 0 .. LeaseTtl /\ h # None /\ LeaseTtl # 0
  BY GuardAssumption
<1>2. /\ stage \in [Handlers -> Stages] /\ memory \in [Procs -> Leases]
      /\ handle \in [Handlers -> [backend: {"none", "redis", "memory"}, left: 0 .. LeaseTtl]]
  BY DEF IInv, TypeOK
<1>3. \A g \in Handlers : Valid(g) => g # h
  BY DEF Valid, Running
<1>4. redis = Free => \A g \in Handlers : Valid(g) => handle[g].backend = "memory"
  BY GuardAssumption DEF IInv, LeaseIsRecorded, Free
<1>5. CASE memory[q].left = 0
  <2>1. /\ memory' = [memory EXCEPT ![q] = [owner |-> h, left |-> LeaseTtl]]
        /\ stage' = [stage EXCEPT ![h] = "locked"]
        /\ handle' = [handle EXCEPT ![h] = [backend |-> "memory", left |-> LeaseTtl]]
    BY <1>5 DEF MemoryAcquire, Holds
  <2>2. stage' \in [Handlers -> Stages] /\ memory' \in [Procs -> Leases]
        /\ handle' \in [Handlers -> [backend: {"none", "redis", "memory"}, left: 0 .. LeaseTtl]]
    BY <1>1, <1>2, <2>1 DEF Stages, Leases
  <2>3. LeaseIsRecorded'
    <3> SUFFICES ASSUME NEW g \in Handlers, Valid(g)'
                 PROVE  \/ /\ handle'[g].backend = "redis"
                           /\ redis'.owner = g /\ redis'.left = handle'[g].left
                        \/ /\ handle'[g].backend = "memory"
                           /\ memory'[ProcOf[g]].owner = g
                           /\ memory'[ProcOf[g]].left = handle'[g].left
      BY DEF LeaseIsRecorded
    <3>1. CASE g = h
      BY <1>1, <1>2, <2>1, <3>1
    <3>2. CASE g # h
      <4>1. Valid(g) /\ handle'[g] = handle[g]
        BY <1>2, <2>1, <3>2 DEF Valid
      <4>2. CASE handle[g].backend = "redis"
        BY <1>4, <4>1, <4>2 DEF IInv, LeaseIsRecorded
      <4>3. CASE handle[g].backend # "redis"
        <5>1. handle[g].left # 0
          BY <4>1 DEF Valid
        <5>2. ProcOf[g] \in Procs /\ ProcOf[g] # q
          BY <1>5, <4>1, <4>3, <5>1, GuardAssumption DEF IInv, LeaseIsRecorded
        <5> QED
          BY <1>2, <2>1, <4>1, <4>3, <5>2 DEF IInv, LeaseIsRecorded
      <4> QED
        BY <4>2, <4>3
    <3> QED
      BY <3>1, <3>2
  <2>4. MemoryKnowsItsOwn'
    <3> SUFFICES ASSUME NEW p \in Procs
                 PROVE  /\ memory'[p].owner = None => memory'[p].left = 0
                        /\ memory'[p].owner # None =>
                             /\ ProcOf[memory'[p].owner] = p /\ stage'[memory'[p].owner] \in Running
                             /\ handle'[memory'[p].owner].backend = "memory"
      BY DEF MemoryKnowsItsOwn
    <3>1. CASE p = q
      BY <1>1, <1>2, <2>1, <3>1 DEF Running
    <3>2. CASE p # q
      <4>1. memory[p].owner \in Handlers \cup {None}
        BY <1>2 DEF Leases
      <4> QED
        BY <1>2, <2>1, <3>2, <4>1 DEF IInv, MemoryKnowsItsOwn, Running
    <3> QED
      BY <3>1, <3>2
  <2> QED
    BY <2>2, <2>3, <2>4
<1>6. CASE memory[q].left # 0
  <2>1. stage' = [stage EXCEPT ![h] = "refused"] /\ handle' = handle /\ memory' = memory
    BY <1>6 DEF MemoryAcquire, Refused
  <2>2. stage' \in [Handlers -> Stages]
    BY <1>2, <2>1 DEF Stages
  <2>3. \A g \in Handlers : Valid(g)' => Valid(g)
    BY <1>2, <2>1 DEF Valid, Running
  <2>4. LeaseIsRecorded'
    BY <1>4, <2>1, <2>3 DEF IInv, LeaseIsRecorded
  <2>5. MemoryKnowsItsOwn'
    <3>1. \A p \in Procs : memory[p].owner \in Handlers \cup {None}
      BY <1>2 DEF Leases
    <3> QED
      BY <1>2, <2>1, <3>1 DEF IInv, MemoryKnowsItsOwn, Running
  <2> QED
    BY <1>2, <2>1, <2>2, <2>4, <2>5
<1> QED
  BY <1>5, <1>6

LEMMA RedisAfterSetNx ==
    ASSUME TypeOK, NEW h \in Handlers, SetNx(h) \/ redis' = redis
    PROVE  /\ redis' \in Leases /\ (redis'.owner = None <=> redis'.left = 0)
           /\ redis' = redis \/ (redis = Free /\ redis' = [owner |-> h, left |-> LeaseTtl])
BY GuardAssumption DEF SetNx, TypeOK, Leases

\* SET NX succeeds when nobody has the key, so there is no other valid lease
\* in Redis.
LEMMA RedisAcquireKeeps ==
    ASSUME IInv, NEW h \in Handlers, stage[h] = "new", SetNx(h), UNCHANGED memory,
           IF redis = Free THEN Holds(h, "redis") ELSE Refused(h)
    PROVE  /\ stage' \in [Handlers -> Stages]
           /\ handle' \in [Handlers -> [backend: {"none", "redis", "memory"}, left: 0 .. LeaseTtl]]
           /\ LeaseIsRecorded' /\ MemoryKnowsItsOwn'
<1>1. /\ LeaseTtl \in 0 .. LeaseTtl /\ h # None /\ LeaseTtl # 0
  BY GuardAssumption
<1>2. /\ stage \in [Handlers -> Stages]
      /\ handle \in [Handlers -> [backend: {"none", "redis", "memory"}, left: 0 .. LeaseTtl]]
      /\ \A p \in Procs : memory[p].owner \in Handlers \cup {None}
  BY DEF IInv, TypeOK, Leases
<1>3. redis = Free => \A g \in Handlers : Valid(g) => handle[g].backend = "memory"
  BY GuardAssumption DEF IInv, LeaseIsRecorded, Free
<1>4. \A g \in Handlers : g # h => stage'[g] = stage[g] /\ handle'[g] = handle[g]
  BY <1>2 DEF Holds, Refused
<1>5. MemoryKnowsItsOwn'
  <2>1. \A p \in Procs : memory[p].owner # None => memory[p].owner # h
    BY DEF IInv, MemoryKnowsItsOwn, Running
  <2> QED
    BY <1>2, <1>4, <2>1 DEF IInv, MemoryKnowsItsOwn
<1>6. CASE redis = Free
  <2>1. /\ stage' = [stage EXCEPT ![h] = "locked"]
        /\ handle' = [handle EXCEPT ![h] = [backend |-> "redis", left |-> LeaseTtl]]
        /\ redis' = [owner |-> h, left |-> LeaseTtl]
    BY <1>6 DEF Holds, SetNx
  <2>2. /\ stage' \in [Handlers -> Stages]
        /\ handle' \in [Handlers -> [backend: {"none", "redis", "memory"}, left: 0 .. LeaseTtl]]
    BY <1>1, <1>2, <2>1 DEF Stages
  <2>3. LeaseIsRecorded'
    BY <1>2, <1>3, <1>6, <2>1 DEF IInv, LeaseIsRecorded, Valid
  <2> QED
    BY <1>5, <2>2, <2>3
<1>7. CASE redis # Free
  <2>1. stage' = [stage EXCEPT ![h] = "refused"] /\ handle' = handle /\ redis' = redis
    BY <1>7 DEF Refused, SetNx
  <2>2. stage' \in [Handlers -> Stages]
    BY <1>2, <2>1 DEF Stages
  <2>3. LeaseIsRecorded'
    BY <1>2, <2>1 DEF IInv, LeaseIsRecorded, Valid, Running
  <2> QED
    BY <1>2, <1>5, <2>1, <2>2, <2>3
<1> QED
  BY <1>6, <1>7

LEMMA AcquireKeeps ==
    ASSUME IInv, NEW h \in Handlers, AcquireOnRedis(h) \/ AcquireInMemory(h)
    PROVE  IInv'
<1>1. ProcOf[h] \in Procs /\ TypeOK
  BY GuardAssumption DEF IInv
<1>2. /\ stage[h] = "new" /\ redisEnabled' = redisEnabled /\ UNCHANGED <<seen, crashes>>
      /\ degraded' \subseteq Procs
      /\ faults' = faults \/ (faults < MaxFaults /\ faults' = faults + 1)
      /\ redis' \in Leases /\ (redis'.owner = None <=> redis'.left = 0)
  BY <1>1, RedisAfterSetNx DEF AcquireOnRedis, AcquireInMemory, NoFault, Fault, TypeOK
<1>3. DebounceIsRemembered'
  BY <1>2, DebounceUntouched
<1>4. /\ stage' \in [Handlers -> Stages]
      /\ handle' \in [Handlers -> [backend: {"none", "redis", "memory"}, left: 0 .. LeaseTtl]]
      /\ memory' \in [Procs -> Leases]
      /\ LeaseIsRecorded' /\ MemoryKnowsItsOwn'
  <2>1. CASE MemoryAcquire(h) /\ (SetNx(h) \/ redis' = redis)
    BY <1>1, <1>2, <2>1, RedisAfterSetNx, MemoryAcquireKeeps
  <2>2. CASE /\ SetNx(h) /\ UNCHANGED memory
             /\ IF redis = Free THEN Holds(h, "redis") ELSE Refused(h)
    BY <1>1, <1>2, <2>2, RedisAcquireKeeps DEF TypeOK
  <2> QED
    BY <2>1, <2>2 DEF AcquireOnRedis, AcquireInMemory
<1>5. faults' \in 0 .. MaxFaults
  BY <1>1, <1>2, GuardAssumption DEF TypeOK
<1>6. TypeOK'
  BY <1>1, <1>2, <1>4, <1>5 DEF TypeOK, seen
<1> QED
  BY <1>3, <1>4, <1>6 DEF IInv

\* A release gives back what the handler took, and nothing else.
LEMMA ReleaseKeeps ==
    ASSUME IInv, NEW h \in Handlers, Release(h)
    PROVE  IInv'
<1> DEFINE q == ProcOf[h]
<1>1. /\ q \in Procs /\ TypeOK /\ 0 \in 0 .. LeaseTtl /\ h # None
      /\ \A g \in Handlers : ProcOf[g] \in Procs
  BY GuardAssumption DEF IInv
<1>2. /\ stage[h] \in Running
      /\ stage' = [stage EXCEPT ![h] = "done"]
      /\ handle' = [handle EXCEPT ![h] = NoHandle]
      /\ redisEnabled' = redisEnabled /\ UNCHANGED <<seen, crashes>>
      /\ degraded' \subseteq Procs
      /\ faults' = faults \/ (faults < MaxFaults /\ faults' = faults + 1)
      /\ redis' = redis \/ (redis.owner = h /\ redis' = Free)
      /\ \/ memory' = memory
         \/ memory[q].owner = h /\ memory' = [memory EXCEPT ![q] = Free]
      /\ handle[h].backend = "memory" => MemoryRelease(h)
      /\ handle[h].backend \in {"redis", "memory"}
  BY <1>1 DEF Release, CompareAndDelete, MemoryRelease, NoFault, Fault, TypeOK
<1>3. DebounceIsRemembered'
  BY <1>2, DebounceUntouched
<1>4. TypeOK'
  <2>1. faults' \in 0 .. MaxFaults
    BY <1>1, <1>2, GuardAssumption DEF TypeOK
  <2>2. Free \in Leases /\ Free.owner = None /\ Free.left = 0
    BY <1>1 DEF Free, Leases
  <2>3. /\ redis' \in Leases /\ (redis'.owner = None <=> redis'.left = 0)
        /\ memory' \in [Procs -> Leases]
    BY <1>1, <1>2, <2>2 DEF TypeOK
  <2>4. /\ stage' \in [Handlers -> Stages]
        /\ handle' \in [Handlers -> [backend: {"none", "redis", "memory"}, left: 0 .. LeaseTtl]]
    BY <1>1, <1>2 DEF TypeOK, Stages, NoHandle
  <2> QED
    BY <1>1, <1>2, <2>1, <2>3, <2>4 DEF TypeOK, seen
<1>5. LeaseIsRecorded'
  <2> SUFFICES ASSUME NEW g \in Handlers, Valid(g)'
               PROVE  \/ /\ handle'[g].backend = "redis"
                         /\ redis'.owner = g /\ redis'.left = handle'[g].left
                      \/ /\ handle'[g].backend = "memory"
                         /\ memory'[ProcOf[g]].owner = g
                         /\ memory'[ProcOf[g]].left = handle'[g].left
    BY DEF LeaseIsRecorded
  <2>1. g # h /\ Valid(g) /\ handle'[g] = handle[g]
    BY <1>1, <1>2 DEF Valid, Running, TypeOK
  <2>2. redis.owner = g => redis' = redis
    BY <1>2, <2>1
  <2>3. memory[ProcOf[g]].owner = g => memory'[ProcOf[g]] = memory[ProcOf[g]]
    BY <1>1, <1>2, <2>1 DEF TypeOK
  <2> QED
    BY <2>1, <2>2, <2>3 DEF IInv, LeaseIsRecorded
<1>6. MemoryKnowsItsOwn'
  <2> SUFFICES ASSUME NEW p \in Procs
               PROVE  /\ memory'[p].owner = None => memory'[p].left = 0
                      /\ memory'[p].owner # None =>
                           /\ ProcOf[memory'[p].owner] = p /\ stage'[memory'[p].owner] \in Running
                           /\ handle'[memory'[p].owner].backend = "memory"
    BY DEF MemoryKnowsItsOwn
  <2>1. memory[p].owner \in Handlers \cup {None}
    BY <1>1 DEF TypeOK, Leases
  <2>2. CASE memory[p].owner = h
    <3>1. p = q /\ handle[h].backend = "memory"
      BY <1>1, <2>2 DEF IInv, MemoryKnowsItsOwn
    <3>2. memory'[p] = Free
      BY <1>1, <1>2, <2>2, <3>1 DEF MemoryRelease, TypeOK
    <3> QED
      BY <3>2 DEF Free
  <2>3. CASE memory[p].owner # h
    <3>1. memory'[p] = memory[p]
      BY <1>1, <1>2, <2>3 DEF TypeOK
    <3> QED
      BY <1>1, <1>2, <2>1, <2>3, <3>1 DEF IInv, MemoryKnowsItsOwn, TypeOK
  <2> QED
    BY <2>2, <2>3
<1> QED
  BY <1>3, <1>4, <1>5, <1>6 DEF IInv

-----------------------------------------------------------------------------
(* The debounce, time and restarts.                                        *)

\* Both guards pass or refuse a handler that goes on running: the leases stay.
LEMMA LeasesUntouched ==
    ASSUME IInv, NEW h \in Handlers, stage[h] = "locked", UNCHANGED locks,
           NEW to \in {"accepted", "duplicate"}, stage' = [stage EXCEPT ![h] = to]
    PROVE  stage' \in [Handlers -> Stages] /\ LeaseIsRecorded' /\ MemoryKnowsItsOwn'
<1>1. stage \in [Handlers -> Stages]
  BY DEF IInv, TypeOK
<1>2. stage' \in [Handlers -> Stages]
  BY <1>1 DEF Stages
<1>3. /\ handle' = handle /\ redis' = redis /\ memory' = memory
      /\ \A g \in Handlers : stage'[g] \in Running <=> stage[g] \in Running
  BY <1>1 DEF locks, Running
<1>4. LeaseIsRecorded'
  BY <1>3 DEF IInv, LeaseIsRecorded, Valid
<1>5. MemoryKnowsItsOwn'
  <2>1. \A p \in Procs : memory[p].owner \in Handlers \cup {None}
    BY DEF IInv, TypeOK, Leases
  <2> QED
    BY <1>3, <2>1 DEF IInv, MemoryKnowsItsOwn
<1> QED
  BY <1>2, <1>4, <1>5

\* What a verdict of Redis leaves behind.
LEMMA MarkOnRedisKeeps ==
    ASSUME IInv, NEW h \in Handlers, MarkOnRedis(h)
    PROVE  IInv'
<1>1. /\ ProcOf[h] \in Procs /\ TypeOK
      /\ SeenTtl \in 0 .. SeenTtl /\ faults \in 0 .. MaxFaults /\ MaxFaults \in Nat
  BY GuardAssumption DEF IInv, TypeOK
<1>2. PICK isNew \in BOOLEAN : Verdict(h, isNew)
  BY DEF MarkOnRedis, MemoryMark
<1>3. /\ stage' \in [Handlers -> Stages] /\ LeaseIsRecorded' /\ MemoryKnowsItsOwn'
      /\ window' \in [Procs -> 0 .. SeenTtl]
  <2>1. window' \in [Procs -> 0 .. SeenTtl]
    BY <1>1, <1>2 DEF Verdict, TypeOK
  <2>2. \E to \in {"accepted", "duplicate"} : stage' = [stage EXCEPT ![h] = to]
    BY <1>2 DEF Verdict
  <2> QED
    BY <2>1, <2>2, LeasesUntouched DEF MarkOnRedis
<1>4. /\ UNCHANGED <<redisEnabled, locks, crashes>> /\ redisEnabled
      /\ faults' \in 0 .. MaxFaults
      /\ seenRedis' \in 0 .. SeenTtl /\ seenMemory' \in [Procs -> 0 .. SeenTtl]
      /\ seenDegraded' \subseteq Procs
  <2>1. CASE NoFault /\ UNCHANGED <<seenMemory, seenDegraded>>
    BY <1>1, <2>1 DEF MarkOnRedis, NoFault, TypeOK
  <2>2. CASE Fault /\ MemoryMark(h) /\ seenDegraded' = seenDegraded \cup {ProcOf[h]}
    BY <1>1, <2>2 DEF MarkOnRedis, MemoryMark, Fault, TypeOK
  <2> QED
    BY <2>1, <2>2 DEF MarkOnRedis
<1>5. TypeOK'
  BY <1>1, <1>3, <1>4 DEF TypeOK, locks
<1>6. DebounceIsRemembered'
  <2>1. CASE /\ NoFault /\ Verdict(h, seenRedis = 0)
             /\ seenRedis' = IF seenRedis = 0 THEN SeenTtl ELSE seenRedis
             /\ UNCHANGED <<seenMemory, seenDegraded>>
    <3>1. CASE seenRedis = 0
      <4>1. seenRedis' = SeenTtl /\ \A p \in Procs : window'[p] <= SeenTtl
        BY <1>3, <2>1, <3>1, GuardAssumption
      <4> QED
        BY <1>4, <2>1, <4>1 DEF IInv, DebounceIsRemembered, NoFault
    <3>2. CASE seenRedis # 0
      <4>1. window' = window /\ seenRedis' = seenRedis
        BY <2>1, <3>2 DEF Verdict
      <4> QED
        BY <1>4, <2>1, <4>1 DEF IInv, DebounceIsRemembered, NoFault
    <3> QED
      BY <3>1, <3>2
  <2>2. CASE Fault /\ seenDegraded' = seenDegraded \cup {ProcOf[h]}
    BY <1>1, <1>4, <2>2 DEF DebounceIsRemembered, Fault
  <2> QED
    BY <2>1, <2>2 DEF MarkOnRedis
<1> QED
  BY <1>3, <1>5, <1>6 DEF IInv

LEMMA MarkInMemoryKeeps ==
    ASSUME IInv, NEW h \in Handlers, MarkInMemory(h)
    PROVE  IInv'
<1>1. /\ ProcOf[h] \in Procs /\ TypeOK /\ SeenTtl \in 0 .. SeenTtl
  BY GuardAssumption DEF IInv
<1>2. /\ stage[h] = "locked" /\ (~redisEnabled \/ ProcOf[h] \in seenDegraded)
      /\ Verdict(h, seenMemory[ProcOf[h]] = 0)
      /\ seenMemory' = IF seenMemory[ProcOf[h]] = 0 THEN [seenMemory EXCEPT ![ProcOf[h]] = SeenTtl]
                                                    ELSE seenMemory
      /\ UNCHANGED <<redisEnabled, locks, seenRedis, seenDegraded, faults, crashes>>
  BY DEF MarkInMemory, MemoryMark
<1>3. window' \in [Procs -> 0 .. SeenTtl] /\ seenMemory' \in [Procs -> 0 .. SeenTtl]
  BY <1>1, <1>2 DEF Verdict, TypeOK
<1>4. stage' \in [Handlers -> Stages] /\ LeaseIsRecorded' /\ MemoryKnowsItsOwn'
  <2>1. \E to \in {"accepted", "duplicate"} : stage' = [stage EXCEPT ![h] = to]
    BY <1>2 DEF Verdict
  <2> QED
    BY <1>2, <2>1, LeasesUntouched
<1>5. TypeOK'
  BY <1>1, <1>2, <1>3, <1>4 DEF TypeOK, locks
<1>6. DebounceIsRemembered'
  <2>1. ~(redisEnabled /\ seenDegraded = {})
    BY <1>2
  <2>2. (\A p \in Procs : window[p] <= seenMemory[p]) => \A p \in Procs : window'[p] <= seenMemory'[p]
    <3>1. CASE seenMemory[ProcOf[h]] = 0
      BY <1>1, <1>2, <3>1, GuardAssumption DEF Verdict, TypeOK
    <3>2. CASE seenMemory[ProcOf[h]] # 0
      BY <1>2, <3>2 DEF Verdict
    <3> QED
      BY <3>1, <3>2
  <2> QED
    BY <1>2, <2>1, <2>2 DEF IInv, DebounceIsRemembered
<1> QED
  BY <1>4, <1>5, <1>6 DEF IInv

LEMMA HealthCheckKeeps ==
    ASSUME IInv, NEW p \in Procs, HealthCheck(p)
    PROVE  IInv'
<1>1. /\ UNCHANGED <<redisEnabled, stage, handle, redis, memory, seen, crashes>>
      /\ faults < MaxFaults /\ faults' = faults + 1 /\ degraded' = degraded \cup {p}
  BY DEF HealthCheck, Fault
<1>2. TypeOK'
  BY <1>1, GuardAssumption DEF IInv, TypeOK, seen
<1>3. DebounceIsRemembered'
  BY <1>1, DebounceUntouched
<1> QED
  BY <1>1, <1>2, <1>3 DEF IInv, LeaseIsRecorded, MemoryKnowsItsOwn, Valid

\* A restart forgets the memory of the process together with its handlers.
LEMMA RestartKeeps ==
    ASSUME IInv, NEW p \in Procs, Restart(p)
    PROVE  IInv'
<1>1. /\ TypeOK /\ \A h \in Handlers : ProcOf[h] \in Procs
      /\ Free \in Leases /\ NoHandle \in [backend: {"none", "redis", "memory"}, left: 0 .. LeaseTtl]
      /\ crashes \in Nat
  BY GuardAssumption DEF IInv, TypeOK, Free, Leases, NoHandle
<1>2. TypeOK'
  <2>1. /\ stage' \in [Handlers -> Stages]
        /\ handle' \in [Handlers -> [backend: {"none", "redis", "memory"}, left: 0 .. LeaseTtl]]
        /\ memory' \in [Procs -> Leases]
    BY <1>1 DEF Restart, TypeOK, Stages
  <2>2. seenMemory' \in [Procs -> 0 .. SeenTtl] /\ crashes' \in 0 .. MaxCrashes
    BY <1>1, GuardAssumption DEF Restart, TypeOK
  <2> QED
    BY <1>1, <2>1, <2>2 DEF Restart, TypeOK
<1>3. \A h \in Handlers : /\ ProcOf[h] # p => stage'[h] = stage[h] /\ handle'[h] = handle[h]
                          /\ Valid(h)' => Valid(h) /\ ProcOf[h] # p
  BY <1>1 DEF Restart, Valid, Running, NoHandle
<1>4. LeaseIsRecorded'
  <2>1. \A q \in Procs : q # p => memory'[q] = memory[q]
    BY <1>1 DEF Restart, TypeOK
  <2> QED
    BY <1>1, <1>3, <2>1 DEF Restart, IInv, LeaseIsRecorded
<1>5. MemoryKnowsItsOwn'
  <2> SUFFICES ASSUME NEW q \in Procs
               PROVE  /\ memory'[q].owner = None => memory'[q].left = 0
                      /\ memory'[q].owner # None =>
                           /\ ProcOf[memory'[q].owner] = q /\ stage'[memory'[q].owner] \in Running
                           /\ handle'[memory'[q].owner].backend = "memory"
    BY DEF MemoryKnowsItsOwn
  <2>1. CASE q = p
    BY <1>1, <2>1 DEF Restart, TypeOK, Free
  <2>2. CASE q # p
    <3>1. memory'[q] = memory[q] /\ memory[q].owner \in Handlers \cup {None}
      BY <1>1, <2>2 DEF Restart, TypeOK, Leases
    <3>2. CASE memory[q].owner = None
      BY <3>1, <3>2 DEF IInv, MemoryKnowsItsOwn
    <3>3. CASE memory[q].owner # None
      <4>1. PICK h \in Handlers : h = memory[q].owner
        BY <3>1, <3>3
      <4>2. ProcOf[h] = q /\ stage[h] \in Running /\ handle[h].backend = "memory"
        BY <3>3, <4>1 DEF IInv, MemoryKnowsItsOwn
      <4>3. stage'[h] = stage[h] /\ handle'[h] = handle[h]
        BY <1>3, <2>2, <4>2
      <4>4. memory'[q].owner = h /\ h # None
        BY <3>1, <3>3, <4>1
      <4> QED
        BY <4>2, <4>3, <4>4
    <3> QED
      BY <3>2, <3>3
  <2> QED
    BY <2>1, <2>2
<1>6. DebounceIsRemembered'
  <2>1. crashes' # 0 /\ crashes' > 0
    BY <1>1 DEF Restart
  <2>2. faults = 0 => seenDegraded = {} /\ seenDegraded' = {}
    BY DEF Restart, IInv, DebounceIsRemembered
  <2> QED
    BY <2>1, <2>2 DEF Restart, IInv, DebounceIsRemembered
<1> QED
  BY <1>2, <1>4, <1>5, <1>6 DEF IInv

LEMMA Less1Facts ==
    /\ \A n \in Nat : /\ Less1(n) \in Nat /\ Less1(n) <= n
                      /\ Less1(n) > 0 => n > 0 /\ Less1(n) = n - 1
    /\ \A m, n \in Nat : m <= n => Less1(m) <= Less1(n)
BY DEF Less1

\* The clocks of a lease and of its record run together.
LEMMA SecondKeeps ==
    ASSUME IInv, Second
    PROVE  IInv'
<1> DEFINE H == [backend: {"none", "redis", "memory"}, left: 0 .. LeaseTtl]
<1>1. /\ TypeOK /\ LeaseTtl \in Nat /\ SeenTtl \in Nat
      /\ \A h \in Handlers : handle[h] \in H /\ handle[h].left \in Nat
      /\ \A p \in Procs : memory[p] \in Leases /\ memory[p].left \in Nat
      /\ redis \in Leases /\ redis.left \in Nat
      /\ None \notin Handlers /\ \A h \in Handlers : ProcOf[h] \in Procs
  BY GuardAssumption DEF IInv, TypeOK, Leases
<1>2. /\ handle' \in [Handlers -> H]
      /\ \A h \in Handlers : handle'[h].backend = handle[h].backend
                            /\ handle'[h].left = Less1(handle[h].left)
  <2>1. \A x \in H : LET y == [x EXCEPT !.left = Less1(@)] IN
                     y \in H /\ y.backend = x.backend /\ y.left = Less1(x.left)
    BY <1>1 DEF Less1
  <2>2. handle' = [h \in Handlers |-> [handle[h] EXCEPT !.left = Less1(@)]]
    BY DEF Second
  <2> QED
    BY <1>1, <2>1, <2>2
<1>3. /\ memory' \in [Procs -> Leases]
      /\ \A p \in Procs : memory'[p].owner = memory[p].owner
                         /\ memory'[p].left = Less1(memory[p].left)
  BY <1>1 DEF Second, Less1, Leases
<1>4. /\ redis' \in Leases /\ (redis'.owner = None <=> redis'.left = 0)
      /\ redis.left > 1 => redis'.owner = redis.owner /\ redis'.left = redis.left - 1
  <2>1. redis' = IF redis.left <= 1 THEN Free ELSE [redis EXCEPT !.left = redis.left - 1]
    BY DEF Second, RedisSecond
  <2>2. CASE redis.left <= 1
    BY <1>1, <2>1, <2>2 DEF Free, Leases
  <2>3. CASE redis.left > 1
    BY <1>1, <2>1, <2>3 DEF Leases, TypeOK
  <2> QED
    BY <1>1, <2>2, <2>3
<1>5. TypeOK'
  <2>1. /\ seenRedis' \in 0 .. SeenTtl /\ seenMemory' \in [Procs -> 0 .. SeenTtl]
        /\ window' \in [Procs -> 0 .. SeenTtl]
    BY <1>1 DEF Second, Less1, TypeOK
  <2> QED
    BY <1>1, <1>2, <1>3, <1>4, <2>1 DEF Second, TypeOK
<1>6. LeaseIsRecorded'
  <2> SUFFICES ASSUME NEW h \in Handlers, Valid(h)'
               PROVE  \/ /\ handle'[h].backend = "redis"
                         /\ redis'.owner = h /\ redis'.left = handle'[h].left
                      \/ /\ handle'[h].backend = "memory"
                         /\ memory'[ProcOf[h]].owner = h
                         /\ memory'[ProcOf[h]].left = handle'[h].left
    BY DEF LeaseIsRecorded
  <2>1. Valid(h) /\ handle[h].left > 1 /\ handle'[h].left = handle[h].left - 1
    BY <1>1, <1>2 DEF Second, Valid, Less1
  <2>2. CASE handle[h].backend = "redis"
    BY <1>2, <1>4, <2>1, <2>2 DEF IInv, LeaseIsRecorded
  <2>3. CASE handle[h].backend # "redis"
    BY <1>1, <1>2, <1>3, <2>1, <2>3 DEF IInv, LeaseIsRecorded
  <2> QED
    BY <2>2, <2>3
<1>7. MemoryKnowsItsOwn'
  <2>1. \A p \in Procs : memory[p].owner \in Handlers \cup {None}
    BY <1>1 DEF Leases
  <2>2. stage' = stage /\ Less1(0) = 0
    BY DEF Second, Less1
  <2> QED
    BY <1>2, <1>3, <2>1, <2>2 DEF IInv, MemoryKnowsItsOwn
<1>8. DebounceIsRemembered'
  <2>1. /\ seenRedis \in Nat
        /\ \A p \in Procs : window[p] \in Nat /\ seenMemory[p] \in Nat
    BY <1>1 DEF TypeOK
  <2>2. /\ seenRedis' = Less1(seenRedis)
        /\ \A p \in Procs : window'[p] = Less1(window[p]) /\ seenMemory'[p] = Less1(seenMemory[p])
        /\ UNCHANGED <<redisEnabled, seenDegraded, faults, crashes>>
    BY DEF Second
  <2>3. \A p \in Procs : /\ window[p] <= seenRedis => window'[p] <= seenRedis'
                         /\ window[p] <= seenMemory[p] => window'[p] <= seenMemory'[p]
    BY <2>1, <2>2, Less1Facts
  <2>4. /\ redisEnabled' = redisEnabled /\ seenDegraded' = seenDegraded
        /\ faults' = faults /\ crashes' = crashes
    BY <2>2
  <2>5. faults' = 0 => seenDegraded' = {}
    BY <2>4 DEF IInv, DebounceIsRemembered
  <2>6. ASSUME redisEnabled', seenDegraded' = {}, crashes' > 0 => faults' = 0
        PROVE  \A p \in Procs : window'[p] <= seenRedis'
    <3>1. \A p \in Procs : window[p] <= seenRedis
      BY <2>4, <2>6 DEF IInv, DebounceIsRemembered
    <3> QED
      BY <2>3, <3>1
  <2>7. ASSUME ~redisEnabled', crashes' = 0
        PROVE  \A p \in Procs : window'[p] <= seenMemory'[p]
    <3>1. \A p \in Procs : window[p] <= seenMemory[p]
      BY <2>4, <2>7 DEF IInv, DebounceIsRemembered
    <3> QED
      BY <2>3, <3>1
  <2> QED
    BY <2>5, <2>6, <2>7 DEF DebounceIsRemembered
<1> QED
  BY <1>5, <1>6, <1>7, <1>8 DEF IInv

-----------------------------------------------------------------------------
(* The theorems.                                                           *)

LEMMA StepKeeps ==
    ASSUME IInv, [Next]_vars
    PROVE  IInv'
<1>1. CASE \E h \in Handlers : AcquireOnRedis(h) \/ AcquireInMemory(h)
  BY <1>1, AcquireKeeps
<1>2. CASE \E h \in Handlers : MarkOnRedis(h) \/ MarkInMemory(h)
  BY <1>2, MarkOnRedisKeeps, MarkInMemoryKeeps
<1>3. CASE \E h \in Handlers : Release(h)
  BY <1>3, ReleaseKeeps
<1>4. CASE \E p \in Procs : HealthCheck(p) \/ Restart(p)
  BY <1>4, HealthCheckKeeps, RestartKeeps
<1>5. CASE Second
  BY <1>5, SecondKeeps
<1>6. CASE UNCHANGED vars
  <2>1. UNCHANGED <<redisEnabled, stage, locks, seen, faults, crashes>>
    BY <1>6 DEF vars
  <2>2. TypeOK'
    BY <2>1 DEF locks, seen, IInv, TypeOK
  <2>3. LeaseIsRecorded' /\ MemoryKnowsItsOwn'
    BY <2>1 DEF locks, IInv, LeaseIsRecorded, MemoryKnowsItsOwn, Valid
  <2>4. DebounceIsRemembered'
    BY <2>1, DebounceUntouched
  <2> QED
    BY <2>2, <2>3, <2>4 DEF IInv
<1> QED
  BY <1>1, <1>2, <1>3, <1>4, <1>5, <1>6 DEF Next

\* The invariant holds in every state of every run.
THEOREM Invariance == Spec => []IInv
<1>1. Init => IInv
  BY InitIInv
<1>2. IInv /\ [Next]_vars => IInv'
  BY StepKeeps
<1> QED
  BY <1>1, <1>2, PTL DEF Spec

\* Type correctness of locks, stores and handlers.
THEOREM TypeCorrect == Spec => []TypeOK
<1>1. IInv => TypeOK
  BY DEF IInv
<1> QED
  BY <1>1, Invariance, PTL

\* Two handlers never hold valid leases of one lock space at a time: the
\* record of a lease names one owner.
THEOREM LeasesExclude == Spec => []OneLeasePerSpace
<1>1. IInv => OneLeasePerSpace
  <2> SUFFICES ASSUME IInv, NEW g \in Handlers, NEW h \in Handlers,
                      g # h, Valid(g), Valid(h), SameSpace(g, h)
               PROVE  FALSE
    BY DEF OneLeasePerSpace
  <2>1. CASE handle[g].backend = "redis"
    BY <2>1 DEF IInv, LeaseIsRecorded, SameSpace
  <2>2. CASE handle[g].backend # "redis"
    BY <2>2 DEF IInv, LeaseIsRecorded, SameSpace
  <2> QED
    BY <2>1, <2>2
<1> QED
  BY <1>1, Invariance, PTL

-----------------------------------------------------------------------------
(* Leases are taken away only by time.                                     *)

\* The lease of the Redis key: it changes hands when it runs out, or when its
\* handler goes on.
LEMMA RedisLeaseIsOwn ==
    ASSUME IInv, [Next]_vars, redis.owner # None, redis'.owner # redis.owner
    PROVE  redis.left = 1 \/ stage'[redis.owner] # stage[redis.owner]
<1>1. /\ redis # Free /\ redis.left \in Nat /\ redis.left # 0
      /\ stage \in [Handlers -> Stages]
  BY DEF Free, IInv, TypeOK, Leases
<1>2. CASE \E h \in Handlers : AcquireOnRedis(h) \/ AcquireInMemory(h)
  BY <1>1, <1>2 DEF AcquireOnRedis, AcquireInMemory, SetNx
<1>3. CASE \E h \in Handlers : MarkOnRedis(h) \/ MarkInMemory(h)
  BY <1>3 DEF MarkOnRedis, MarkInMemory, locks
<1>4. CASE \E h \in Handlers : Release(h)
  <2>1. PICK h \in Handlers : Release(h)
    BY <1>4
  <2>2. redis.owner = h /\ stage[h] \in Running /\ stage'[h] = "done"
    BY <1>1, <2>1 DEF Release, CompareAndDelete
  <2> QED
    BY <2>2 DEF Running
<1>5. CASE \E p \in Procs : HealthCheck(p) \/ Restart(p)
  BY <1>5 DEF HealthCheck, Restart
<1>6. CASE Second
  <2>1. redis' = IF redis.left <= 1 THEN Free ELSE [redis EXCEPT !.left = redis.left - 1]
    BY <1>6 DEF Second, RedisSecond
  <2>2. redis.left > 1 => redis'.owner = redis.owner
    BY <2>1 DEF IInv, TypeOK, Leases
  <2> QED
    BY <1>1, <2>2
<1>7. CASE UNCHANGED vars
  BY <1>7 DEF vars, locks
<1> QED
  BY <1>2, <1>3, <1>4, <1>5, <1>6, <1>7 DEF Next

\* The lease in the memory of a process.
LEMMA MemoryLeaseIsOwn ==
    ASSUME IInv, [Next]_vars, NEW p \in Procs,
           memory[p].left > 0, memory'[p].owner # memory[p].owner
    PROVE  stage'[memory[p].owner] # stage[memory[p].owner]
<1>1. /\ memory \in [Procs -> Leases] /\ stage \in [Handlers -> Stages]
      /\ memory[p].left # 0 /\ \A h \in Handlers : ProcOf[h] \in Procs
  BY GuardAssumption DEF IInv, TypeOK
<1>2. PICK o \in Handlers : /\ o = memory[p].owner /\ ProcOf[o] = p
                            /\ stage[o] \in Running
  BY <1>1 DEF IInv, MemoryKnowsItsOwn, Leases
<1>3. CASE \E h \in Handlers : AcquireOnRedis(h) \/ AcquireInMemory(h)
  <2>1. \A h \in Handlers : MemoryAcquire(h) => memory'[p] = memory[p]
    BY <1>1 DEF MemoryAcquire
  <2> QED
    BY <1>3, <2>1 DEF AcquireOnRedis, AcquireInMemory
<1>4. CASE \E h \in Handlers : MarkOnRedis(h) \/ MarkInMemory(h)
  BY <1>4 DEF MarkOnRedis, MarkInMemory, locks
<1>5. CASE \E h \in Handlers : Release(h)
  <2>1. PICK h \in Handlers : Release(h)
    BY <1>5
  <2>2. memory[ProcOf[h]].owner = h /\ memory' = [memory EXCEPT ![ProcOf[h]] = Free]
    BY <2>1 DEF Release, MemoryRelease
  <2>3. ProcOf[h] = p
    BY <1>1, <2>2
  <2> QED
    BY <1>1, <2>1, <2>2, <2>3 DEF Release, Running
<1>6. CASE \E q \in Procs : HealthCheck(q)
  BY <1>6 DEF HealthCheck
<1>7. CASE \E q \in Procs : Restart(q)
  <2>1. PICK q \in Procs : Restart(q)
    BY <1>7
  <2>2. q = p
    BY <1>1, <2>1 DEF Restart
  <2>3. stage'[o] = "lost"
    BY <1>2, <2>1, <2>2 DEF Restart
  <2> QED
    BY <1>2, <2>3 DEF Running
<1>8. CASE Second
  BY <1>1, <1>8 DEF Second, Leases
<1>9. CASE UNCHANGED vars
  BY <1>9 DEF vars, locks
<1> QED
  BY <1>3, <1>4, <1>5, <1>6, <1>7, <1>8, <1>9 DEF Next

\* A late release takes no lease from a handler that still runs.
THEOREM LeasesAreOwn == Spec => LeaseIsOwn
<1> DEFINE Own ==
      /\ redis.owner # None /\ redis'.owner # redis.owner =>
           redis.left = 1 \/ stage'[redis.owner] # stage[redis.owner]
      /\ \A p \in Procs :
           memory[p].left > 0 /\ memory'[p].owner # memory[p].owner =>
             stage'[memory[p].owner] # stage[memory[p].owner]
<1>1. IInv /\ [Next]_vars => Own
  BY RedisLeaseIsOwn, MemoryLeaseIsOwn
<1>2. Spec => [][Own]_vars
  BY <1>1, Invariance, PTL DEF Spec
<1> QED
  BY <1>2 DEF LeaseIsOwn

-----------------------------------------------------------------------------
(* One press is accepted per window.                                       *)

\* A verdict comes from one of the two stores.
LEMMA OnlyMarksAccept ==
    ASSUME IInv, [Next]_vars, NEW h \in Handlers,
           stage'[h] = "accepted", stage[h] = "locked"
    PROVE  MarkOnRedis(h) \/ MarkInMemory(h)
<1>1. stage \in [Handlers -> Stages]
  BY DEF IInv, TypeOK
<1>2. ASSUME NEW g \in Handlers, NEW to \in Stages, stage' = [stage EXCEPT ![g] = to],
             g # h \/ to # "accepted"
      PROVE  FALSE
  BY <1>1, <1>2
<1>3. CASE \E g \in Handlers : AcquireOnRedis(g) \/ AcquireInMemory(g)
  <2>1. PICK g \in Handlers, to \in {"locked", "refused"} : stage' = [stage EXCEPT ![g] = to]
    BY <1>3 DEF AcquireOnRedis, AcquireInMemory, MemoryAcquire, Holds, Refused
  <2> QED
    BY <1>2, <2>1 DEF Stages
<1>4. CASE \E g \in Handlers : MarkOnRedis(g) \/ MarkInMemory(g)
  <2>1. PICK g \in Handlers : MarkOnRedis(g) \/ MarkInMemory(g)
    BY <1>4
  <2>2. \E to \in {"accepted", "duplicate"} : stage' = [stage EXCEPT ![g] = to]
    BY <2>1 DEF MarkOnRedis, MarkInMemory, MemoryMark, Verdict
  <2>3. g = h
    BY <1>2, <2>2 DEF Stages
  <2> QED
    BY <2>1, <2>3
<1>5. CASE \E g \in Handlers : Release(g)
  BY <1>2, <1>5 DEF Release, Stages
<1>6. CASE \E p \in Procs : HealthCheck(p) \/ Restart(p)
  BY <1>1, <1>6 DEF HealthCheck, Restart
<1>7. CASE Second \/ UNCHANGED vars
  BY <1>7 DEF Second, vars
<1> QED
  BY <1>3, <1>4, <1>5, <1>6, <1>7 DEF Next

\* While the stores are intact, no press is accepted within the debounce of an
\* earlier one, whichever process receives it and whatever became of the lock.
THEOREM PressesAreDebounced == Spec => AcceptedOncePerWindow
<1> DEFINE Debounced ==
      \A h \in Handlers : \A p \in IF redisEnabled THEN Procs ELSE {ProcOf[h]} :
         stage'[h] = "accepted" /\ stage[h] = "locked" /\ StoresIntact
         => window[p] = 0
<1>1. ASSUME IInv, [Next]_vars
      PROVE  Debounced
  <2> SUFFICES ASSUME NEW h \in Handlers,
                      NEW p \in IF redisEnabled THEN Procs ELSE {ProcOf[h]},
                      stage'[h] = "accepted", stage[h] = "locked", StoresIntact
               PROVE  window[p] = 0
    OBVIOUS
  <2>1. /\ p \in Procs /\ ProcOf[h] \in Procs /\ crashes \in Nat
        /\ stage \in [Handlers -> Stages]
        /\ \A q \in Procs : window[q] \in Nat
    BY GuardAssumption, <1>1 DEF IInv, TypeOK
  <2>2. seenDegraded' = {} /\ (crashes > 0 => redisEnabled /\ faults = 0)
    BY DEF StoresIntact
  <2>3. CASE MarkOnRedis(h)
    <3>1. redisEnabled /\ seenRedis = 0 /\ seenDegraded = {}
      BY <2>1, <2>2, <2>3 DEF MarkOnRedis, Verdict
    <3>2. window[p] <= seenRedis
      BY <1>1, <2>1, <2>2, <3>1 DEF IInv, DebounceIsRemembered
    <3> QED
      BY <2>1, <3>1, <3>2
  <2>4. CASE MarkInMemory(h)
    <3>1. ~redisEnabled /\ p = ProcOf[h] /\ crashes = 0
      BY <2>1, <2>2, <2>4 DEF MarkInMemory
    <3>2. seenMemory[p] = 0
      BY <2>1, <2>4, <3>1 DEF MarkInMemory, MemoryMark, Verdict
    <3>3. window[p] <= seenMemory[p]
      BY <1>1, <2>1, <3>1 DEF IInv, DebounceIsRemembered
    <3> QED
      BY <2>1, <3>2, <3>3
  <2> QED
    BY <1>1, <2>3, <2>4, OnlyMarksAccept
<1>2. Spec => [][Debounced]_vars
  BY <1>1, Invariance, PTL DEF Spec
<1> QED
  BY <1>2 DEF AcceptedOncePerWindow
=============================================================================
