------------------------ MODULE PollingOwnership_proofs ------------------------
(***************************************************************************)
(* What PollingOwnership guarantees for every number of processes, every   *)
(* time to live, refresh period, wait and deployment.                      *)
(*                                                                         *)
(* TypeInv is inductive by itself.  LeaseInv adds why a lease is worth     *)
(* something: a process that believes it owns polling either has the key,  *)
(* with at least as much time left as its last refresh gives it, or is     *)
(* known to be late by a whole time to live.  PromptInv adds that nobody   *)
(* is late while no event loop freezes, and LateInv that the refresh of a  *)
(* late process comes within one more period.                              *)
(***************************************************************************)
EXTENDS PollingOwnership, TLAPS

\* The ids of different processes differ.
DistinctIds ==
    \A i, j \in Instances : i # j => TokensOf[i] \cap TokensOf[j] = {}

NoStalls == Stallable = {}

-----------------------------------------------------------------------------
(* Types.                                                                  *)

\* The key has no token exactly when it is absent, a running process has an
\* id of its own, and only a process with a refresh task records.
KeyInv ==
    /\ lock.left = 0 <=> lock.token = None
    /\ lock.left = 0 <=> holder = None
    /\ \A i \in Instances : pc[i] # "down" => token[i] \in TokensOf[i]
    /\ \A i \in recording : pc[i] \in Refreshing

TypeInv == TypeOK /\ KeyInv

LEMMA TypeInit == Init => TypeInv
  <1> SUFFICES ASSUME Init PROVE TypeInv
    OBVIOUS
  <1>1. lock.left = 0 /\ lock.token = None /\ holder = None
    BY DEF Init, NoLock
  <1>2. lock \in [token: Tokens \cup {None}, left: 0 .. LockTtl]
    BY TimingAssumption DEF Init, NoLock
  <1>3. TypeOK
    <2>1. 0 \in 0 .. LockTtl /\ 0 \in 0 .. RefreshEvery /\ 0 \in 0 .. MaxWait /\ 0 \in 0 .. MaxFaults /\ 0 \in 0 .. MaxCrashes
      BY TimingAssumption
    <2>2. /\ pc \in [Instances -> Phases] /\ token \in [Instances -> Tokens \cup {None}]
          /\ age \in [Instances -> 0 .. LockTtl] /\ waited \in [Instances -> 0 .. MaxWait]
          /\ tried \in [Instances -> BOOLEAN] /\ recording \subseteq Instances
          /\ timer \in [Instances -> 0 .. RefreshEvery] /\ late \in [Instances -> 0 .. LockTtl]
      BY <2>1 DEF Init, Phases
    <2>3. env \in Environments /\ webhook \in BOOLEAN /\ frozen \subseteq Instances
      BY DEF Init
    <2>4. faults \in 0 .. MaxFaults /\ crashes \in 0 .. MaxCrashes
      BY <2>1 DEF Init
    <2> QED
      BY <1>1, <1>2, <2>2, <2>3, <2>4 DEF TypeOK
  <1>4. KeyInv
    BY <1>1 DEF Init, KeyInv
  <1> QED BY <1>3, <1>4 DEF TypeInv

LEMMA SetNxType ==
    ASSUME TypeInv, NEW i \in Instances, pc[i] # "down", SetNx(i)
    PROVE  /\ lock' \in [token: Tokens \cup {None}, left: 0 .. LockTtl]
           /\ lock' = [token |-> token[i], left |-> LockTtl]
           /\ holder' = i
           /\ lock'.left # 0 /\ lock'.token # None /\ holder' # None
  <1>1. token[i] \in Tokens /\ LockTtl \in Nat /\ LockTtl > 0
    BY TokenAssumption, TimingAssumption DEF TypeInv, KeyInv
  <1> QED
    BY <1>1, TokenAssumption DEF SetNx

LEMMA ExpireType ==
    ASSUME TypeInv, NEW i \in Instances, pc[i] # "down", ExpireIfOwn(i)
    PROVE  /\ lock' \in [token: Tokens \cup {None}, left: 0 .. LockTtl]
           /\ lock'.token = lock.token /\ lock'.left >= lock.left
           /\ lock.token = token[i] => lock'.left = LockTtl
           /\ holder' = holder
           /\ lock'.left = 0 <=> lock'.token = None
           /\ lock'.left = 0 <=> holder' = None
  <1>1. token[i] \in Tokens /\ LockTtl \in Nat /\ LockTtl > 0
    BY TokenAssumption, TimingAssumption DEF TypeInv, KeyInv
  <1>2. lock \in [token: Tokens \cup {None}, left: 0 .. LockTtl]
    BY DEF TypeInv, TypeOK
  <1> QED
    BY <1>1, <1>2, TokenAssumption DEF ExpireIfOwn, TypeInv, KeyInv

LEMMA DeleteType ==
    ASSUME TypeInv, NEW i \in Instances, DeleteIfOwn(i)
    PROVE  /\ lock' \in [token: Tokens \cup {None}, left: 0 .. LockTtl]
           /\ holder' \in Instances \cup {None}
           /\ lock'.left = 0 <=> lock'.token = None
           /\ lock'.left = 0 <=> holder' = None
           /\ \/ lock' = lock /\ holder' = holder
              \/ lock.token = token[i] /\ lock' = NoLock /\ holder' = None
  BY TokenAssumption, TimingAssumption DEF DeleteIfOwn, TypeInv, TypeOK, KeyInv, NoLock

LEMMA ElapsedType ==
    ASSUME TypeInv
    PROVE  /\ Elapsed(lock) \in [token: Tokens \cup {None}, left: 0 .. LockTtl]
           /\ Elapsed(lock).left = 0 <=> Elapsed(lock).token = None
           /\ Elapsed(lock).left = 0 <=> lock.left <= 1
           /\ lock.left > 1 => /\ Elapsed(lock).left = lock.left - 1
                               /\ Elapsed(lock).token = lock.token
  BY TokenAssumption, TimingAssumption DEF TypeInv, TypeOK, KeyInv, Elapsed, NoLock

\* Every step keeps the types: the invariant of all processes and timers.
LEMMA TypeNext == TypeInv /\ [Next]_vars => TypeInv'
  <1> SUFFICES ASSUME TypeInv, [Next]_vars PROVE TypeInv'
    OBVIOUS
  <1> USE TokenAssumption, TimingAssumption DEF Refreshing, SleepIsOver, Free
  <1>1. ASSUME NEW i \in Instances, Start(i) PROVE TypeInv'
    BY <1>1 DEF Start, Goto, TypeInv, TypeOK, KeyInv, Phases
  <1>2. ASSUME NEW i \in Instances, AcquireSucceeds(i) PROVE TypeInv'
    <2>1. CASE ~env.redisUrl /\ UNCHANGED <<lock, holder>>
      BY <1>2, <2>1 DEF AcquireSucceeds, Goto, NoFault, sleeps, TypeInv, TypeOK, KeyInv, Phases
    <2>2. CASE SetNx(i)
      <3>1. pc[i] # "down"
        BY <1>2 DEF AcquireSucceeds
      <3> QED
        BY <1>2, <2>2, <3>1, SetNxType
        DEF AcquireSucceeds, Goto, NoFault, sleeps, TypeInv, TypeOK, KeyInv, Phases
    <2> QED BY <1>2, <2>1, <2>2 DEF AcquireSucceeds
  <1>3. ASSUME NEW i \in Instances, AcquireRefused(i) PROVE TypeInv'
    <2>1. CASE UNCHANGED <<lock, holder>>
      BY <1>3, <2>1 DEF AcquireRefused, Fault, NoFault, sleeps, TypeInv, TypeOK, KeyInv, Phases
    <2>2. CASE SetNx(i)
      <3>1. pc[i] # "down"
        BY <1>3 DEF AcquireRefused
      <3> QED
        BY <1>3, <2>2, <3>1, SetNxType
        DEF AcquireRefused, Fault, NoFault, sleeps, TypeInv, TypeOK, KeyInv, Phases
    <2> QED BY <1>3, <2>1, <2>2 DEF AcquireRefused
  <1>4. ASSUME NEW i \in Instances, GiveUp(i) PROVE TypeInv'
    BY <1>4 DEF GiveUp, Goto, Fault, NoFault, timers, TypeInv, TypeOK, KeyInv, Phases
  <1>5. ASSUME NEW i \in Instances, YieldToWebhook(i) PROVE TypeInv'
    <2>1. CASE UNCHANGED <<lock, holder>>
      BY <1>5, <2>1
      DEF YieldToWebhook, Goto, Fault, NoFault, timers, TypeInv, TypeOK, KeyInv, Phases
    <2>2. CASE DeleteIfOwn(i)
      BY <1>5, <2>2, DeleteType
      DEF YieldToWebhook, Goto, Fault, NoFault, timers, TypeInv, TypeOK, KeyInv, Phases
    <2> QED BY <1>5, <2>1, <2>2 DEF YieldToWebhook
  <1>6. ASSUME NEW i \in Instances, StartPolling(i) PROVE TypeInv'
    BY <1>6 DEF StartPolling, Goto, timers, TypeInv, TypeOK, KeyInv, Phases
  <1>7. ASSUME NEW i \in Instances, RefreshSucceeds(i) PROVE TypeInv'
    <2>1. CASE UNCHANGED <<lock, holder>>
      BY <1>7, <2>1 DEF RefreshSucceeds, TypeInv, TypeOK, KeyInv, Phases
    <2>2. CASE ExpireIfOwn(i)
      <3>1. pc[i] # "down"
        BY <1>7 DEF RefreshSucceeds
      <3> QED
        BY <1>7, <2>2, <3>1, ExpireType DEF RefreshSucceeds, TypeInv, TypeOK, KeyInv, Phases
    <2> QED BY <1>7, <2>1, <2>2 DEF RefreshSucceeds
  <1>8. ASSUME NEW i \in Instances, RefreshFails(i) PROVE TypeInv'
    <2>1. CASE UNCHANGED <<lock, holder>>
      BY <1>8, <2>1
      DEF RefreshFails, Goto, Fault, NoFault, timers, TypeInv, TypeOK, KeyInv, Phases
    <2>2. CASE ExpireIfOwn(i)
      <3>1. pc[i] # "down"
        BY <1>8 DEF RefreshFails
      <3> QED
        BY <1>8, <2>2, <3>1, ExpireType
        DEF RefreshFails, Goto, Fault, NoFault, timers, TypeInv, TypeOK, KeyInv, Phases
    <2> QED BY <1>8, <2>1, <2>2 DEF RefreshFails
  <1>9. ASSUME NEW i \in Instances, Conflict(i) PROVE TypeInv'
    BY <1>9 DEF Conflict, Goto, timers, TypeInv, TypeOK, KeyInv, Phases
  <1>10. ASSUME NEW i \in Instances, Shutdown(i) PROVE TypeInv'
    <2>1. CASE UNCHANGED <<lock, holder>>
      BY <1>10, <2>1
      DEF Shutdown, Goto, Fault, NoFault, timers, TypeInv, TypeOK, KeyInv, Phases
    <2>2. CASE DeleteIfOwn(i)
      BY <1>10, <2>2, DeleteType
      DEF Shutdown, Goto, Fault, NoFault, timers, TypeInv, TypeOK, KeyInv, Phases
    <2> QED BY <1>10, <2>1, <2>2 DEF Shutdown
  <1>11. ASSUME NEW i \in Instances, Crash(i) PROVE TypeInv'
    BY <1>11 DEF Crash, Goto, timers, TypeInv, TypeOK, KeyInv, Phases
  <1>12. ASSUME NEW i \in Instances, Recorded(i) \/ Freeze(i) \/ Thaw(i) PROVE TypeInv'
    BY <1>12 DEF Recorded, Freeze, Thaw, timers, TypeInv, TypeOK, KeyInv
  <1>13. CASE ToggleWebhook
    BY <1>13 DEF ToggleWebhook, timers, TypeInv, TypeOK, KeyInv
  <1>14. CASE Tick
    <2>1. /\ lock' \in [token: Tokens \cup {None}, left: 0 .. LockTtl]
          /\ lock'.left = 0 <=> lock'.token = None
          /\ lock'.left = 0 <=> lock.left <= 1
      BY <1>14, ElapsedType DEF Tick
    <2>2. /\ holder' \in Instances \cup {None}
          /\ lock'.left = 0 <=> holder' = None
      BY <1>14, <2>1 DEF Tick, TypeInv, TypeOK, KeyInv
    <2>3. age' \in [Instances -> 0 .. LockTtl]
      BY <1>14 DEF Tick, Min2, TypeInv, TypeOK
    <2>4. waited' \in [Instances -> 0 .. MaxWait] /\ tried' \in [Instances -> BOOLEAN]
      BY <1>14 DEF Tick, Min2, TypeInv, TypeOK
    <2>5. timer' \in [Instances -> 0 .. RefreshEvery] /\ late' \in [Instances -> 0 .. LockTtl]
      BY <1>14 DEF Tick, Min2, TypeInv, TypeOK
    <2> QED
      BY <1>14, <2>1, <2>2, <2>3, <2>4, <2>5 DEF Tick, TypeInv, TypeOK, KeyInv
  <1>15. CASE UNCHANGED vars
    BY <1>15 DEF vars, timers, TypeInv, TypeOK, KeyInv
  <1> QED
    BY <1>1, <1>2, <1>3, <1>4, <1>5, <1>6, <1>7, <1>8, <1>9, <1>10, <1>11, <1>12,
       <1>13, <1>14, <1>15 DEF Next, Step

\* Every variable keeps its type, and a key that lives has an owner, in every
\* deployment of any number of processes.
THEOREM TypeCorrect == Spec => []TypeOK
  <1>1. TypeInv => TypeOK
    BY DEF TypeInv
  <1> QED
    BY TypeInit, TypeNext, <1>1, PTL DEF Spec

-----------------------------------------------------------------------------
(* The lease.                                                              *)

\* A process that believes it owns polling has the key, with the time its
\* last refresh left on it, unless a whole time to live has passed since.
OwnerInv ==
    env.redisUrl =>
        \A i \in Owners :
            \/ lock.token = token[i] /\ lock.left + age[i] >= LockTtl
            \/ age[i] >= LockTtl

\* The key names the process that set it.
HolderInv == holder # None => lock.token \in TokensOf[holder]

LeaseInv == OwnerInv /\ HolderInv

\* What an absent key says about the processes that believe they own it.
LEMMA FreeMeansLate ==
    ASSUME TypeInv, OwnerInv, env.redisUrl, LockFree, NEW j \in Owners
    PROVE  age[j] >= LockTtl
  <1>1. j \in Instances /\ pc[j] # "down"
    BY DEF Owners, Owning
  <1>2. token[j] # None /\ lock.token = None
    BY <1>1, TokenAssumption DEF TypeInv, KeyInv, LockFree
  <1> QED
    BY <1>2 DEF OwnerInv

\* Two processes never hold the same key.
LEMMA KeyOfOne ==
    ASSUME DistinctIds, TypeInv, NEW i \in Instances, NEW j \in Instances,
           pc[i] # "down", pc[j] # "down", lock.token = token[i], lock.token = token[j]
    PROVE  i = j
  BY DEF DistinctIds, TypeInv, KeyInv

LEMMA LeaseInit == Init => LeaseInv
  BY DEF Init, LeaseInv, OwnerInv, HolderInv, Owners, Owning

\* Every step keeps the lease invariant, stalled processes included.
LEMMA LeaseNext ==
    ASSUME DistinctIds
    PROVE  TypeInv /\ LeaseInv /\ [Next]_vars => LeaseInv'
  <1> SUFFICES ASSUME TypeInv, LeaseInv, [Next]_vars PROVE LeaseInv'
    OBVIOUS
  <1> USE TokenAssumption, TimingAssumption
  <1>a. TypeInv'
    BY TypeNext
  \* A step that only moves processes out of the owning phases, or between
  \* them, and leaves key and timers alone keeps the invariant.
  <1>b. ASSUME UNCHANGED <<env, lock, holder>>,
               \A j \in Owners' : /\ j \in Owners
                                  /\ token'[j] = token[j] /\ age'[j] = age[j]
        PROVE  LeaseInv'
    BY <1>b DEF LeaseInv, OwnerInv, HolderInv
  \* So does one that also deletes the key of a process that leaves.
  <1>c. ASSUME NEW i \in Instances, DeleteIfOwn(i), pc[i] # "down", env' = env,
               \A j \in Owners' : /\ j \in Owners /\ j # i
                                  /\ token'[j] = token[j] /\ age'[j] = age[j]
        PROVE  LeaseInv'
    <2>1. CASE lock' = lock /\ holder' = holder
      BY <1>b, <1>c, <2>1
    <2>2. CASE lock.token = token[i] /\ lock' = NoLock /\ holder' = None
      <3>1. ASSUME env.redisUrl, NEW j \in Owners' PROVE age'[j] >= LockTtl
        <4>1. j \in Owners /\ j # i /\ age'[j] = age[j] /\ j \in Instances /\ pc[j] # "down"
          BY <1>c, <3>1 DEF Owners, Owning
        <4>2. lock.token # token[j]
          BY <4>1, <1>c, <2>2, KeyOfOne
        <4> QED BY <3>1, <4>1, <4>2 DEF LeaseInv, OwnerInv
      <3> QED BY <3>1, <2>2, <1>c DEF LeaseInv, OwnerInv, HolderInv
    <2> QED BY <1>c, <2>1, <2>2, DeleteType
  \* And one that sets a key that was absent.
  <1>d. ASSUME NEW i \in Instances, SetNx(i), LockFree, env.redisUrl, pc[i] # "down", env' = env,
               \A j \in Owners' : /\ token'[j] = token[j]
                                  /\ j # i => j \in Owners /\ age'[j] = age[j],
               i \in Owners' => age'[i] = 0
        PROVE  LeaseInv'
    <2>1. lock'.token = token[i] /\ lock'.left = LockTtl /\ holder' = i
      BY <1>d, SetNxType
    <2>2. ASSUME NEW j \in Owners', j # i PROVE age'[j] >= LockTtl
      BY <1>d, <2>2, FreeMeansLate DEF LeaseInv
    <2>3. token[i] \in TokensOf[i]
      BY <1>d DEF TypeInv, KeyInv
    <2> QED
      BY <1>d, <2>1, <2>2, <2>3 DEF LeaseInv, OwnerInv, HolderInv
  \* And one that refreshes a key of its own.
  <1>e. ASSUME NEW i \in Instances, ExpireIfOwn(i), pc[i] # "down", env' = env,
               \A j \in Owners' : /\ j \in Owners /\ token'[j] = token[j]
                                  /\ age'[j] = age[j] \/ (j = i /\ lock.token = token[i])
        PROVE  LeaseInv'
    <2>1. /\ lock'.token = lock.token /\ lock'.left >= lock.left /\ holder' = holder
          /\ lock.token = token[i] => lock'.left = LockTtl
          /\ lock.left \in Int /\ lock'.left \in Int
      BY <1>e, ExpireType DEF TypeInv, TypeOK
    <2>2. HolderInv'
      BY <2>1 DEF LeaseInv, HolderInv
    <2>3. ASSUME env.redisUrl, NEW j \in Owners'
          PROVE  \/ lock'.token = token'[j] /\ lock'.left + age'[j] >= LockTtl
                 \/ age'[j] >= LockTtl
      <3>1. /\ j \in Owners /\ token'[j] = token[j]
            /\ age[j] \in Int /\ age'[j] \in Int /\ age'[j] >= 0
        BY <1>e, <2>3, <1>a DEF Owners, TypeInv, TypeOK
      <3>2. CASE age'[j] = age[j]
        BY <2>1, <2>3, <3>1, <3>2 DEF LeaseInv, OwnerInv
      <3>3. CASE j = i /\ lock.token = token[i]
        BY <2>1, <3>1, <3>3
      <3> QED BY <1>e, <2>3, <3>2, <3>3
    <2> QED BY <1>e, <2>2, <2>3 DEF LeaseInv, OwnerInv
  <1>1. ASSUME NEW i \in Instances, Start(i) PROVE LeaseInv'
    BY <1>1, <1>b DEF Start, Goto, Owners, Owning, TypeInv, TypeOK
  <1>2. ASSUME NEW i \in Instances, AcquireSucceeds(i) PROVE LeaseInv'
    <2>1. /\ pc[i] # "down" /\ env' = env /\ token' = token /\ age'[i] = 0
          /\ \A j \in Owners' : j # i => j \in Owners /\ age'[j] = age[j]
      BY <1>2 DEF AcquireSucceeds, Goto, Owners, Owning, TypeInv, TypeOK
    <2>2. CASE ~env.redisUrl /\ UNCHANGED <<lock, holder>>
      BY <2>1, <2>2 DEF LeaseInv, OwnerInv, HolderInv
    <2>3. CASE env.redisUrl /\ LockFree /\ SetNx(i)
      BY <1>d, <2>1, <2>3
    <2> QED BY <1>2, <2>2, <2>3 DEF AcquireSucceeds
  <1>3. ASSUME NEW i \in Instances, AcquireRefused(i) PROVE LeaseInv'
    <2>1. /\ env' = env /\ token' = token /\ age' = age /\ Owners' = Owners
          /\ pc[i] # "down" /\ i \notin Owners' /\ env.redisUrl
      BY <1>3 DEF AcquireRefused, Owners, Owning
    <2>2. CASE UNCHANGED <<lock, holder>>
      BY <1>b, <2>1, <2>2
    <2>3. CASE LockFree /\ SetNx(i)
      BY <1>d, <2>1, <2>3
    <2> QED BY <1>3, <2>2, <2>3 DEF AcquireRefused
  <1>4. ASSUME NEW i \in Instances, GiveUp(i) PROVE LeaseInv'
    BY <1>4, <1>b DEF GiveUp, Goto, timers, Owners, Owning, TypeInv, TypeOK
  <1>5. ASSUME NEW i \in Instances, YieldToWebhook(i) PROVE LeaseInv'
    <2>1. /\ env' = env /\ token' = token /\ age' = age /\ pc[i] # "down"
          /\ \A j \in Owners' : j \in Owners /\ j # i
      BY <1>5 DEF YieldToWebhook, Goto, timers, Owners, Owning, TypeInv, TypeOK
    <2>2. CASE UNCHANGED <<lock, holder>>
      BY <1>b, <2>1, <2>2
    <2>3. CASE DeleteIfOwn(i)
      BY <1>c, <2>1, <2>3
    <2> QED BY <1>5, <2>2, <2>3 DEF YieldToWebhook
  <1>6. ASSUME NEW i \in Instances, StartPolling(i) PROVE LeaseInv'
    BY <1>6, <1>b DEF StartPolling, Goto, timers, Owners, Owning, TypeInv, TypeOK
  <1>7. ASSUME NEW i \in Instances, RefreshSucceeds(i) PROVE LeaseInv'
    <2>1. /\ env' = env /\ token' = token /\ pc[i] # "down" /\ Owners' = Owners
          /\ \A j \in Instances : age'[j] = IF j = i THEN 0 ELSE age[j]
          /\ env.redisUrl => lock.token = token[i]
      BY <1>7 DEF RefreshSucceeds, SleepIsOver, Stale, Refreshing, Owners, TypeInv, TypeOK
    <2>2. CASE ~env.redisUrl /\ UNCHANGED <<lock, holder>>
      BY <2>1, <2>2 DEF LeaseInv, OwnerInv, HolderInv
    <2>3. CASE env.redisUrl /\ ExpireIfOwn(i)
      BY <1>e, <2>1, <2>3 DEF Owners
    <2> QED BY <1>7, <2>2, <2>3 DEF RefreshSucceeds
  <1>8. ASSUME NEW i \in Instances, RefreshFails(i) PROVE LeaseInv'
    <2>1. /\ env' = env /\ token' = token /\ age' = age /\ pc[i] # "down"
          /\ \A j \in Owners' : j \in Owners
      BY <1>8 DEF RefreshFails, SleepIsOver, Refreshing, Goto, timers, Owners, Owning, TypeInv, TypeOK
    <2>2. CASE UNCHANGED <<lock, holder>>
      BY <1>b, <2>1, <2>2
    <2>3. CASE ExpireIfOwn(i)
      BY <1>e, <2>1, <2>3
    <2> QED BY <1>8, <2>2, <2>3 DEF RefreshFails
  <1>9. ASSUME NEW i \in Instances, Conflict(i) PROVE LeaseInv'
    BY <1>9, <1>b DEF Conflict, Goto, timers, Owners, Owning, TypeInv, TypeOK
  <1>10. ASSUME NEW i \in Instances, Shutdown(i) PROVE LeaseInv'
    <2>1. /\ env' = env /\ token' = token /\ age' = age /\ pc[i] # "down"
          /\ \A j \in Owners' : j \in Owners /\ j # i
      BY <1>10 DEF Shutdown, Goto, timers, Owners, Owning, TypeInv, TypeOK
    <2>2. CASE UNCHANGED <<lock, holder>>
      BY <1>b, <2>1, <2>2
    <2>3. CASE DeleteIfOwn(i)
      BY <1>c, <2>1, <2>3
    <2> QED BY <1>10, <2>2, <2>3 DEF Shutdown
  <1>11. ASSUME NEW i \in Instances, Crash(i) PROVE LeaseInv'
    BY <1>11, <1>b DEF Crash, Goto, timers, Owners, Owning, TypeInv, TypeOK
  <1>12. ASSUME NEW i \in Instances, Recorded(i) \/ Freeze(i) \/ Thaw(i) PROVE LeaseInv'
    BY <1>12, <1>b DEF Recorded, Freeze, Thaw, timers, Owners
  <1>13. CASE ToggleWebhook
    BY <1>13, <1>b DEF ToggleWebhook, timers, Owners
  <1>14. CASE Tick
    <2>1. /\ env' = env /\ token' = token /\ Owners' = Owners /\ lock' = Elapsed(lock)
          /\ holder' = IF lock.left <= 1 THEN None ELSE holder
      BY <1>14 DEF Tick, Owners
    <2>2. ASSUME NEW j \in Owners
          PROVE  /\ age[j] \in 0 .. LockTtl /\ lock.left \in 0 .. LockTtl
                 /\ age'[j] = IF age[j] + 1 < LockTtl THEN age[j] + 1 ELSE LockTtl
      BY <1>14, <2>2 DEF Tick, Min2, Owners, TypeInv, TypeOK
    <2>3. HolderInv'
      BY <2>1, ElapsedType DEF LeaseInv, HolderInv, TypeInv, TypeOK
    <2>4. ASSUME env.redisUrl, NEW j \in Owners
          PROVE  \/ lock'.token = token[j] /\ lock'.left + age'[j] >= LockTtl
                 \/ age'[j] >= LockTtl
      BY <2>1, <2>2, <2>4, ElapsedType DEF LeaseInv, OwnerInv
    <2> QED BY <2>1, <2>3, <2>4 DEF LeaseInv, OwnerInv
  <1>15. CASE UNCHANGED vars
    BY <1>15, <1>b DEF vars, timers, Owners
  <1> QED
    BY <1>1, <1>2, <1>3, <1>4, <1>5, <1>6, <1>7, <1>8, <1>9, <1>10, <1>11, <1>12,
       <1>13, <1>14, <1>15 DEF Next, Step

-----------------------------------------------------------------------------
(* One owner at a time, while nobody freezes.                              *)

\* A process beyond the preflight was allowed to poll.
PermitInv ==
    \A i \in Instances :
        pc[i] \notin {"down", "idle"} => (env.production /\ ~env.redisUrl => env.override)

\* Without freezes every owner refreshes in time: no time passes before its
\* first sleep or between two, so the sleep is as old as the lease.
PromptInv ==
    /\ frozen = {}
    /\ \A i \in Owners :
         /\ age[i] <= timer[i]
         /\ pc[i] = "owner" \/ i \in recording => age[i] = 0

LEMMA PermitInit == Init => PermitInv
  BY DEF Init, PermitInv

LEMMA PermitNext == TypeInv /\ PermitInv /\ [Next]_vars => PermitInv'
  <1> SUFFICES ASSUME TypeInv, PermitInv, [Next]_vars PROVE PermitInv'
    OBVIOUS
  <1>1. ASSUME NEW i \in Instances, Start(i) PROVE PermitInv'
    BY <1>1 DEF Start, Preflight, Goto, PermitInv, TypeInv, TypeOK
  <1>2. ASSUME NEW i \in Instances, Step(i) \/ Shutdown(i) \/ Crash(i), ~Start(i)
        PROVE  PermitInv'
    BY <1>2 DEF Step, AcquireSucceeds, AcquireRefused, GiveUp, YieldToWebhook, StartPolling,
                RefreshSucceeds, RefreshFails, Recorded, Conflict, Shutdown, Crash,
                SleepIsOver, Refreshing, Goto, PermitInv, TypeInv, TypeOK
  <1>3. CASE \/ \E i \in Instances : Freeze(i) \/ Thaw(i)
             \/ ToggleWebhook \/ Tick \/ UNCHANGED vars
    BY <1>3 DEF Freeze, Thaw, ToggleWebhook, Tick, vars, PermitInv
  <1> QED
    BY <1>1, <1>2, <1>3 DEF Next, Step

LEMMA PromptInit == Init => PromptInv
  BY DEF Init, PromptInv, Owners, Owning

LEMMA PromptNext ==
    ASSUME NoStalls
    PROVE  TypeInv /\ PromptInv /\ [Next]_vars => PromptInv'
  <1> SUFFICES ASSUME TypeInv, PromptInv, [Next]_vars PROVE PromptInv'
    OBVIOUS
  <1> USE TimingAssumption
  <1>1. ASSUME NEW i \in Instances, AcquireSucceeds(i) PROVE PromptInv'
    <2>1. /\ frozen' = frozen /\ age'[i] = 0 /\ timer' = timer /\ recording' = recording
          /\ timer[i] >= 0
          /\ \A j \in Owners' : j # i => j \in Owners /\ age'[j] = age[j] /\ pc'[j] = pc[j]
      BY <1>1 DEF AcquireSucceeds, sleeps, Goto, Owners, Owning, TypeInv, TypeOK
    <2> QED BY <2>1 DEF PromptInv
  <1>2. ASSUME NEW i \in Instances, RefreshSucceeds(i) PROVE PromptInv'
    <2>1. /\ frozen' = frozen /\ Owners' = Owners /\ pc' = pc /\ timer' = timer
          /\ timer[i] >= 0 /\ recording' = recording \cup {i}
          /\ \A j \in Owners : age'[j] = IF j = i THEN 0 ELSE age[j]
      BY <1>2 DEF RefreshSucceeds, Owners, TypeInv, TypeOK
    <2> QED BY <2>1 DEF PromptInv
  <1>3. ASSUME NEW i \in Instances, Recorded(i) \/ StartPolling(i) PROVE PromptInv'
    <2>1. /\ frozen' = frozen /\ age' = age /\ Owners' = Owners
          /\ recording' \subseteq recording
          /\ \A j \in Instances : timer'[j] = IF j = i THEN 0 ELSE timer[j]
          /\ \A j \in Instances \ {i} : pc'[j] = pc[j]
          /\ i \in Owners => age[i] = 0
      BY <1>3 DEF Recorded, StartPolling, Goto, Owners, Owning, PromptInv, TypeInv, TypeOK
    <2>2. pc'[i] # "owner" \/ pc'[i] = pc[i]
      BY <1>3 DEF Recorded, StartPolling, Goto, TypeInv, TypeOK
    <2> QED BY <2>1, <2>2 DEF PromptInv, Owners
  <1>4. ASSUME NEW i \in Instances,
               Step(i) \/ Shutdown(i) \/ Crash(i),
               ~AcquireSucceeds(i), ~RefreshSucceeds(i), ~Recorded(i), ~StartPolling(i)
        PROVE  PromptInv'
    <2>1. /\ frozen' \subseteq frozen /\ recording' \subseteq recording
          /\ \A j \in Owners' : /\ j \in Owners
                                /\ age'[j] = age[j] /\ timer'[j] = timer[j]
                                /\ pc'[j] = "owner" => pc[j] = "owner"
      BY <1>4 DEF Step, Start, AcquireRefused, GiveUp, YieldToWebhook,
                  RefreshFails, SleepIsOver, Conflict, Shutdown, Crash, Refreshing, Goto,
                  timers, sleeps, Owners, Owning, TypeInv, TypeOK
    <2> QED BY <2>1 DEF PromptInv
  <1>5. ASSUME NEW i \in Instances, Freeze(i) \/ Thaw(i) PROVE PromptInv'
    BY <1>5 DEF Freeze, Thaw, NoStalls, PromptInv
  <1>6. CASE ToggleWebhook \/ UNCHANGED vars
    BY <1>6 DEF ToggleWebhook, vars, timers, PromptInv, Owners
  <1>7. CASE Tick
    <2>1. Owners' = Owners /\ frozen' = frozen /\ pc' = pc /\ recording' = recording
      BY <1>7 DEF Tick, Owners
    <2>2. ASSUME NEW j \in Owners
          PROVE  age'[j] <= timer'[j] /\ pc[j] # "owner" /\ j \notin recording
      <3>1. /\ j \in Instances /\ pc[j] \in Owning
            /\ age[j] \in 0 .. LockTtl /\ timer[j] \in 0 .. RefreshEvery
        BY <2>2 DEF Owners, TypeInv, TypeOK
      <3>2. pc[j] \in Refreshing /\ timer[j] < RefreshEvery /\ j \notin recording /\ pc[j] # "owner"
        BY <1>7, <3>1 DEF Tick, Prompt, Awake, PromptInv, Owning, Refreshing
      <3>3. timer'[j] = timer[j] + 1 /\ age'[j] <= age[j] + 1 /\ age'[j] \in Int
        BY <1>7, <3>1, <3>2 DEF Tick, Min2
      <3> QED
        BY <2>2, <3>1, <3>2, <3>3 DEF PromptInv
    <2> QED BY <2>1, <2>2 DEF PromptInv
  <1> QED
    BY <1>1, <1>2, <1>3, <1>4, <1>5, <1>6, <1>7 DEF Next, Step

\* With Redis a prompt owner is the only one.
LEMMA PromptOwnerIsAlone ==
    ASSUME DistinctIds, TypeInv, OwnerInv, PromptInv, env.redisUrl
    PROVE  AtMostOne(Owners)
  <1>1. ASSUME NEW i \in Owners PROVE i \in Instances /\ pc[i] # "down" /\ lock.token = token[i]
    <2>1. age[i] \in Int /\ timer[i] \in 0 .. RefreshEvery /\ age[i] <= timer[i]
      BY <1>1 DEF PromptInv, Owners, TypeInv, TypeOK
    <2> QED
      BY <1>1, <2>1, TimingAssumption DEF OwnerInv, Owners, Owning
  <1> QED
    BY <1>1, KeyOfOne DEF AtMostOne

\* While no event loop freezes and the ids differ, two processes own polling
\* only without Redis, and in production only after the override was set:
\* any number of processes, faults and crashes, any time to live that exceeds
\* the refresh period.
THEOREM OneOwner ==
    ASSUME DistinctIds, NoStalls
    PROVE  Spec => []DuplicateOnlyByOverride
  <1> DEFINE Inv == TypeInv /\ LeaseInv /\ PromptInv /\ PermitInv
  <1>1. Init => Inv
    BY TypeInit, LeaseInit, PromptInit, PermitInit
  <1>2. Inv /\ [Next]_vars => Inv'
    BY TypeNext, LeaseNext, PromptNext, PermitNext
  <1>3. Inv => DuplicateOnlyByOverride
    <2> SUFFICES ASSUME Inv, ~DuplicateOnlyByOverride PROVE FALSE
      OBVIOUS
    <2>1. ~env.redisUrl
      BY PromptOwnerIsAlone DEF LeaseInv, DuplicateOnlyByOverride
    <2>2. PICK i \in Owners : TRUE
      BY DEF DuplicateOnlyByOverride, AtMostOne
    <2>3. env.production => env.override
      BY <2>1, <2>2 DEF PermitInv, Owners, Owning
    <2> QED BY <2>1, <2>3 DEF DuplicateOnlyByOverride
  <1> QED
    BY <1>1, <1>2, <1>3, PTL DEF Spec

-----------------------------------------------------------------------------
(* What stalls cannot break.                                               *)

\* However long a process froze, the key leaves its holder only by running
\* out or by a step of the holder: no release and no refresh of another
\* process, stale or not, takes it away.
THEOREM NotStolen ==
    ASSUME DistinctIds
    PROVE  Spec => LeaseNotStolen
  <1> DEFINE Inv == TypeInv /\ LeaseInv
  <1> DEFINE Kept ==
        holder # None /\ holder' # holder =>
            /\ holder' = None
            /\ lock.left = 1 \/ pc'[holder] # pc[holder]
  <1>1. Init => Inv
    BY TypeInit, LeaseInit
  <1>2. Inv /\ [Next]_vars => Inv'
    BY TypeNext, LeaseNext
  <1>3. Inv /\ [Next]_vars => [Kept]_vars
    <2> SUFFICES ASSUME Inv, [Next]_vars, holder # None, holder' # holder
                 PROVE  /\ holder' = None
                        /\ lock.left = 1 \/ pc'[holder] # pc[holder]
      OBVIOUS
    <2>1. holder \in Instances /\ lock.token \in TokensOf[holder] /\ ~LockFree /\ lock.left \in Nat
      BY DEF LeaseInv, HolderInv, TypeInv, TypeOK, KeyInv, LockFree
    <2>2. ASSUME NEW i \in Instances, pc[i] # "down", DeleteIfOwn(i), pc'[i] # pc[i]
          PROVE  holder' = None /\ pc'[holder] # pc[holder]
      <3>1. lock.token = token[i] /\ holder' = None
        BY <2>2, DeleteType
      <3>2. i = holder
        BY <2>1, <2>2, <3>1 DEF DistinctIds, TypeInv, KeyInv
      <3> QED BY <2>2, <3>1, <3>2
    <2>3. ASSUME NEW i \in Instances, YieldToWebhook(i) \/ Shutdown(i)
          PROVE  holder' = None /\ pc'[holder] # pc[holder]
      <3>1. pc[i] # "down" /\ DeleteIfOwn(i) /\ pc'[i] # pc[i]
        BY <2>3 DEF YieldToWebhook, Shutdown, Goto, TypeInv, TypeOK
      <3> QED BY <2>2, <3>1
    <2>4. CASE Tick
      BY <2>1, <2>4 DEF Tick, LockFree
    <2>5. ASSUME NEW i \in Instances,
                 Step(i) \/ Crash(i) \/ Freeze(i) \/ Thaw(i), ~YieldToWebhook(i)
          PROVE  FALSE
      BY <2>1, <2>5 DEF Step, Start, AcquireSucceeds, AcquireRefused, GiveUp, StartPolling,
            RefreshSucceeds, RefreshFails, Recorded, Conflict, Crash, Freeze, Thaw, ExpireIfOwn
    <2>6. CASE ToggleWebhook \/ UNCHANGED vars
      BY <2>6 DEF ToggleWebhook, vars
    <2> QED
      BY <2>3, <2>4, <2>5, <2>6 DEF Next, Step
  <1> QED
    BY <1>1, <1>2, <1>3, PTL DEF Spec, LeaseNotStolen

\* A late process is in the sleep it thawed into, has slept at least as long
\* as it has polled late, and cannot get its key back while it polls.
LateInv ==
    \A i \in Instances :
        /\ late[i] <= RefreshEvery
        /\ pc[i] \in {"waiting", "owner"} => late[i] = 0
        /\ pc[i] \in Refreshing /\ late[i] > 0 =>
             Stale(i) /\ late[i] <= timer[i] /\ i \notin recording

LEMMA LateInit == Init => LateInv
  BY TimingAssumption DEF Init, LateInv, Refreshing

\* A stale process that polls stays stale: only its own SET makes the key its
\* own, and it sets the key only before it polls.
LEMMA StaleStays ==
    ASSUME DistinctIds, TypeInv, [Next]_vars, NEW j \in Instances,
           pc[j] \in Refreshing, pc'[j] \in Refreshing, Stale(j)
    PROVE  Stale(j)'
  <1> USE TokenAssumption
  <1>0. env' = env /\ env.redisUrl
    BY DEF Stale, Next, Step, Start, AcquireSucceeds, AcquireRefused, GiveUp, YieldToWebhook,
           StartPolling, RefreshSucceeds, RefreshFails, Recorded, Conflict, Shutdown, Crash,
           Freeze, Thaw, ToggleWebhook, Tick, vars
  <1>1. token'[j] = token[j] /\ token[j] \in Tokens /\ pc[j] # "down"
    BY DEF Refreshing, Next, Step, Start, AcquireSucceeds, AcquireRefused, GiveUp,
           YieldToWebhook, StartPolling, RefreshSucceeds, RefreshFails, Recorded, Conflict,
           Shutdown, Crash, Freeze, Thaw, ToggleWebhook, Tick, Goto, vars, TypeInv, TypeOK, KeyInv
  <1>2. ASSUME NEW i \in Instances, pc[i] = "waiting", SetNx(i) PROVE lock'.token # token[j]
    <2>1. i # j /\ lock'.token = token[i] /\ token[i] \in TokensOf[i] /\ token[j] \in TokensOf[j]
      BY <1>1, <1>2, SetNxType DEF Refreshing, TypeInv, KeyInv
    <2> QED BY <2>1 DEF DistinctIds
  <1>3. ASSUME NEW i \in Instances, DeleteIfOwn(i) PROVE lock'.token # token[j]
    BY <1>1, <1>3, DeleteType DEF Stale, NoLock
  <1>4. ASSUME NEW i \in Instances, pc[i] # "down", ExpireIfOwn(i) PROVE lock'.token # token[j]
    BY <1>1, <1>4, ExpireType DEF Stale
  <1>5. ASSUME Tick PROVE lock'.token # token[j]
    BY <1>1, <1>5 DEF Tick, Elapsed, NoLock, Stale
  <1>6. lock'.token # token[j] \/ UNCHANGED lock
    BY <1>0, <1>2, <1>3, <1>4, <1>5
    DEF Next, Step, Start, AcquireSucceeds, AcquireRefused, GiveUp, YieldToWebhook,
        StartPolling, RefreshSucceeds, RefreshFails, SleepIsOver, Refreshing, Recorded,
        Conflict, Shutdown, Crash, Freeze, Thaw, ToggleWebhook, vars
  <1> QED BY <1>0, <1>1, <1>6 DEF Stale

LEMMA LateNext ==
    ASSUME DistinctIds
    PROVE  TypeInv /\ LateInv /\ [Next]_vars => LateInv'
  <1> SUFFICES ASSUME TypeInv, LateInv, [Next]_vars, NEW j \in Instances
               PROVE  /\ late'[j] <= RefreshEvery
                      /\ pc'[j] \in {"waiting", "owner"} => late'[j] = 0
                      /\ pc'[j] \in Refreshing /\ late'[j] > 0 =>
                           Stale(j)' /\ late'[j] <= timer'[j] /\ j \notin recording'
    BY DEF LateInv
  <1> USE TimingAssumption DEF Refreshing
  <1>0. late[j] \in 0 .. LockTtl /\ timer[j] \in 0 .. RefreshEvery
    BY DEF TypeInv, TypeOK
  \* A step that leaves the count alone, or ends the process, keeps it.
  <1>a. ASSUME late'[j] = late[j],
               pc'[j] \in {"waiting", "owner"} => pc[j] \in {"waiting", "owner"},
               pc'[j] \in Refreshing =>
                   \/ late[j] = 0
                   \/ pc[j] \in Refreshing /\ timer'[j] >= timer[j] /\ (j \in recording' => j \in recording),
               timer'[j] \in Int
        PROVE  /\ late'[j] <= RefreshEvery
               /\ pc'[j] \in {"waiting", "owner"} => late'[j] = 0
               /\ pc'[j] \in Refreshing /\ late'[j] > 0 =>
                    Stale(j)' /\ late'[j] <= timer'[j] /\ j \notin recording'
    BY <1>0, <1>a, StaleStays DEF LateInv
  <1>b. timer'[j] \in Int
    BY TypeNext DEF TypeInv, TypeOK
  <1>1. ASSUME NEW i \in Instances, Start(i) PROVE late'[j] = 0 \/ i # j
    BY <1>1 DEF Start, TypeInv, TypeOK
  <1>2. ASSUME NEW i \in Instances, Start(i)
        PROVE  i # j => late'[j] = late[j] /\ timer'[j] = timer[j] /\ pc'[j] = pc[j] /\ recording' = recording
    BY <1>2 DEF Start, Goto, TypeInv, TypeOK
  <1>3. ASSUME NEW i \in Instances, Start(i)
        PROVE  /\ late'[j] <= RefreshEvery
               /\ pc'[j] \in {"waiting", "owner"} => late'[j] = 0
               /\ pc'[j] \in Refreshing /\ late'[j] > 0 =>
                    Stale(j)' /\ late'[j] <= timer'[j] /\ j \notin recording'
    BY <1>a, <1>b, <1>0, <1>1, <1>2, <1>3
  <1>4. ASSUME NEW i \in Instances, RefreshSucceeds(i) \/ Recorded(i) \/ StartPolling(i)
        PROVE  /\ late' = late
               /\ i = j => late[j] = 0 /\ pc'[j] \notin {"waiting", "owner"}
               /\ i # j => /\ timer'[j] = timer[j] /\ pc'[j] = pc[j]
                           /\ j \in recording' => j \in recording
    <2>1. CASE RefreshSucceeds(i)
      <3>1. pc[i] \in Refreshing /\ ~Stale(i) /\ late' = late /\ pc' = pc
            /\ timer' = timer /\ recording' = recording \cup {i}
        BY <2>1 DEF RefreshSucceeds, SleepIsOver
      <3> QED BY <3>1, <1>0 DEF LateInv
    <2>2. CASE Recorded(i)
      <3>1. i \in recording /\ late' = late /\ pc' = pc /\ recording' \subseteq recording
            /\ (i # j => timer'[j] = timer[j])
        BY <2>2 DEF Recorded, TypeInv, TypeOK
      <3>2. late[i] \in Int /\ late[i] >= 0 /\ pc[i] \in Refreshing
        BY <3>1 DEF TypeInv, TypeOK, KeyInv
      <3> QED BY <3>1, <3>2 DEF LateInv
    <2>3. CASE StartPolling(i)
      BY <2>3 DEF StartPolling, Goto, LateInv, TypeInv, TypeOK
    <2> QED BY <1>4, <2>1, <2>2, <2>3
  <1>5. ASSUME NEW i \in Instances,
               \/ AcquireSucceeds(i) \/ AcquireRefused(i) \/ GiveUp(i) \/ YieldToWebhook(i)
               \/ RefreshFails(i) \/ Conflict(i) \/ Shutdown(i) \/ Crash(i)
               \/ Freeze(i) \/ Thaw(i) \/ ToggleWebhook \/ UNCHANGED vars
        PROVE  /\ late' = late /\ timer' = timer /\ recording' \subseteq recording
               /\ pc'[j] \in {"waiting", "owner"} => pc[j] \in {"waiting", "owner"}
               /\ pc'[j] \in Refreshing => pc[j] \in Refreshing
    BY <1>5 DEF AcquireSucceeds, AcquireRefused, GiveUp, YieldToWebhook, RefreshFails,
         Conflict, Shutdown, Crash, Freeze, Thaw, ToggleWebhook, vars, timers, sleeps,
         Goto, TypeInv, TypeOK
  <1>6. CASE Tick
    <2>1. /\ pc' = pc /\ recording' = recording
          /\ j \in LivePollers /\ Stale(j) => /\ late'[j] <= late[j] + 1 /\ late'[j] \in Int
                                              /\ late'[j] >= 0
          /\ ~(j \in LivePollers /\ Stale(j)) => late'[j] = late[j]
          /\ timer'[j] >= timer[j] /\ timer'[j] \in Int
      BY <1>0, <1>6 DEF Tick, Min2
    <2>2. CASE j \in LivePollers /\ Stale(j)
      <3>1. pc[j] = "polling" /\ timer[j] < RefreshEvery /\ j \notin recording
        BY <1>6, <2>2 DEF Tick, Prompt, Awake, LivePollers, Pollers
      <3>2. timer'[j] = timer[j] + 1
        BY <1>0, <1>6, <3>1 DEF Tick, Min2
      <3>3. late[j] <= timer[j]
        BY <1>0, <3>1 DEF LateInv
      <3>4. Stale(j)'
        BY <2>1, <2>2, <3>1, StaleStays
      <3> QED BY <1>0, <2>1, <2>2, <3>1, <3>2, <3>3, <3>4
    <2>3. CASE ~(j \in LivePollers /\ Stale(j))
      BY <1>a, <2>1, <2>3
    <2> QED BY <2>2, <2>3
  <1> QED
    BY <1>a, <1>b, <1>3, <1>4, <1>5, <1>6 DEF Next, Step

\* With ids that differ, a process that lost its lease while its event loop
\* was frozen polls for at most one refresh period of its waking time, for
\* any number of processes, freezes and crashes and any times.
THEOREM LateStops ==
    ASSUME DistinctIds
    PROVE  Spec => []LatePollerStops
  <1> DEFINE Inv == TypeInv /\ LateInv
  <1>1. Init => Inv
    BY TypeInit, LateInit
  <1>2. Inv /\ [Next]_vars => Inv'
    BY TypeNext, LateNext
  <1>3. Inv => LatePollerStops
    BY DEF LateInv, LatePollerStops
  <1> QED
    BY <1>1, <1>2, <1>3, PTL DEF Spec

-----------------------------------------------------------------------------
(* The guard implements SinglePoller.                                      *)

\* With Redis, distinct ids and no freeze, polling is handed over through
\* nobody polling: every step begins or ends the polling of one process.
THEOREM ImplementsSinglePoller ==
    ASSUME DistinctIds, NoStalls
    PROVE  Spec => SinglePollerSpec
  <1> DEFINE Inv == TypeInv /\ LeaseInv /\ PromptInv
  <1>1. Init => Inv
    BY TypeInit, LeaseInit, PromptInit
  <1>2. Inv /\ [Next]_vars => Inv'
    BY TypeNext, LeaseNext, PromptNext
  <1>3. Init => PO!Init
    BY DEF Init, PO!Init, Pollers, GuardedPollers
  <1>4. Inv /\ [Next]_vars => [PO!Next]_GuardedPollers
    <2> SUFFICES ASSUME Inv, [Next]_vars PROVE [PO!Next]_GuardedPollers
      OBVIOUS
    <2>1. env' = env
      BY DEF Next, Step, Start, AcquireSucceeds, AcquireRefused, GiveUp, YieldToWebhook,
             StartPolling, RefreshSucceeds, RefreshFails, Recorded, Conflict, Shutdown, Crash,
             Freeze, Thaw, ToggleWebhook, Tick, vars
    <2>2. CASE ~env.redisUrl
      BY <2>1, <2>2 DEF GuardedPollers
    <2>3. CASE env.redisUrl
      <3>1. GuardedPollers = Pollers /\ GuardedPollers' = Pollers'
        BY <2>1, <2>3 DEF GuardedPollers
      <3>2. AtMostOne(Owners)
        BY <2>3, PromptOwnerIsAlone DEF LeaseInv, TypeInv, TypeOK
      <3>3. Pollers \subseteq Owners
        BY DEF Pollers, Owners, Owning
      <3>4. ASSUME NEW i \in Instances, StartPolling(i) PROVE PO!Begin(i)
        <4>1. i \in Owners /\ i \notin Pollers
          BY <3>4 DEF StartPolling, Owners, Owning, Pollers
        <4>2. Pollers = {}
          BY <4>1, <3>2, <3>3 DEF AtMostOne
        <4>3. Pollers' = Pollers \cup {i}
          BY <3>4 DEF StartPolling, Goto, Pollers, TypeInv, TypeOK
        <4> QED BY <3>1, <4>2, <4>3 DEF PO!Begin
      <3>5. ASSUME NEW i \in Instances,
                   Step(i) \/ Shutdown(i) \/ Crash(i), ~StartPolling(i)
            PROVE  Pollers' = Pollers \ {i} \/ Pollers' = Pollers
        BY <3>5 DEF Step, Start, AcquireSucceeds, AcquireRefused, GiveUp, YieldToWebhook,
                    RefreshSucceeds, RefreshFails, Recorded, Conflict, Shutdown, Crash, Goto,
                    Pollers, TypeInv, TypeOK
      <3>6. ASSUME NEW i \in Instances, Pollers' = Pollers \ {i} \/ Pollers' = Pollers
            PROVE  PO!End(i) \/ Pollers' = Pollers
        <4>1. CASE i \notin Pollers
          BY <3>6, <4>1
        <4>2. CASE i \in Pollers
          <5>1. Pollers = {i}
            BY <4>2, <3>2, <3>3 DEF AtMostOne
          <5> QED BY <3>1, <3>6, <5>1 DEF PO!End
        <4> QED BY <4>1, <4>2
      <3>7. CASE \/ \E i \in Instances : Freeze(i) \/ Thaw(i)
                 \/ ToggleWebhook \/ Tick \/ UNCHANGED vars
        BY <3>1, <3>7 DEF Freeze, Thaw, ToggleWebhook, Tick, vars, Pollers
      <3> QED
        BY <3>1, <3>4, <3>5, <3>6, <3>7 DEF Next, Step, PO!Next
    <2> QED BY <2>2, <2>3
  <1> QED
    BY <1>1, <1>2, <1>3, <1>4, PTL DEF Spec, SinglePollerSpec, PO!Spec
=============================================================================
