-------------------------- MODULE PollingOwnership --------------------------
(***************************************************************************)
(* Ownership of Telegram long polling among bot worker processes.          *)
(*                                                                         *)
(* Each process runs app/bot/runner.py main(): preflight, acquisition of   *)
(* the Redis lock through BotPollingGuard, the webhook check, polling with *)
(* a refresh task, and the three ways of not polling (blocked, refused,    *)
(* webhook).  Time is counted in ticks of one refresh period's length;     *)
(* Redis is one key with a time to live.  A Redis call may fail, and a     *)
(* call that was executed may lose its reply (socket_timeout is 1 s).      *)
(***************************************************************************)
EXTENDS Integers, FiniteSets

CONSTANTS
    Instances,      \* bot worker processes
    Tokens,         \* values the Redis key may hold (masked instance ids)
    None,           \* no token, no holder
    TokensOf,       \* the masked ids a process may start with: one when
                    \* BOT_INSTANCE_ID is set, a fresh one per start otherwise
    Environments,   \* deployments: settings the preflight reads
    Stallable,      \* processes whose event loop may freeze while time passes
    LockTtl,        \* BotPollingGuard ttl_seconds, in ticks
    RefreshEvery,   \* sleep between refreshes, in ticks
    MaxWait,        \* max_wait_seconds of _acquire_polling_guard, in ticks
    MaxFaults,      \* bound: Redis calls that fail or lose their reply
    MaxCrashes      \* bound: processes killed by the platform or a fault

ASSUME TokenAssumption ==
    /\ TokensOf \in [Instances -> SUBSET Tokens]
    /\ None \notin Tokens
    /\ None \notin Instances

ASSUME EnvironmentAssumption ==
    Environments \subseteq [production: BOOLEAN, redisUrl: BOOLEAN,
                            override: BOOLEAN, primary: SUBSET Instances]

ASSUME TimingAssumption ==
    /\ LockTtl \in Nat /\ RefreshEvery \in Nat /\ MaxWait \in Nat
    /\ 0 < RefreshEvery /\ RefreshEvery < LockTtl
    /\ MaxFaults \in Nat /\ MaxCrashes \in Nat

VARIABLES
    env,       \* the settings of this deployment
    webhook,   \* whether Telegram has a webhook registered for the token
    pc,        \* where each process is in main()
    token,     \* the guard's owner_id: mask_instance_id(bot_instance_id())
    lock,      \* the Redis key: [token, left], left = 0 when absent
    holder,    \* the process whose SET created the key (history variable)
    age,       \* ticks since a process acquired or refreshed
    timer,     \* ticks of its present sleep that the refresh task has slept
    recording, \* processes in the heartbeat commit between two sleeps
    late,      \* ticks an awake process has polled without its key (history)
    waited,    \* ticks a process has waited for the lock
    tried,     \* whether a waiting process has tried since the last tick
    frozen,    \* processes whose event loop is frozen
    faults, crashes

vars == <<env, webhook, pc, token, lock, holder, age, timer, recording, late,
          waited, tried, frozen, faults, crashes>>

\* What each process keeps for itself besides its place in main().
sleeps == <<timer, recording, late>>

timers == <<age, timer, recording, late, waited, tried>>

Phases == {"down", "waiting", "owner", "polling", "conflicted", "idle"}

\* The phases in which a process believes it owns the lock.  In "conflicted"
\* it sits in _idle_without_polling inside main()'s try statement: the
\* finally clause has not run and the refresh task is still alive.
Owning == {"owner", "polling", "conflicted"}

Refreshing == {"polling", "conflicted"}

NoLock == [token |-> None, left |-> 0]

LockFree == lock.left = 0

Pollers == {i \in Instances : pc[i] = "polling"}

LivePollers == Pollers \ frozen

\* The key one tick later; a key whose time is up is gone.  The variant
\* counts on below zero.
ElapsedBelowZero(l) == [l EXCEPT !.left = @ - 1]

Elapsed(l) == IF l.left <= 1 THEN NoLock ELSE [l EXCEPT !.left = @ - 1]

AtMostOne(S) == \A i, j \in S : i = j

Min2(a, b) == IF a < b THEN a ELSE b

-----------------------------------------------------------------------------
(* The Redis operations of BotPollingGuard, as they change the key.        *)

SetNx(i) ==
    /\ lock' = [token |-> token[i], left |-> LockTtl]
    /\ holder' = i

ExpireIfOwn(i) ==
    /\ lock' = IF lock.token = token[i] THEN [lock EXCEPT !.left = LockTtl]
                                        ELSE lock
    /\ UNCHANGED holder

\* A variant of DeleteIfOwn: DEL without comparing the owner.
DeleteAny(i) ==
    IF env.redisUrl
    THEN lock' = NoLock /\ holder' = None
    ELSE UNCHANGED <<lock, holder>>

DeleteIfOwn(i) ==
    IF env.redisUrl /\ lock.token = token[i]
    THEN lock' = NoLock /\ holder' = None
    ELSE UNCHANGED <<lock, holder>>

Fault == faults < MaxFaults /\ faults' = faults + 1

NoFault == UNCHANGED faults

Goto(i, phase) == pc' = [pc EXCEPT ![i] = phase]

Awake(i) == i \notin frozen

\* The heartbeat commit is synchronous: nothing else of its process runs.
Free(i) == Awake(i) /\ i \notin recording

\* A process that polls without its key, whoever has it.
Stale(i) == env.redisUrl /\ lock.token # token[i]

-----------------------------------------------------------------------------
Init ==
    /\ env \in Environments
    /\ webhook = FALSE
    /\ pc = [i \in Instances |-> "down"]
    /\ token = [i \in Instances |-> None]
    /\ lock = NoLock
    /\ holder = None
    /\ age = [i \in Instances |-> 0]
    /\ timer = [i \in Instances |-> 0]
    /\ recording = {}
    /\ late = [i \in Instances |-> 0]
    /\ waited = [i \in Instances |-> 0]
    /\ tried = [i \in Instances |-> FALSE]
    /\ frozen = {}
    /\ faults = 0
    /\ crashes = 0

\* A variant of Preflight: production without Redis polls unasked.
PreflightUnasked(i) == i \in env.primary

\* polling_preflight(): the kill switch, then Redis in production.
Preflight(i) ==
    /\ i \in env.primary
    /\ env.production /\ ~env.redisUrl => env.override

\* The platform (re)starts the process; main() runs up to the guard.
Start(i) ==
    /\ pc[i] = "down"
    /\ Goto(i, IF Preflight(i) THEN "waiting" ELSE "idle")
    /\ age' = [age EXCEPT ![i] = 0]
    /\ timer' = [timer EXCEPT ![i] = 0]
    /\ late' = [late EXCEPT ![i] = 0]
    /\ waited' = [waited EXCEPT ![i] = 0]
    /\ tried' = [tried EXCEPT ![i] = FALSE]
    /\ \E t \in TokensOf[i] : token' = [token EXCEPT ![i] = t]
    /\ UNCHANGED <<env, webhook, lock, holder, recording, frozen, faults, crashes>>

\* One attempt of _acquire_polling_guard: SET NX EX in a thread, with a
\* timeout.  Only a reply that arrives tells the process that it owns the key.
AcquireSucceeds(i) ==
    /\ pc[i] = "waiting" /\ Awake(i)
    /\ \/ ~env.redisUrl /\ UNCHANGED <<lock, holder>>
       \/ env.redisUrl /\ LockFree /\ SetNx(i)
    /\ Goto(i, "owner")
    /\ age' = [age EXCEPT ![i] = 0]
    /\ NoFault
    /\ UNCHANGED <<env, webhook, token, sleeps, waited, tried, frozen, crashes>>

\* A variant of AcquireRefused: a failed call counts as an acquisition.
AcquireRefusedAsOwner(i) ==
    /\ pc[i] = "waiting" /\ Awake(i) /\ env.redisUrl
    /\ \/ ~LockFree /\ NoFault /\ UNCHANGED <<pc, lock, holder>>
       \/ Fault /\ Goto(i, "owner") /\ UNCHANGED <<lock, holder>>
    /\ tried' = [tried EXCEPT ![i] = TRUE]
    /\ UNCHANGED <<env, webhook, token, age, sleeps, waited, frozen, crashes>>

AcquireRefused(i) ==
    /\ pc[i] = "waiting" /\ Awake(i) /\ env.redisUrl
    /\ \/ ~LockFree /\ NoFault /\ UNCHANGED <<lock, holder>>
       \/ Fault /\ UNCHANGED <<lock, holder>>         \* Redis unreachable
       \/ Fault /\ LockFree /\ SetNx(i)               \* the reply is lost
    /\ tried' = [tried EXCEPT ![i] = TRUE]
    /\ UNCHANGED <<env, webhook, pc, token, age, sleeps, waited, frozen, crashes>>

\* A variant of GiveUp: the first refusal is final.
GiveUpAtOnce(i) ==
    /\ pc[i] = "waiting" /\ Awake(i) /\ tried[i]
    /\ \/ NoFault /\ Goto(i, "idle")
       \/ Fault /\ Goto(i, "down")
    /\ UNCHANGED <<env, webhook, token, lock, holder, timers, frozen, crashes>>

\* The deadline has passed: current_owner() is read for the conflict record
\* (outside any try, so a failing call ends the process), then the process
\* idles without polling, for good.
GiveUp(i) ==
    /\ pc[i] = "waiting" /\ Awake(i) /\ waited[i] >= MaxWait /\ tried[i]
    /\ \/ NoFault /\ Goto(i, "idle")
       \/ Fault /\ Goto(i, "down")
    /\ UNCHANGED <<env, webhook, token, lock, holder, timers, frozen, crashes>>

\* A webhook delivers the updates: release the guard and idle.  release()
\* is not guarded either.
YieldToWebhook(i) ==
    /\ pc[i] = "owner" /\ Awake(i) /\ webhook
    /\ \/ NoFault /\ DeleteIfOwn(i) /\ Goto(i, "idle")
       \/ env.redisUrl /\ Fault /\ Goto(i, "down") /\ UNCHANGED <<lock, holder>>
    /\ UNCHANGED <<env, webhook, token, timers, frozen, crashes>>

\* No webhook, or get_webhook_info failed (which counts as no webhook): the
\* startup heartbeat is committed, then polling starts with its refresh task,
\* whose first sleep begins here and not when the key was acquired.
StartPolling(i) ==
    /\ pc[i] = "owner" /\ Awake(i)
    /\ Goto(i, "polling")
    /\ timer' = [timer EXCEPT ![i] = 0]
    /\ UNCHANGED <<env, webhook, token, lock, holder, age, recording, late, waited, tried,
                   frozen, faults, crashes>>

SleepIsOver(i) == pc[i] \in Refreshing /\ Free(i) /\ timer[i] >= RefreshEvery

\* refresh_guard: EXPIRE if the key still holds our token; the heartbeat is
\* written next.  Anything but a confirmed refresh ends the process at once,
\* without releasing the key.
RefreshSucceeds(i) ==
    /\ SleepIsOver(i)
    /\ ~Stale(i)
    /\ IF env.redisUrl THEN ExpireIfOwn(i) ELSE UNCHANGED <<lock, holder>>
    /\ age' = [age EXCEPT ![i] = 0]
    /\ recording' = recording \cup {i}
    /\ UNCHANGED <<env, webhook, pc, token, timer, late, waited, tried, frozen, faults, crashes>>

\* A variant of RefreshFails: the failure is logged and polling goes on.
RefreshFailsIgnored(i) ==
    /\ SleepIsOver(i)
    /\ Stale(i)
    /\ recording' = recording \cup {i}
    /\ UNCHANGED <<env, webhook, pc, token, lock, holder, age, timer, late, waited, tried,
                   frozen, faults, crashes>>

RefreshFails(i) ==
    /\ SleepIsOver(i)
    /\ env.redisUrl
    /\ \/ Stale(i) /\ NoFault /\ UNCHANGED <<lock, holder>>
       \/ Fault /\ UNCHANGED <<lock, holder>>
       \/ Fault /\ ExpireIfOwn(i)
    /\ Goto(i, "down")
    /\ UNCHANGED <<env, webhook, token, timers, frozen, crashes>>

\* The heartbeat is committed, or its failure logged, and only now does the
\* next sleep begin.
Recorded(i) ==
    /\ i \in recording /\ Awake(i)
    /\ recording' = recording \ {i}
    /\ timer' = [timer EXCEPT ![i] = 0]
    /\ UNCHANGED <<env, webhook, pc, token, lock, holder, age, late, waited, tried,
                   frozen, faults, crashes>>

\* Telegram refuses getUpdates because of a webhook or a second poller and
\* start_polling raises TelegramConflictError: the handler records it and
\* idles, still inside the try whose finally would cancel the refresh task.
Conflict(i) ==
    /\ pc[i] = "polling" /\ Free(i)
    /\ webhook \/ Pollers # {i}
    /\ Goto(i, "conflicted")
    /\ UNCHANGED <<env, webhook, token, lock, holder, timers, frozen, faults, crashes>>

\* start_polling returns (SIGTERM) or the startup heartbeat fails: the
\* finally clause cancels the tasks and releases the guard.
Shutdown(i) ==
    /\ pc[i] \in {"owner", "polling"} /\ Free(i)
    /\ crashes < MaxCrashes /\ crashes' = crashes + 1
    /\ Goto(i, "down")
    /\ \/ NoFault /\ DeleteIfOwn(i)
       \/ env.redisUrl /\ Fault /\ UNCHANGED <<lock, holder>>
    /\ UNCHANGED <<env, webhook, token, timers, frozen>>

\* The process dies with no cleanup: killed, out of memory, or os._exit(1)
\* of the pending-updates watchdog.
Crash(i) ==
    /\ pc[i] # "down"
    /\ crashes < MaxCrashes /\ crashes' = crashes + 1
    /\ Goto(i, "down")
    /\ frozen' = frozen \ {i}
    /\ recording' = recording \ {i}
    /\ UNCHANGED <<env, webhook, token, lock, holder, age, timer, late, waited, tried, faults>>

Freeze(i) ==
    /\ i \in Stallable /\ pc[i] # "down" /\ Awake(i)
    /\ frozen' = frozen \cup {i}
    /\ UNCHANGED <<env, webhook, pc, token, lock, holder, timers, faults, crashes>>

Thaw(i) ==
    /\ i \in frozen
    /\ frozen' = frozen \ {i}
    /\ UNCHANGED <<env, webhook, pc, token, lock, holder, timers, faults, crashes>>

\* An operator registers or deletes the webhook.
ToggleWebhook ==
    /\ webhook' = ~webhook
    /\ UNCHANGED <<env, pc, token, lock, holder, timers, frozen, faults, crashes>>

\* What an awake process does before a tick ends: a waiting one tries, an
\* owner finishes its short startup, a refresh that is due is carried out and
\* its heartbeat written.
Prompt(i) ==
    /\ pc[i] = "waiting" => tried[i] /\ waited[i] < MaxWait
    /\ pc[i] # "owner"
    /\ pc[i] \in Refreshing => timer[i] < RefreshEvery /\ i \notin recording

Tick ==
    /\ \A i \in Instances : Awake(i) => Prompt(i)
    /\ lock' = Elapsed(lock)
    /\ holder' = IF lock.left <= 1 THEN None ELSE holder
    /\ age' = [i \in Instances |->
                 IF pc[i] \in Owning THEN Min2(age[i] + 1, LockTtl) ELSE age[i]]
    /\ timer' = [i \in Instances |->
                 IF pc[i] \in Refreshing /\ i \notin recording
                 THEN Min2(timer[i] + 1, RefreshEvery) ELSE timer[i]]
    /\ late' = [i \in Instances |->
                 IF i \in LivePollers /\ Stale(i)
                 THEN Min2(late[i] + 1, LockTtl) ELSE late[i]]
    /\ waited' = [i \in Instances |->
                 IF pc[i] = "waiting" THEN Min2(waited[i] + 1, MaxWait) ELSE waited[i]]
    /\ tried' = [i \in Instances |-> FALSE]
    /\ UNCHANGED <<env, webhook, pc, token, recording, frozen, faults, crashes>>

Step(i) ==
    \/ Start(i) \/ AcquireSucceeds(i) \/ AcquireRefused(i) \/ GiveUp(i)
    \/ YieldToWebhook(i) \/ StartPolling(i)
    \/ RefreshSucceeds(i) \/ RefreshFails(i) \/ Recorded(i) \/ Conflict(i)

Next ==
    \/ \E i \in Instances :
         Step(i) \/ Shutdown(i) \/ Crash(i) \/ Freeze(i) \/ Thaw(i)
    \/ ToggleWebhook
    \/ Tick

Spec == Init /\ [][Next]_vars

\* The platform restarts a dead process, a process runs its own code, time
\* passes.  Nothing forces a crash, a fault, a freeze or an operator.
FairSpec ==
    /\ Spec
    /\ WF_vars(Tick)
    /\ \A i \in Instances :
         /\ WF_vars(Start(i)) /\ SF_vars(AcquireSucceeds(i))
         /\ WF_vars(AcquireRefused(i)) /\ WF_vars(GiveUp(i))
         /\ WF_vars(YieldToWebhook(i)) /\ WF_vars(StartPolling(i))
         /\ WF_vars(RefreshSucceeds(i)) /\ WF_vars(RefreshFails(i))
         /\ WF_vars(Recorded(i))
-----------------------------------------------------------------------------
(* Properties.                                                             *)

\* Every variable keeps its type, and a key has an owner as long as it lives.
TypeOK ==
    /\ env \in Environments
    /\ webhook \in BOOLEAN
    /\ pc \in [Instances -> Phases]
    /\ token \in [Instances -> Tokens \cup {None}]
    /\ lock \in [token: Tokens \cup {None}, left: 0 .. LockTtl]
    /\ holder \in Instances \cup {None}
    /\ age \in [Instances -> 0 .. LockTtl]
    /\ timer \in [Instances -> 0 .. RefreshEvery]
    /\ recording \subseteq Instances
    /\ late \in [Instances -> 0 .. LockTtl]
    /\ waited \in [Instances -> 0 .. MaxWait]
    /\ tried \in [Instances -> BOOLEAN]
    /\ frozen \subseteq Instances
    /\ faults \in 0 .. MaxFaults
    /\ crashes \in 0 .. MaxCrashes
    /\ lock.left > 0 => lock.token # None /\ holder # None

Owners == {i \in Instances : pc[i] \in Owning}

\* While no event loop freezes, two processes believe they own polling only
\* without Redis, and in production only after the emergency override was
\* set: refreshes, crashes, lost replies and the deadline of a waiting
\* process never put a second owner beside the first.
DuplicateOnlyByOverride ==
    \/ AtMostOne(Owners)
    \/ ~env.redisUrl /\ (env.production => env.override)

\* A process whose event loop froze past its lease, between the acquisition
\* and its first sleep or in the heartbeat commit between two sleeps, thaws
\* into a whole further sleep and polls beside its successor.  It does so for
\* one refresh period at most, counting the time it is awake, however often
\* it freezes: the refresh after that sleep ends it.
LatePollerStops ==
    \A i \in Instances : late[i] <= RefreshEvery

\* The key leaves its holder only by running out or by a step of the holder
\* itself: neither a stale owner's release nor a late refresh takes it away.
LeaseNotStolen ==
    [][holder # None /\ holder' # holder =>
         /\ holder' = None
         /\ lock.left = 1 \/ pc'[holder] # pc[holder]]_vars

\* The processes that poll, as the abstract specification sees them: it is
\* about deployments that have the lock.
GuardedPollers == IF env.redisUrl THEN Pollers ELSE {}

PO == INSTANCE SinglePoller WITH pollers <- GuardedPollers

\* With Redis and no freeze, polling is handed over through nobody polling.
SinglePollerSpec == PO!Spec

\* With Redis reachable, no webhook and no freeze, somebody polls again and
\* again: the wait of a restarted process outlives the key its predecessor
\* left behind.
PollingResumes ==
    [](~webhook /\ frozen = {}) => []<>(Pollers # {})
=============================================================================
