----------------------------- MODULE Supervisor -----------------------------
(***************************************************************************)
(* app/runtime/railway_start.py: the parent process of the API and of the  *)
(* bot.  It starts those that its environment asks for, looks at them in   *)
(* turn, and ends the other when one has ended or when it is told to stop. *)
(* The signal handler runs between any two steps of the loop, also while   *)
(* the loop waits for a child to end.                                      *)
(***************************************************************************)
EXTENDS Naturals

CONSTANTS
    MaxSignals      \* bound on the signals sent to the parent

VARIABLES
    env,            \* the environment, read anew by every question
    at,             \* where the parent is
    child,          \* the processes it started
    signals,        \* how many were handled; handle_signal sets its flag at the first
    closing,        \* the processes that _terminate is waiting for
    code            \* what main returns

parentVars == <<env, at, child, signals, closing, code>>

Names == {"api", "bot"}

Environments ==
    [role : {"unset", "api", "bot", "combined"},    \* FORTUNA_RUNTIME_ROLE and its like
     service : {"unset", "worker", "web"},          \* RAILWAY_SERVICE_NAME and its like
     platform : BOOLEAN,                            \* is_railway_environment
     primary : BOOLEAN,                             \* BOT_PRIMARY_INSTANCE is not false
     with_api : {"unset", "no", "yes"},             \* FORTUNA_START_BOT_WITH_API
     redis : BOOLEAN,                               \* REDIS_URL
     override : BOOLEAN,                            \* ALLOW_POLLING_WITHOUT_REDIS
     token : BOOLEAN]                               \* TELEGRAM_BOT_TOKEN

\* runtime_role
Role(e) ==
    CASE e.role # "unset" -> e.role
      [] e.role = "unset" /\ e.service = "worker" -> "bot"
      [] e.role = "unset" /\ e.service = "web" -> "api"
      [] OTHER -> IF e.platform THEN "api" ELSE "combined"

\* should_start_api
StartsApi(e) == Role(e) \in {"api", "combined"}

\* should_start_bot
StartsBot(e) ==
    /\ e.primary /\ e.with_api # "no" /\ e.token
    /\ e.with_api = "yes" \/ Role(e) # "api"
    /\ e.platform /\ ~e.redis => e.override

ParentInit ==
    /\ env \in Environments
    /\ at = "start_api"
    /\ child = [n \in Names |-> "absent"]
    /\ signals = 0 /\ closing = {} /\ code = "none"

-----------------------------------------------------------------------------
Started == {n \in Names : child[n] # "absent"}

Running == {n \in Names : child[n] = "running"}

StartApi ==
    /\ at = "start_api" /\ at' = "start_bot"
    /\ child' = [child EXCEPT !.api = IF StartsApi(env) THEN "running" ELSE @]
    /\ UNCHANGED <<env, signals, closing, code>>

StartBot ==
    /\ at = "start_bot" /\ at' = "started"
    /\ child' = [child EXCEPT !.bot = IF StartsBot(env) THEN "running" ELSE @]
    /\ UNCHANGED <<env, signals, closing, code>>

\* The handlers are installed last, when there is anything to watch.
Install ==
    /\ at = "started"
    /\ IF Started = {} THEN at' = "exited" /\ code' = "failure"
                       ELSE at' = "watching" /\ UNCHANGED code
    /\ UNCHANGED <<env, child, signals, closing>>

\* A variant of Watched: the API is not looked at.
WatchedBot == {n \in Started : n = "bot"}

Watched == Started

\* The loop comes upon a process that has ended, also when it was the
\* handler that ended it: main is going to return a failure.
Notice ==
    /\ at = "watching"
    /\ \E n \in Watched :
         /\ child[n] = "ended"
         /\ closing' = Started \ {n}
    /\ at' = "closing" /\ code' = "failure"
    /\ UNCHANGED <<env, child, signals>>

\* The loop finds the flag, after its sleep.
Leave ==
    /\ at = "watching" /\ signals > 0
    /\ at' = "exited" /\ code' = "stopped"
    /\ UNCHANGED <<env, child, signals, closing>>

\* A variant of Killed: whoever does not end in time is left.
KilledNone == {}

\* Whoever did not end within 15 seconds of its SIGTERM.
Killed == closing \cap Running

\* _terminate returns, to the loop or from main.
Closed ==
    /\ at = "closing"
    /\ child' = [n \in Names |-> IF n \in Killed THEN "ended" ELSE child[n]]
    /\ closing' = {}
    /\ at' = IF code = "failure" THEN "exited" ELSE "watching"
    /\ UNCHANGED <<env, signals, code>>

\* SIGTERM or SIGINT; before the handlers are there it ends the parent alone.
Signal ==
    \/ /\ at \in {"start_api", "start_bot", "started"}
       /\ at' = "killed"
       /\ UNCHANGED <<env, child, signals, closing, code>>
    \/ /\ at \in {"watching", "closing"}
       /\ signals < MaxSignals /\ signals' = signals + 1
       /\ closing' = Started /\ at' = "closing"
       /\ UNCHANGED <<env, child, code>>

\* A child ends: on its SIGTERM, or the bot by its watchdog or after a
\* failure, or the API.
End(n) ==
    /\ child[n] = "running"
    /\ child' = [child EXCEPT ![n] = "ended"]
    /\ UNCHANGED <<env, at, signals, closing, code>>

Steps == StartApi \/ StartBot \/ Install \/ Notice \/ Leave \/ Closed

ParentNext == Steps \/ Signal \/ \E n \in Names : End(n)

\* The parent is scheduled; children and signals are free to do nothing.
ParentFairness == WF_parentVars(Steps)

ParentSpec == ParentInit /\ [][ParentNext]_parentVars /\ ParentFairness

-----------------------------------------------------------------------------
(* Properties.                                                             *)

\* Type correctness of the parent and its children.
ParentTypeOK ==
    /\ env \in Environments
    /\ at \in {"start_api", "start_bot", "started", "watching", "closing", "exited", "killed"}
    /\ child \in [Names -> {"absent", "running", "ended"}]
    /\ signals \in 0 .. MaxSignals /\ closing \subseteq Names
    /\ code \in {"none", "failure", "stopped"}

\* A parent that returns leaves nobody behind, even when it is told to stop
\* while it is ending a child, or one that ignores SIGTERM.
NobodyLeftBehind == at = "exited" => Running = {}

\* On the platform a bot that is started can hold the Redis lock, unless
\* polling without it was explicitly allowed.
LockOrOverride ==
    child.bot # "absent" /\ env.platform => env.redis \/ env.override

\* Once a child has ended, or the parent was told to stop, the parent returns
\* and the platform starts everything anew.
EndsTogether ==
    (signals > 0 \/ \E n \in Names : child[n] = "ended") ~> at \in {"exited", "killed"}
=============================================================================
