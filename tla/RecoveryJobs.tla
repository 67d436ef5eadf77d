---------------------------- MODULE RecoveryJobs ----------------------------
(***************************************************************************)
(* Backup and restore jobs: app/services/recovery.py, the job record of    *)
(* app/services/reliability.py and the background tasks of                 *)
(* app/bot/runner.py.                                                      *)
(*                                                                         *)
(* A press starts or reuses a run, commits and spawns a thread for a run   *)
(* it started.  The thread reads the run, talks to the storage for         *)
(* minutes, and writes the outcome.  asyncio.wait_for gives up on the      *)
(* thread after 15 minutes and closes the run, but cannot stop it.  A run  *)
(* older than 15 minutes is closed by the next press.                      *)
(*                                                                         *)
(* The transactions of handlers exclude each other (the heartbeat row of   *)
(* WorkerLoop), so one that does not await is one action; those of the     *)
(* threads interleave with them.  Age is counted in ticks.                 *)
(***************************************************************************)
EXTENDS Integers

CONSTANTS
    None,           \* no source, no open transaction
    Timeout,        \* RECOVERY_JOB_TIMEOUT_MINUTES, in ticks
    MaxRuns,        \* bound: runs recorded
    MaxFaults,      \* bound: threads that raise
    MaxCrashes      \* bound: restarts of the bot worker

ASSUME JobAssumption ==
    /\ Timeout \in Nat \ {0} /\ MaxRuns \in Nat \ {0}
    /\ MaxFaults \in Nat /\ MaxCrashes \in Nat
    /\ None \notin Nat

Runs == 1 .. MaxRuns

Kinds == {"backup", "restore"}

VARIABLES
    run,        \* BackupRun or RestoreTestRun: [kind, status, verified, source]
    age,        \* ticks since a run started
    job,        \* status of the ReliabilityJob of a run
    created,    \* runs created so far
    open,       \* what the command handler that awaits Telegram has not
                \* committed yet: [run, new, stale], or None
    thread,     \* where the thread of each run is
    basis,      \* the backup the thread of a restore verifies
    spawned,    \* threads spawned for each run (history variable)
    awaited,    \* runs whose thread wait_for still waits for
    closing,    \* runs that _mark_*_job_failed has read and not yet written
    faults, crashes

rows == <<run, age, job, created>>
tasks == <<thread, basis, spawned, awaited>>
vars == <<rows, open, tasks, closing, faults, crashes>>

\* "failed" stands for not_configured and, of a restore, not_available too,
\* "succeeded" for verified_only of a restore.
Statuses == {"absent", "running", "succeeded", "failed", "timed_out"}

JobStatuses == {"absent", "running", "working", "completed", "failed", "timed_out"}

Terminal == {"succeeded", "failed", "timed_out"}

NoRun == [kind |-> "none", status |-> "absent", verified |-> FALSE, source |-> None]

\* A variant of NewRun: the first status of a job, which no query knows.
NewRunQueued(kind) == [kind |-> kind, status |-> "queued", verified |-> FALSE, source |-> None]

NewRun(kind) == [kind |-> kind, status |-> "running", verified |-> FALSE, source |-> None]

-----------------------------------------------------------------------------
Init ==
    /\ run = [r \in Runs |-> NoRun]
    /\ age = [r \in Runs |-> 0]
    /\ job = [r \in Runs |-> "absent"]
    /\ created = 0
    /\ open = None
    /\ thread = [r \in Runs |-> "none"]
    /\ basis = [r \in Runs |-> None]
    /\ spawned = [r \in Runs |-> 0]
    /\ awaited = {}
    /\ closing = {}
    /\ faults = 0 /\ crashes = 0

\* A variant of Stale: no run counts as overdue.
StaleNone == {}

\* The runs mark_stale_recovery_jobs closes: both kinds, whoever asks.
Stale == {r \in Runs : run[r].status = "running" /\ age[r] > Timeout}

\* A variant of Active: a run somebody started before is not looked for.
ActiveNone(kind) == {}

\* active_backup_job and active_restore_job, after the stale ones are closed.
Active(kind) ==
    {r \in Runs : run[r].kind = kind /\ run[r].status = "running" /\ age[r] <= Timeout}

Newest(S) == CHOOSE r \in S : \A s \in S : s <= r

\* Rows the open command has written: their other writers wait.
Locked == IF open = None THEN {} ELSE open.stale \cup {open.run}

CloseStale(S) ==
    [r \in Runs |-> IF r \in S THEN [run[r] EXCEPT !.status = "timed_out"] ELSE run[r]]

\* The runs a thread is spawned for once the transaction is committed.
Spawned(r, new) == IF new THEN {r} ELSE {}

Spawn(S) ==
    /\ thread' = [r \in Runs |-> IF r \in S THEN "spawned" ELSE thread[r]]
    /\ spawned' = [r \in Runs |-> IF r \in S THEN spawned[r] + 1 ELSE spawned[r]]
    /\ awaited' = awaited \cup S
    /\ UNCHANGED basis

\* What a committed start leaves behind: the stale runs closed, the run of
\* that kind, new or reused, and its job set to running either way.
Started(kind, r, new, stale) ==
    /\ run' = IF new THEN [CloseStale(stale) EXCEPT ![r] = NewRun(kind)] ELSE CloseStale(stale)
    /\ age' = IF new THEN [age EXCEPT ![r] = 0] ELSE age
    /\ job' = [job EXCEPT ![r] = "running"]
    /\ Spawn(Spawned(r, new))

\* The run a start is about.  A start that would create a run beyond MaxRuns
\* is left out of the model but for its closing of stale runs.
Target(kind) == IF Active(kind) # {} THEN Newest(Active(kind)) ELSE created + 1

\* The buttons recovery:backup:run and recovery:restore:test: start or
\* reuse, commit, spawn.
Press(kind) ==
    /\ open = None
    /\ LET r == Target(kind)
           new == Active(kind) = {}
       IN IF r \in Runs
          THEN /\ Started(kind, r, new, Stale)
               /\ created' = IF new THEN r ELSE created
          ELSE /\ run' = CloseStale(Stale)
               /\ UNCHANGED <<age, job, created, tasks>>
    /\ UNCHANGED <<open, closing, faults, crashes>>

\* /run_backup and /restore_test: the same start, but the screen is sent
\* before the commit.
CommandStarts(kind) ==
    /\ open = None
    /\ Target(kind) \in Runs
    /\ open' = [kind |-> kind, run |-> Target(kind), new |-> Active(kind) = {},
                stale |-> Stale]
    /\ created' = IF Active(kind) = {} THEN created + 1 ELSE created
    /\ age' = IF Active(kind) = {} THEN [age EXCEPT ![created + 1] = 0] ELSE age
    /\ UNCHANGED <<run, job, tasks, closing, faults, crashes>>

\* The screen was sent: the transaction commits and the thread is spawned.
CommandCommits ==
    /\ open # None
    /\ run' = IF open.new THEN [CloseStale(open.stale) EXCEPT ![open.run] = NewRun(open.kind)]
                          ELSE CloseStale(open.stale)
    /\ job' = [job EXCEPT ![open.run] = "running"]
    /\ Spawn(Spawned(open.run, open.new))
    /\ open' = None
    /\ UNCHANGED <<age, created, closing, faults, crashes>>

\* The send failed: nothing the command wrote remains.
CommandRollsBack ==
    /\ open # None
    /\ open' = None
    /\ UNCHANGED <<rows, tasks, closing, faults, crashes>>

-----------------------------------------------------------------------------
(* The thread: _execute_backup_job_sync and _execute_restore_job_sync.     *)

ThreadBegins(r) ==
    /\ thread[r] = "spawned" /\ r \notin Locked
    /\ thread' = [thread EXCEPT ![r] = "begun"]
    /\ job' = [job EXCEPT ![r] = "working"]
    /\ UNCHANGED <<run, age, created, open, basis, spawned, awaited, closing, faults, crashes>>

\* The backups _latest_backup(succeeded_only=True) takes the newest of.
Sources == {b \in Runs : run[b].kind = "backup" /\ run[b].status = "succeeded" /\ run[b].verified}

\* run_backup and run_restore_test read the run.
ThreadReads(r) ==
    /\ thread[r] = "begun" /\ run[r].status = "running"
    /\ thread' = [thread EXCEPT ![r] = "transferring"]
    /\ basis' = [basis EXCEPT ![r] =
                    IF run[r].kind = "restore" /\ Sources # {} THEN Newest(Sources) ELSE None]
    /\ UNCHANGED <<rows, open, spawned, awaited, closing, faults, crashes>>

\* One that is already terminal is returned as it is; the job follows it.
ThreadReturns(r) ==
    /\ thread[r] = "begun" /\ run[r].status \in Terminal /\ r \notin Locked
    /\ thread' = [thread EXCEPT ![r] = "none"]
    /\ job' = [job EXCEPT ![r] = IF run[r].status = "succeeded" THEN "completed" ELSE "failed"]
    /\ awaited' = awaited \ {r}
    /\ UNCHANGED <<run, age, created, open, basis, spawned, closing, faults, crashes>>

Outcome(r, status) ==
    [run[r] EXCEPT !.status = status, !.verified = (status = "succeeded"), !.source = basis[r]]

\* A variant of Outcomes: an upload that was not verified counts.
OutcomesUnverified(r) ==
    {Outcome(r, "failed"), [run[r] EXCEPT !.status = "succeeded"]}

\* A backup succeeds with a verified artifact, a restore when it could verify
\* the backup it had found.
Outcomes(r) ==
    {Outcome(r, "failed")} \cup
    (IF run[r].kind = "backup" \/ basis[r] # None THEN {Outcome(r, "succeeded")} ELSE {})

\* The outcome and the job are written in one commit.  The row the thread
\* has read is still in its session, so record_backup_run takes the run for
\* running whatever happened to it meanwhile; restores do not look again.
ThreadWrites(r) ==
    /\ thread[r] = "transferring" /\ r \notin Locked
    /\ \E outcome \in Outcomes(r) :
         /\ run' = [run EXCEPT ![r] = outcome]
         /\ job' = [job EXCEPT ![r] = IF outcome.status = "succeeded" THEN "completed" ELSE "failed"]
    /\ thread' = [thread EXCEPT ![r] = "none"]
    /\ awaited' = awaited \ {r}
    /\ UNCHANGED <<age, created, open, basis, spawned, closing, faults, crashes>>

Closer(r, status) == [run |-> r, status |-> status]

\* _mark_backup_job_failed and _mark_restore_job_failed read the run; one
\* that is not running is left alone.
Closers(r, status) == IF run[r].status = "running" THEN {Closer(r, status)} ELSE {}

\* The thread raises (the database, a permission): rolled back, and the
\* waiting task, if it still waits, goes to close the run as failed.
ThreadRaises(r) ==
    /\ thread[r] # "none"
    /\ faults < MaxFaults /\ faults' = faults + 1
    /\ thread' = [thread EXCEPT ![r] = "none"]
    /\ closing' = IF r \in awaited THEN closing \cup Closers(r, "failed") ELSE closing
    /\ awaited' = awaited \ {r}
    /\ UNCHANGED <<rows, open, basis, spawned, crashes>>

\* wait_for gives up after its own 15 minutes; the thread goes on.
WaitTimesOut(r) ==
    /\ r \in awaited /\ age[r] >= Timeout
    /\ awaited' = awaited \ {r}
    /\ closing' = closing \cup Closers(r, "timed_out")
    /\ UNCHANGED <<rows, open, thread, basis, spawned, faults, crashes>>

\* The write of _mark_*_job_failed, on what it has read.  The evidence columns
\* it resets were unset when it read the row, so nothing is written to them.
Close(c) ==
    /\ c \in closing /\ c.run \notin Locked
    /\ closing' = closing \ {c}
    /\ run' = [run EXCEPT ![c.run].status = c.status]
    /\ job' = [job EXCEPT ![c.run] = c.status]
    /\ UNCHANGED <<age, created, open, tasks, faults, crashes>>

\* The worker restarts: threads, waiting tasks and open transactions are gone.
Restart ==
    /\ crashes < MaxCrashes /\ crashes' = crashes + 1
    /\ open' = None
    /\ thread' = [r \in Runs |-> "none"]
    /\ awaited' = {}
    /\ closing' = {}
    /\ UNCHANGED <<rows, basis, spawned, faults>>

Tick ==
    /\ age' = [r \in Runs |->
                 IF r <= created /\ age[r] <= Timeout THEN age[r] + 1 ELSE age[r]]
    /\ UNCHANGED <<run, job, created, open, tasks, closing, faults, crashes>>

Next ==
    \/ \E kind \in Kinds : Press(kind) \/ CommandStarts(kind)
    \/ CommandCommits \/ CommandRollsBack
    \/ \E r \in Runs :
         \/ ThreadBegins(r) \/ ThreadReads(r) \/ ThreadReturns(r) \/ ThreadWrites(r)
         \/ ThreadRaises(r) \/ WaitTimesOut(r)
    \/ \E c \in closing : Close(c)
    \/ Restart \/ Tick

Spec == Init /\ [][Next]_vars

\* Time passes, the owner presses the backup button again and again, and a
\* send of the command handler ends within its timeout.  The storage may
\* hang for ever.
FairSpec ==
    /\ Spec
    /\ WF_vars(Tick)
    /\ SF_vars(Press("backup"))
    /\ WF_vars(CommandRollsBack)
    /\ \A r \in Runs : WF_vars(WaitTimesOut(r))

-----------------------------------------------------------------------------
(* Properties.                                                             *)

\* Every variable keeps its type.
TypeOK ==
    /\ run \in [Runs -> [kind: Kinds \cup {"none"}, status: Statuses,
                         verified: BOOLEAN, source: Runs \cup {None}]]
    /\ age \in [Runs -> 0 .. Timeout + 1]
    /\ job \in [Runs -> JobStatuses]
    /\ created \in 0 .. MaxRuns
    /\ open = None \/ open \in [kind: Kinds, run: Runs, new: BOOLEAN, stale: SUBSET Runs]
    /\ thread \in [Runs -> {"none", "spawned", "begun", "transferring"}]
    /\ basis \in [Runs -> Runs \cup {None}]
    /\ spawned \in [Runs -> Nat]
    /\ awaited \subseteq Runs
    /\ closing \subseteq [run: Runs, status: {"failed", "timed_out"}]
    /\ faults \in 0 .. MaxFaults /\ crashes \in 0 .. MaxCrashes

\* A run is executed at most once: repeated presses and commands, reuse of a
\* run whose thread died with its process, and rolled back commands never
\* put a second thread on it.
ExecutedOnce == \A r \in Runs : spawned[r] <= 1

\* The owner never sees two live runs of one kind: while a started run is
\* younger than the timeout every further start is about that run.
OneLiveRun ==
    \A r, s \in Runs :
        /\ run[r].kind = run[s].kind
        /\ run[r].status = "running" /\ run[s].status = "running"
        /\ age[r] <= Timeout /\ age[s] <= Timeout
        => r = s

\* Whatever is overwritten by late threads and late timeouts, a run that
\* counts as succeeded or a job shown as completed has evidence behind it: a
\* verified artifact, and for a restore the backup that was verified.
EvidenceBehindStatus ==
    \A r \in Runs :
        run[r].status = "succeeded" \/ job[r] = "completed" =>
            /\ run[r].verified
            /\ run[r].kind = "restore" => run[r].source # None /\ run[run[r].source].verified

\* No run is shown as running for ever, whether its thread hangs in the
\* storage call or died between the commit and its first step.
EveryRunCloses ==
    \A r \in Runs : run[r].status = "running" ~> run[r].status \in Terminal

\* "test_backup_run_identifier_is_idempotent_and_terminal_state_is_not_overwritten":
\* the thread that records a run leaves one that is terminal as it is.
TerminalNotOverwritten ==
    [][\A r \in Runs : ThreadWrites(r) /\ run[r].status \in Terminal
                       => run'[r].status = run[r].status]_vars

\* Runs are single: no run is executed twice, and no kind has two live runs.
RunsAreSingle == ExecutedOnce /\ OneLiveRun
=============================================================================
