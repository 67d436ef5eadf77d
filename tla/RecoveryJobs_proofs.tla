------------------------- MODULE RecoveryJobs_proofs -------------------------
(***************************************************************************)
(* Proofs about RecoveryJobs: no run is executed twice, no kind has two    *)
(* live runs, and what counts as succeeded has its evidence, for every     *)
(* timeout and every number of runs, faults and restarts.                  *)
(***************************************************************************)
EXTENDS RecoveryJobs, Extrema, TLAPS

\* The newest of some runs is one of them.
LEMMA NewestIsThere ==
    ASSUME NEW S, S \subseteq Runs, S # {}
    PROVE  Newest(S) \in S
<1>1. \E r \in S : \A s \in S : s <= r
  <2>1. PICK n \in Nat : Runs = 1 .. n
    BY JobAssumption DEF Runs
  <2>2. S \subseteq 0 .. n
    BY <2>1
  <2> QED
    BY <2>1, <2>2, HasGreatest
<1> QED
  BY <1>1 DEF Newest

-----------------------------------------------------------------------------
(* The inductive invariant.                                                *)

\* Threads are spawned for runs that were created, once, and only for those
\* is there anything to read, to run or to close.
SpawnedOnce ==
    /\ \A r \in Runs :
         /\ spawned[r] <= 1
         /\ spawned[r] = 0 => run[r] = NoRun /\ thread[r] = "none"
         /\ r > created => spawned[r] = 0
    /\ \A c \in closing : spawned[c.run] # 0

\* What an open command has read is still so: nobody starts a run of that
\* kind, or the run it is about to start, before it has committed.
OpenIsFresh ==
    open # None =>
        /\ \A r \in open.stale : spawned[r] # 0
        /\ open.new => /\ open.run <= created /\ spawned[open.run] = 0
                       /\ Active(open.kind) = {}

\* Only the last step of a thread verifies a run, so a verified run stays
\* verified, and a restore relies on a verified backup.
VerifiedStays ==
    \A r \in Runs :
        /\ run[r].verified => thread[r] = "none"
        /\ basis[r] # None => run[basis[r]].verified

IInv ==
    /\ TypeOK
    /\ SpawnedOnce
    /\ OpenIsFresh
    /\ VerifiedStays
    /\ OneLiveRun
    /\ EvidenceBehindStatus

LEMMA InitIInv ==
    ASSUME Init
    PROVE  IInv
<1> USE DEF Init, NoRun
<1>1. TypeOK
  BY JobAssumption DEF TypeOK, Kinds, Statuses, JobStatuses
<1>2. SpawnedOnce /\ OpenIsFresh
  BY DEF SpawnedOnce, OpenIsFresh
<1>3. VerifiedStays /\ OneLiveRun /\ EvidenceBehindStatus
  BY DEF VerifiedStays, OneLiveRun, EvidenceBehindStatus
<1> QED
  BY <1>1, <1>2, <1>3 DEF IInv

-----------------------------------------------------------------------------
(* Starting a run.                                                         *)

LEMMA RowsOfStart ==
    ASSUME IInv, NEW kind \in Kinds, NEW r \in Runs, NEW new \in BOOLEAN,
           NEW stale \in SUBSET Runs, \A s \in stale : spawned[s] # 0,
           new => spawned[r] = 0,
           run' = IF new THEN [CloseStale(stale) EXCEPT ![r] = NewRun(kind)]
                         ELSE CloseStale(stale)
    PROVE  /\ run' \in [Runs -> [kind: Kinds \cup {"none"}, status: Statuses,
                                 verified: BOOLEAN, source: Runs \cup {None}]]
           /\ new => run'[r] = NewRun(kind) /\ ~run[r].verified
           /\ \A s \in Runs : ~(new /\ s = r) =>
                 /\ run'[s].kind = run[s].kind /\ run'[s].source = run[s].source
                 /\ run'[s].verified = run[s].verified
                 /\ run'[s].status \in {run[s].status, "timed_out"}
                 /\ spawned[s] = 0 => run'[s] = run[s]
<1> DEFINE Rows == [kind: Kinds \cup {"none"}, status: Statuses,
                    verified: BOOLEAN, source: Runs \cup {None}]
<1>1. run \in [Runs -> Rows]
  BY DEF IInv, TypeOK
<1>2. /\ CloseStale(stale) \in [Runs -> Rows]
      /\ \A s \in Runs :
           /\ CloseStale(stale)[s].kind = run[s].kind
           /\ CloseStale(stale)[s].source = run[s].source
           /\ CloseStale(stale)[s].verified = run[s].verified
           /\ CloseStale(stale)[s].status \in {run[s].status, "timed_out"}
           /\ s \notin stale => CloseStale(stale)[s] = run[s]
  BY <1>1 DEF CloseStale, Statuses
<1>3. NewRun(kind) \in Rows
  BY DEF NewRun, Statuses
<1>4. new => ~run[r].verified
  BY DEF IInv, SpawnedOnce, NoRun
<1> QED
  BY <1>2, <1>3, <1>4

\* A start keeps the invariant, whether it is about a new run or one reused.
LEMMA StartKeeps ==
    ASSUME IInv, NEW kind \in Kinds, NEW r \in Runs, NEW new \in BOOLEAN,
           NEW stale \in SUBSET Runs, \A s \in stale : spawned[s] # 0,
           new => spawned[r] = 0 /\ Active(kind) = {},
           run' = IF new THEN [CloseStale(stale) EXCEPT ![r] = NewRun(kind)]
                         ELSE CloseStale(stale),
           age' \in [Runs -> 0 .. Timeout + 1],
           \A s \in Runs : ~(new /\ s = r) => age'[s] = age[s],
           job' = [job EXCEPT ![r] = "running"],
           Spawn(Spawned(r, new)),
           created' \in created .. MaxRuns, new => r <= created',
           open' = None, UNCHANGED <<closing, faults, crashes>>
    PROVE  IInv'
<1>1. /\ \A s \in Runs : ~(new /\ s = r) =>
           /\ run'[s].kind = run[s].kind /\ run'[s].source = run[s].source
           /\ run'[s].verified = run[s].verified
           /\ run'[s].status \in {run[s].status, "timed_out"}
           /\ spawned[s] = 0 => run'[s] = run[s]
      /\ new => run'[r] = NewRun(kind) /\ ~run[r].verified
  BY RowsOfStart
<1>2. \A s \in Runs :
        /\ new /\ s = r => spawned'[s] = spawned[s] + 1
        /\ ~(new /\ s = r) => thread'[s] = thread[s] /\ spawned'[s] = spawned[s]
  BY DEF Spawn, Spawned
<1>3. TypeOK'
  <2>1. run' \in [Runs -> [kind: Kinds \cup {"none"}, status: Statuses,
                          verified: BOOLEAN, source: Runs \cup {None}]]
    BY RowsOfStart
  <2>2. job' \in [Runs -> JobStatuses]
    BY DEF IInv, TypeOK, JobStatuses
  <2>3. created' \in 0 .. MaxRuns
    BY JobAssumption DEF IInv, TypeOK
  <2>4. /\ thread' \in [Runs -> {"none", "spawned", "begun", "transferring"}]
        /\ spawned' \in [Runs -> Nat]
        /\ awaited' \subseteq Runs
        /\ basis' = basis
    BY DEF IInv, TypeOK, Spawn, Spawned
  <2> QED
    BY <2>1, <2>2, <2>3, <2>4 DEF IInv, TypeOK
<1>4. SpawnedOnce'
  <2>4. \A c \in closing : c.run \in Runs /\ spawned[c.run] \in Nat
                          /\ spawned[c.run] # 0
    BY DEF IInv, TypeOK, SpawnedOnce
  <2>5. \A c \in closing : spawned'[c.run] # 0
    BY <1>2, <2>4
  <2> SUFFICES ASSUME NEW s \in Runs
               PROVE  /\ spawned'[s] <= 1
                      /\ spawned'[s] = 0 => run'[s] = NoRun /\ thread'[s] = "none"
                      /\ s > created' => spawned'[s] = 0
    BY <2>5 DEF SpawnedOnce
  <2>1. created \in Nat /\ created' \in Nat /\ created <= created' /\ s \in Nat
    BY JobAssumption DEF IInv, TypeOK, Runs
  <2>2. CASE new /\ s = r
    BY <1>2, <2>1, <2>2 DEF Runs
  <2>3. CASE ~(new /\ s = r)
    BY <1>1, <1>2, <2>1, <2>3 DEF IInv, SpawnedOnce
  <2> QED
    BY <2>2, <2>3
<1>5. OpenIsFresh'
  BY DEF OpenIsFresh
<1>6. VerifiedStays'
  <2>1. basis' = basis /\ \A s \in Runs : basis[s] \in Runs \cup {None}
    BY DEF IInv, TypeOK, Spawn
  <2>2. \A s \in Runs : run'[s].verified => run[s].verified /\ ~(new /\ s = r)
    <3>1. new => ~run'[r].verified
      BY <1>1 DEF NewRun
    <3> QED
      BY <1>1, <3>1
  <2>3. \A s \in Runs : run[s].verified => run'[s].verified
    BY <1>1
  <2>4. \A s \in Runs : /\ run[s].verified => thread[s] = "none"
                        /\ basis[s] # None => run[basis[s]].verified
    BY DEF IInv, VerifiedStays
  <2> QED
    BY <1>2, <2>1, <2>2, <2>3, <2>4 DEF VerifiedStays
<1>7. OneLiveRun'
  <2> SUFFICES ASSUME NEW p \in Runs, NEW q \in Runs, run'[p].kind = run'[q].kind,
                      run'[p].status = "running", run'[q].status = "running",
                      age'[p] <= Timeout, age'[q] <= Timeout
               PROVE  p = q
    BY DEF OneLiveRun
  <2>1. \A s \in Runs : run'[s].status = "running" /\ ~(new /\ s = r)
          => run[s].status = "running" /\ age'[s] = age[s] /\ run'[s].kind = run[s].kind
    BY <1>1
  <2>2. CASE ~(new /\ (p = r \/ q = r))
    BY <2>1, <2>2 DEF IInv, OneLiveRun
  <2>3. CASE new /\ (p = r \/ q = r)
    <3>1. run'[p].kind = kind /\ run'[q].kind = kind
      BY <1>1, <2>3 DEF NewRun
    <3>2. \A s \in {p, q} : s # r => s \in Active(kind)
      BY <2>1, <3>1 DEF Active
    <3> QED
      BY <2>3, <3>2
  <2> QED
    BY <2>2, <2>3
<1>8. EvidenceBehindStatus'
  <2> SUFFICES ASSUME NEW s \in Runs, run'[s].status = "succeeded" \/ job'[s] = "completed"
               PROVE  /\ run'[s].verified
                      /\ run'[s].kind = "restore" =>
                           run'[s].source # None /\ run'[run'[s].source].verified
    BY DEF EvidenceBehindStatus
  <2>1. ~(new /\ s = r) /\ (run[s].status = "succeeded" \/ job[s] = "completed")
    <3>1. job' \in [Runs -> JobStatuses] /\ job'[r] = "running"
          /\ \A q \in Runs : q # r => job'[q] = job[q]
      BY DEF IInv, TypeOK, JobStatuses
    <3>2. new => run'[r].status = "running"
      BY <1>1 DEF NewRun
    <3>3. ~(new /\ s = r) => run'[s].status \in {run[s].status, "timed_out"}
      BY <1>1
    <3> QED
      BY <3>1, <3>2, <3>3
  <2>2. run[s].verified /\ (run[s].kind = "restore" =>
                              run[s].source # None /\ run[run[s].source].verified)
    BY <2>1 DEF IInv, EvidenceBehindStatus
  <2>3. run[s].source \in Runs \cup {None}
    BY DEF IInv, TypeOK
  <2> QED
    BY <1>1, <2>1, <2>2, <2>3
<1> QED
  BY <1>3, <1>4, <1>5, <1>6, <1>7, <1>8 DEF IInv

-----------------------------------------------------------------------------
(* Steps that verify nothing and start nothing.                            *)

\* Most steps only end things: runs are closed, threads stop or go on, jobs
\* follow their runs, a command is given up, time passes.
LEMMA QuietStepKeeps ==
    ASSUME IInv, TypeOK',
           \A s \in Runs :
             /\ run'[s].kind = run[s].kind /\ run'[s].source = run[s].source
             /\ run'[s].verified = run[s].verified
             /\ run'[s].status \in {run[s].status, "failed", "timed_out"}
             /\ spawned[s] = 0 => run'[s] = run[s]
             /\ job'[s] = "completed" => job[s] = "completed" \/ run[s].status = "succeeded"
             /\ thread[s] = "none" => thread'[s] = "none"
             /\ age[s] <= age'[s],
           open' \in {open, None},
           \A c \in closing' : spawned[c.run] # 0,
           UNCHANGED <<created, basis, spawned>>
    PROVE  IInv'
<1> USE DEF IInv
<1>1. SpawnedOnce'
  BY DEF SpawnedOnce
<1>2. \A s \in Runs : age[s] \in Int /\ age'[s] \in Int
  BY JobAssumption DEF TypeOK
<1>3. \A s \in Runs : run'[s].status = "running" /\ age'[s] <= Timeout
          => run[s].status = "running" /\ age[s] <= Timeout
  BY <1>2, JobAssumption
<1>4. \A kind : Active(kind)' \subseteq Active(kind)
  BY <1>3 DEF Active
<1>5. OpenIsFresh'
  BY <1>4 DEF OpenIsFresh
<1>6. VerifiedStays'
  <2>1. \A s \in Runs : basis[s] \in Runs \cup {None}
    BY DEF TypeOK
  <2>2. \A s \in Runs : run'[s].verified <=> run[s].verified
    OBVIOUS
  <2> QED
    BY <2>1, <2>2 DEF VerifiedStays
<1>7. OneLiveRun'
  <2> SUFFICES ASSUME NEW p \in Runs, NEW q \in Runs, run'[p].kind = run'[q].kind,
                      run'[p].status = "running", run'[q].status = "running",
                      age'[p] <= Timeout, age'[q] <= Timeout
               PROVE  p = q
    BY DEF OneLiveRun
  <2> QED
    BY <1>3 DEF OneLiveRun
<1>8. EvidenceBehindStatus'
  <2> SUFFICES ASSUME NEW s \in Runs, run'[s].status = "succeeded" \/ job'[s] = "completed"
               PROVE  /\ run'[s].verified
                      /\ run'[s].kind = "restore" =>
                           run'[s].source # None /\ run'[run'[s].source].verified
    BY DEF EvidenceBehindStatus
  <2>1. run[s].status = "succeeded" \/ job[s] = "completed"
    OBVIOUS
  <2>2. run[s].verified /\ (run[s].kind = "restore" =>
                              run[s].source # None /\ run[run[s].source].verified)
    BY <2>1 DEF EvidenceBehindStatus
  <2>3. run[s].source \in Runs \cup {None}
    BY DEF TypeOK
  <2> QED
    BY <2>2, <2>3
<1> QED
  BY <1>1, <1>5, <1>6, <1>7, <1>8

\* The same, when the runs stay as they are.
LEMMA RunsAsTheyAre ==
    ASSUME IInv, TypeOK', UNCHANGED <<run, age, created, basis, spawned>>,
           \A s \in Runs :
             /\ job'[s] = "completed" => job[s] = "completed" \/ run[s].status = "succeeded"
             /\ thread[s] = "none" => thread'[s] = "none",
           open' \in {open, None},
           \A c \in closing' : spawned[c.run] # 0
    PROVE  IInv'
<1>1. \A s \in Runs : age[s] <= age'[s]
  BY JobAssumption DEF IInv, TypeOK
<1> QED
  BY <1>1, QuietStepKeeps

LEMMA ThreadStepsKeep ==
    ASSUME IInv, NEW r \in Runs,
           ThreadBegins(r) \/ ThreadReturns(r) \/ ThreadRaises(r) \/ WaitTimesOut(r)
    PROVE  IInv'
<1>1. CASE ThreadBegins(r)
  <2>1. TypeOK'
    BY <1>1 DEF ThreadBegins, IInv, TypeOK, JobStatuses
  <2> QED
    BY <1>1, <2>1, RunsAsTheyAre DEF ThreadBegins, IInv, TypeOK, SpawnedOnce
<1>2. CASE ThreadReturns(r)
  <2>1. TypeOK'
    BY <1>2 DEF ThreadReturns, IInv, TypeOK, JobStatuses
  <2> QED
    BY <1>2, <2>1, RunsAsTheyAre DEF ThreadReturns, IInv, TypeOK, SpawnedOnce
<1>3. \A status \in {"failed", "timed_out"} : \A c \in Closers(r, status) :
         c \in [run: Runs, status: {"failed", "timed_out"}] /\ spawned[c.run] # 0
  BY DEF Closers, Closer, IInv, SpawnedOnce, NoRun
<1>4. CASE ThreadRaises(r)
  <2>1. TypeOK'
    BY <1>3, <1>4, JobAssumption DEF ThreadRaises, rows, IInv, TypeOK
  <2> QED
    BY <1>3, <1>4, <2>1, RunsAsTheyAre DEF ThreadRaises, rows, IInv, TypeOK, SpawnedOnce
<1>5. CASE WaitTimesOut(r)
  <2>1. TypeOK'
    BY <1>3, <1>5 DEF WaitTimesOut, rows, IInv, TypeOK
  <2> QED
    BY <1>3, <1>5, <2>1, RunsAsTheyAre DEF WaitTimesOut, rows, IInv, TypeOK, SpawnedOnce
<1> QED
  BY <1>1, <1>2, <1>4, <1>5

\* A run that is closed is one that runs, so it is closed as it is.
LEMMA CloseKeeps ==
    ASSUME IInv, NEW c \in closing, Close(c)
    PROVE  IInv'
<1>1. c.run \in Runs /\ c.status \in {"failed", "timed_out"} /\ spawned[c.run] # 0
  BY DEF IInv, TypeOK, SpawnedOnce
<1>2. TypeOK'
  BY <1>1 DEF Close, tasks, IInv, TypeOK, Statuses, JobStatuses
<1>3. \A s \in Runs :
        /\ run'[s].kind = run[s].kind /\ run'[s].source = run[s].source
        /\ run'[s].verified = run[s].verified
        /\ run'[s].status \in {run[s].status, "failed", "timed_out"}
        /\ spawned[s] = 0 => run'[s] = run[s]
        /\ job'[s] = "completed" => job[s] = "completed"
  BY <1>1 DEF Close, IInv, TypeOK
<1>4. \A s \in Runs : age[s] <= age'[s] /\ (thread[s] = "none" => thread'[s] = "none")
  BY JobAssumption DEF Close, tasks, IInv, TypeOK
<1>5. \A d \in closing' : spawned[d.run] # 0
  BY DEF Close, IInv, SpawnedOnce
<1> QED
  BY <1>2, <1>3, <1>4, <1>5, QuietStepKeeps DEF Close, tasks

LEMMA EndingsKeep ==
    ASSUME IInv, CommandRollsBack \/ Restart \/ Tick
    PROVE  IInv'
<1>1. CASE CommandRollsBack
  <2>1. TypeOK'
    BY <1>1 DEF CommandRollsBack, rows, tasks, IInv, TypeOK
  <2> QED
    BY <1>1, <2>1, RunsAsTheyAre DEF CommandRollsBack, rows, tasks, IInv, SpawnedOnce
<1>2. CASE Restart
  <2>1. TypeOK'
    BY <1>2, JobAssumption DEF Restart, rows, IInv, TypeOK
  <2> QED
    BY <1>2, <2>1, RunsAsTheyAre DEF Restart, rows
<1>3. CASE Tick
  <2>1. \A s \in Runs : age'[s] \in 0 .. Timeout + 1 /\ age[s] <= age'[s]
    BY <1>3, JobAssumption DEF Tick, IInv, TypeOK
  <2>2. TypeOK'
    BY <1>3, <2>1 DEF Tick, tasks, IInv, TypeOK
  <2>3. \A d \in closing' : spawned[d.run] # 0
    BY <1>3 DEF Tick, IInv, SpawnedOnce
  <2> QED
    BY <1>3, <2>1, <2>2, <2>3, QuietStepKeeps DEF Tick, tasks
<1> QED
  BY <1>1, <1>2, <1>3

-----------------------------------------------------------------------------
(* What a thread reads and writes.                                         *)

\* The backup a restore relies on is a verified one.
LEMMA ThreadReadsKeeps ==
    ASSUME IInv, NEW r \in Runs, ThreadReads(r)
    PROVE  IInv'
<1> DEFINE b == IF run[r].kind = "restore" /\ Sources # {} THEN Newest(Sources) ELSE None
<1>1. b # None => b \in Runs /\ run[b].verified
  <2>1. Sources \subseteq Runs /\ \A s \in Sources : run[s].verified
    BY DEF Sources
  <2>2. Sources # {} => Newest(Sources) \in Sources
    BY <2>1, NewestIsThere
  <2> QED
    BY <2>1, <2>2
<1>2. /\ basis' = [basis EXCEPT ![r] = b]
      /\ thread' = [thread EXCEPT ![r] = "transferring"]
      /\ thread[r] # "none"
      /\ UNCHANGED <<run, age, job, created, open, spawned, awaited, closing, faults, crashes>>
  BY DEF ThreadReads, rows
<1> HIDE DEF b
<1>3. TypeOK'
  BY <1>1, <1>2 DEF IInv, TypeOK
<1>4. SpawnedOnce' /\ OpenIsFresh' /\ OneLiveRun' /\ EvidenceBehindStatus'
  BY <1>2 DEF IInv, TypeOK, SpawnedOnce, OpenIsFresh, Active, OneLiveRun,
              EvidenceBehindStatus
<1>5. VerifiedStays'
  BY <1>1, <1>2 DEF IInv, TypeOK, VerifiedStays
<1> QED
  BY <1>3, <1>4, <1>5 DEF IInv

\* The last step of a thread: its run was not verified before, so nothing
\* that relied on a verified run is lost.
LEMMA ThreadWritesKeeps ==
    ASSUME IInv, NEW r \in Runs, ThreadWrites(r)
    PROVE  IInv'
<1>1. /\ ~run[r].verified /\ thread[r] = "transferring" /\ spawned[r] # 0
      /\ basis[r] \in Runs \cup {None}
      /\ basis[r] # None => run[basis[r]].verified
  BY DEF ThreadWrites, IInv, TypeOK, VerifiedStays, SpawnedOnce
<1>2. PICK outcome \in Outcomes(r) :
        /\ run' = [run EXCEPT ![r] = outcome]
        /\ job' = [job EXCEPT ![r] = IF outcome.status = "succeeded" THEN "completed" ELSE "failed"]
  BY DEF ThreadWrites
<1>3. /\ outcome \in [kind: Kinds \cup {"none"}, status: Statuses, verified: BOOLEAN,
                      source: Runs \cup {None}]
      /\ outcome.kind = run[r].kind /\ outcome.source = basis[r]
      /\ \/ outcome.status = "failed" /\ ~outcome.verified
         \/ /\ outcome.status = "succeeded" /\ outcome.verified
            /\ run[r].kind = "backup" \/ basis[r] # None
  <2> DEFINE Rows == [kind: Kinds \cup {"none"}, status: Statuses, verified: BOOLEAN,
                      source: Runs \cup {None}]
  <2>1. run[r] \in Rows
    BY DEF IInv, TypeOK
  <2>2. \A status \in {"failed", "succeeded"} :
           /\ Outcome(r, status) \in Rows
           /\ Outcome(r, status).kind = run[r].kind
           /\ Outcome(r, status).source = basis[r]
           /\ Outcome(r, status).status = status
           /\ Outcome(r, status).verified = (status = "succeeded")
    BY <1>1, <2>1 DEF Outcome, Statuses
  <2>3. CASE outcome = Outcome(r, "failed")
    <3>1. Outcome(r, "failed").verified = FALSE
      BY <2>2
    <3> QED
      BY <2>2, <2>3, <3>1
  <2>4. CASE /\ outcome = Outcome(r, "succeeded")
             /\ run[r].kind = "backup" \/ basis[r] # None
    <3>1. Outcome(r, "succeeded").verified = TRUE
      BY <2>2
    <3> QED
      BY <2>2, <2>4, <3>1
  <2> QED
    BY <2>3, <2>4 DEF Outcomes
<1>4. /\ thread' = [thread EXCEPT ![r] = "none"]
      /\ awaited' \subseteq awaited
      /\ UNCHANGED <<age, created, open, basis, spawned, closing, faults, crashes>>
  BY DEF ThreadWrites
<1>5. /\ run'[r] = outcome
      /\ \A s \in Runs : s # r => run'[s] = run[s] /\ thread'[s] = thread[s] /\ job'[s] = job[s]
      /\ thread'[r] = "none"
      /\ job'[r] = "completed" => outcome.verified
  BY <1>2, <1>3, <1>4 DEF IInv, TypeOK
<1>6. \A s \in Runs : run[s].verified => s # r /\ run'[s].verified
  BY <1>1, <1>5
<1>7. TypeOK'
  BY <1>2, <1>3, <1>4 DEF IInv, TypeOK, JobStatuses
<1>8. SpawnedOnce'
  BY <1>1, <1>4, <1>5 DEF IInv, SpawnedOnce
<1>9. \A s \in Runs : run'[s].status = "running" => s # r
  BY <1>3, <1>5
<1>10. OpenIsFresh'
  <2>1. \A kind : Active(kind)' \subseteq Active(kind)
    BY <1>4, <1>5, <1>9 DEF Active
  <2> QED
    BY <1>4, <2>1 DEF IInv, OpenIsFresh
<1>11. VerifiedStays'
  <2> SUFFICES ASSUME NEW s \in Runs
               PROVE  /\ run'[s].verified => thread'[s] = "none"
                      /\ basis[s] # None => run'[basis[s]].verified
    BY <1>4 DEF VerifiedStays
  <2>1. basis[s] \in Runs \cup {None}
    BY DEF IInv, TypeOK
  <2> QED
    BY <1>5, <1>6, <2>1 DEF IInv, VerifiedStays
<1>12. OneLiveRun'
  BY <1>4, <1>5, <1>9 DEF IInv, OneLiveRun
<1>13. EvidenceBehindStatus'
  <2> SUFFICES ASSUME NEW s \in Runs, run'[s].status = "succeeded" \/ job'[s] = "completed"
               PROVE  /\ run'[s].verified
                      /\ run'[s].kind = "restore" =>
                           run'[s].source # None /\ run'[run'[s].source].verified
    BY DEF EvidenceBehindStatus
  <2>1. CASE s = r
    BY <1>1, <1>3, <1>5, <1>6, <2>1
  <2>2. CASE s # r
    <3>1. run[s].source \in Runs \cup {None}
      BY DEF IInv, TypeOK
    <3> QED
      BY <1>5, <1>6, <2>2, <3>1 DEF IInv, EvidenceBehindStatus
  <2> QED
    BY <2>1, <2>2
<1> QED
  BY <1>7, <1>8, <1>10, <1>11, <1>12, <1>13 DEF IInv

-----------------------------------------------------------------------------
(* Presses and commands.                                                   *)

\* What a start is about: the newest live run of the kind, or the next one.
LEMMA TargetIsFree ==
    ASSUME IInv, NEW kind \in Kinds
    PROVE  /\ Active(kind) # {} => Target(kind) \in Runs
           /\ Active(kind) = {} => /\ Target(kind) = created + 1
                                   /\ created + 1 \in Runs => spawned[created + 1] = 0
<1>1. Active(kind) \subseteq Runs
  BY DEF Active
<1>2. Active(kind) # {} => Target(kind) \in Runs
  BY <1>1, NewestIsThere DEF Target
<1>3. created + 1 \in Runs => spawned[created + 1] = 0
  BY JobAssumption DEF IInv, TypeOK, SpawnedOnce, Runs
<1> QED
  BY <1>2, <1>3 DEF Target

\* Runs that are overdue have been started.
LEMMA StaleWereSpawned ==
    ASSUME IInv
    PROVE  Stale \in SUBSET Runs /\ \A s \in Stale : spawned[s] # 0
BY DEF Stale, IInv, SpawnedOnce, NoRun

LEMMA PressKeeps ==
    ASSUME IInv, NEW kind \in Kinds, Press(kind)
    PROVE  IInv'
<1> DEFINE r == Target(kind)
           new == Active(kind) = {}
<1>1. created \in Nat /\ created \in 0 .. MaxRuns /\ age \in [Runs -> 0 .. Timeout + 1]
  BY JobAssumption DEF IInv, TypeOK
<1>2. open = None /\ open' = None /\ UNCHANGED <<closing, faults, crashes>>
  BY DEF Press
<1>3. CASE r \in Runs
  <2>1. /\ Started(kind, r, new, Stale)
        /\ created' = IF new THEN r ELSE created
    BY <1>3 DEF Press
  <2>2. new => spawned[r] = 0 /\ r = created + 1 /\ r <= MaxRuns
    <3>1. new => r = created + 1
      BY DEF Target
    <3>2. new => spawned[created + 1] = 0
      BY <1>3, <3>1, TargetIsFree
    <3> HIDE DEF r, new
    <3> QED
      BY <1>3, <3>1, <3>2 DEF Runs
  <2>3. created' \in created .. MaxRuns /\ (new => r <= created')
    BY <1>1, <2>1, <2>2, JobAssumption
  <2>4. /\ age' \in [Runs -> 0 .. Timeout + 1]
        /\ \A s \in Runs : ~(new /\ s = r) => age'[s] = age[s]
    BY <1>1, <1>3, <2>1, JobAssumption DEF Started
  <2>5. new \in BOOLEAN
    OBVIOUS
  <2> HIDE DEF r, new
  <2>6. /\ run' = IF new THEN [CloseStale(Stale) EXCEPT ![r] = NewRun(kind)]
                         ELSE CloseStale(Stale)
        /\ job' = [job EXCEPT ![r] = "running"]
        /\ Spawn(Spawned(r, new))
    BY <2>1 DEF Started
  <2>7. new => Active(kind) = {}
    BY DEF new
  <2> QED
    BY <1>2, <1>3, <2>2, <2>3, <2>4, <2>5, <2>6, <2>7, StaleWereSpawned, StartKeeps
<1>4. CASE r \notin Runs
  <2>1. run' = CloseStale(Stale) /\ UNCHANGED <<age, job, created, tasks>>
    BY <1>4 DEF Press
  <2>2. TypeOK'
    BY <1>2, <2>1 DEF CloseStale, tasks, IInv, TypeOK, Statuses
  <2>3. \A s \in Runs :
          /\ run'[s].kind = run[s].kind /\ run'[s].source = run[s].source
          /\ run'[s].verified = run[s].verified
          /\ run'[s].status \in {run[s].status, "failed", "timed_out"}
          /\ spawned[s] = 0 => run'[s] = run[s]
    BY <2>1, StaleWereSpawned DEF CloseStale, IInv, TypeOK
  <2>4. \A s \in Runs : age[s] <= age'[s]
    BY <1>1, <2>1, JobAssumption
  <2>5. \A c \in closing' : spawned[c.run] # 0
    BY <1>2 DEF IInv, SpawnedOnce
  <2> QED
    BY <1>2, <2>1, <2>2, <2>3, <2>4, <2>5, QuietStepKeeps DEF tasks
<1> QED
  BY <1>3, <1>4

\* Nothing is committed yet: the command has only read.
LEMMA CommandStartsKeeps ==
    ASSUME IInv, NEW kind \in Kinds, CommandStarts(kind)
    PROVE  IInv'
<1> DEFINE r == Target(kind)
           new == Active(kind) = {}
<1>1. /\ open' = [kind |-> kind, run |-> r, new |-> new, stale |-> Stale]
      /\ r \in Runs /\ new \in BOOLEAN
      /\ created' = IF new THEN created + 1 ELSE created
      /\ age' = IF new THEN [age EXCEPT ![created + 1] = 0] ELSE age
      /\ UNCHANGED <<run, job, thread, basis, spawned, awaited, closing, faults, crashes>>
  BY DEF CommandStarts, tasks
<1>2. new => /\ r = created + 1 /\ spawned[r] = 0
             /\ run[r].status # "running"
  <2>1. new => r = created + 1
    BY DEF Target
  <2>2. new => spawned[created + 1] = 0
    BY <1>1, <2>1, TargetIsFree
  <2> QED
    BY <1>1, <2>1, <2>2 DEF IInv, SpawnedOnce, NoRun
<1>3. new => Active(kind) = {}
  OBVIOUS
<1> HIDE DEF r, new
<1>4. created \in Nat /\ created' \in created .. MaxRuns
  <2>1. created \in 0 .. MaxRuns /\ r \in 1 .. MaxRuns
    BY <1>1 DEF IInv, TypeOK, Runs
  <2> QED
    BY <1>1, <1>2, <2>1, JobAssumption
<1>5. age \in [Runs -> 0 .. Timeout + 1] /\ 0 \in 0 .. Timeout + 1
  BY JobAssumption DEF IInv, TypeOK
<1>6. \A s \in Runs : run[s].status = "running" => age'[s] = age[s]
  BY <1>1, <1>2, <1>5
<1>7. TypeOK'
  <2>1. open' \in [kind: Kinds, run: Runs, new: BOOLEAN, stale: SUBSET Runs]
    BY <1>1 DEF Stale
  <2>2. age' \in [Runs -> 0 .. Timeout + 1]
    BY <1>1, <1>5
  <2>3. created' \in 0 .. MaxRuns
    BY <1>4, JobAssumption
  <2> QED
    BY <1>1, <2>1, <2>2, <2>3 DEF IInv, TypeOK
<1>8. SpawnedOnce'
  <2>1. \A s \in Runs : s > created' => s > created
    BY <1>4 DEF Runs
  <2> QED
    BY <1>1, <2>1 DEF IInv, SpawnedOnce
<1>9. OpenIsFresh'
  <2>1. open'.kind = kind /\ open'.run = r /\ open'.new = new /\ open'.stale = Stale
    BY <1>1
  <2>2. \A s \in open'.stale : spawned'[s] # 0
    BY <1>1, <2>1, StaleWereSpawned
  <2>3. new => Active(open.kind)' = {}
    BY <1>1, <1>3, <1>6, <2>1 DEF Active
  <2>4. new => r <= created'
    BY <1>1, <1>2, <1>4
  <2>5. open'.new => /\ open'.run <= created' /\ spawned'[open'.run] = 0
                     /\ Active(open.kind)' = {}
    BY <1>1, <1>2, <2>1, <2>3, <2>4
  <2> QED
    BY <2>2, <2>5 DEF OpenIsFresh
<1>10. VerifiedStays' /\ EvidenceBehindStatus'
  BY <1>1 DEF IInv, VerifiedStays, EvidenceBehindStatus
<1>11. OneLiveRun'
  BY <1>1, <1>6 DEF IInv, OneLiveRun
<1> QED
  BY <1>7, <1>8, <1>9, <1>10, <1>11 DEF IInv

LEMMA CommandCommitsKeeps ==
    ASSUME IInv, CommandCommits
    PROVE  IInv'
<1>1. /\ open.kind \in Kinds /\ open.run \in Runs /\ open.new \in BOOLEAN
      /\ open.stale \in SUBSET Runs
      /\ \A s \in open.stale : spawned[s] # 0
      /\ open.new => /\ spawned[open.run] = 0 /\ Active(open.kind) = {}
                     /\ open.run <= created
  BY DEF CommandCommits, IInv, TypeOK, OpenIsFresh
<1>2. created \in created .. MaxRuns /\ age \in [Runs -> 0 .. Timeout + 1]
  BY JobAssumption DEF IInv, TypeOK
<1> QED
  BY <1>1, <1>2, StartKeeps DEF CommandCommits

-----------------------------------------------------------------------------
(* The theorems.                                                           *)

LEMMA StepKeeps ==
    ASSUME IInv, [Next]_vars
    PROVE  IInv'
<1>1. CASE \E kind \in Kinds : Press(kind) \/ CommandStarts(kind)
  BY <1>1, PressKeeps, CommandStartsKeeps
<1>2. CASE CommandCommits
  BY <1>2, CommandCommitsKeeps
<1>3. CASE CommandRollsBack \/ Restart \/ Tick
  BY <1>3, EndingsKeep
<1>4. CASE \E r \in Runs : \/ ThreadBegins(r) \/ ThreadReturns(r)
                           \/ ThreadRaises(r) \/ WaitTimesOut(r)
  BY <1>4, ThreadStepsKeep
<1>5. CASE \E r \in Runs : ThreadReads(r) \/ ThreadWrites(r)
  BY <1>5, ThreadReadsKeeps, ThreadWritesKeeps
<1>6. CASE \E c \in closing : Close(c)
  BY <1>6, CloseKeeps
<1>7. CASE UNCHANGED vars
  <2>1. TypeOK'
    BY <1>7 DEF vars, rows, tasks, IInv, TypeOK
  <2> QED
    BY <1>7, <2>1, RunsAsTheyAre DEF vars, rows, tasks, IInv, SpawnedOnce
<1> QED
  BY <1>1, <1>2, <1>3, <1>4, <1>5, <1>6, <1>7 DEF Next

\* The invariant holds in every state of every run.
THEOREM Invariance == Spec => []IInv
<1>1. Init => IInv
  BY InitIInv
<1>2. IInv /\ [Next]_vars => IInv'
  BY StepKeeps
<1> QED
  BY <1>1, <1>2, PTL DEF Spec

\* Type correctness of runs, jobs, threads and the open command.
THEOREM TypeCorrect == Spec => []TypeOK
<1>1. IInv => TypeOK
  BY DEF IInv
<1> QED
  BY <1>1, Invariance, PTL

\* No run is executed twice, and no kind has two live runs.
THEOREM SingleRuns == Spec => []RunsAreSingle
<1>1. IInv => RunsAreSingle
  BY DEF IInv, SpawnedOnce, RunsAreSingle, ExecutedOnce
<1> QED
  BY <1>1, Invariance, PTL

\* A run that counts as succeeded, or whose job is shown as completed, has
\* the evidence behind it, whoever wrote last.
THEOREM Evidence == Spec => []EvidenceBehindStatus
<1>1. IInv => EvidenceBehindStatus
  BY DEF IInv
<1> QED
  BY <1>1, Invariance, PTL
=============================================================================
