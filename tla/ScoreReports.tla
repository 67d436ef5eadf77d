---------------------------- MODULE ScoreReports ----------------------------
(***************************************************************************)
(* One score of the command center as it is shown and recorded: the report *)
(* cache of app/services/live_scores.py and the snapshots it writes.    *)
(*                                                                         *)
(* Reports are built in threads that overlap: a page looks into the cache  *)
(* under a lock, builds without it and puts the report into the cache      *)
(* under the lock again.  Only the refresh in the background records.      *)
(***************************************************************************)
EXTENDS Integers

CONSTANTS
    Threads,
    Truths,         \* pairs of a percentage and the wording of its evidence
    Pressures,      \* points that drift may take off
    Ttl,            \* _REPORT_CACHE_TTL_SECONDS in ticks
    Nothing

VARIABLES
    truth,          \* what the tables say
    pressure,       \* drift points of the score
    cache,          \* _REPORT_CACHE and the time it has left
    work,           \* what each thread builds
    newest,         \* the last row of score_snapshots
    disturbed       \* refreshes during which another one recorded

vars == <<truth, pressure, cache, work, newest, disturbed>>

Init ==
    /\ truth \in Truths
    /\ pressure \in Pressures
    /\ cache = Nothing
    /\ work = [t \in Threads |-> Nothing]
    /\ newest = Nothing
    /\ disturbed = {}

-----------------------------------------------------------------------------
(* Reports.                                                                *)

\* _score_from_breakdown and _apply_drift_pressure: the movement is taken
\* from the score before drift.
Report ==
    [percent |-> truth[1] - pressure, evidence |-> truth, age |-> 0,
     delta |-> IF newest = Nothing THEN 0 ELSE truth[1] - newest.percent]

\* expires_at > now: a report whose time is over is as good as none.
Kept(report, left) == IF left > 0 THEN [report |-> report, left |-> left] ELSE Nothing

Begun(kind) == [kind |-> kind, at |-> "build", elapsed |-> 0, report |-> Nothing]

\* How long it took does not matter any more.
Recording(report) ==
    [kind |-> "refresh", at |-> "record", elapsed |-> 0, report |-> [report EXCEPT !.age = 0]]

\* A variant of Refreshed: the background refresh takes a report that is there.
RefreshedFromCache ==
    IF cache # Nothing THEN Recording(cache.report) ELSE Begun("refresh")

\* refresh_command_center_score_snapshots: always builds.
Refreshed == Begun("refresh")

\* The pages of the command center (cached_command_center_report): served
\* from the cache, or built.
Open(t) ==
    /\ work[t] = Nothing
    /\ cache = Nothing
    /\ work' = [work EXCEPT ![t] = Begun("page")]
    /\ UNCHANGED <<truth, pressure, cache, newest, disturbed>>

\* Its Refresh button.
Force(t) ==
    /\ work[t] = Nothing
    /\ work' = [work EXCEPT ![t] = Begun("forced")]
    /\ UNCHANGED <<truth, pressure, cache, newest, disturbed>>

\* build_command_center_report
Build(t) ==
    /\ work[t] # Nothing /\ work[t].at = "build"
    /\ work' = [work EXCEPT ![t].at = "store", ![t].report = Report]
    /\ UNCHANGED <<truth, pressure, cache, newest, disturbed>>

\* The time counts from the moment the page looked into the cache.
TimeLeft(w) == Ttl - w.elapsed

\* The report goes into the cache.  A page that asked for it is done, or has
\* timed out; after the Refresh button the refresh in the background follows,
\* unless the page timed out.
Store(t) ==
    /\ work[t] # Nothing /\ work[t].at = "store"
    /\ cache' = Kept(work[t].report, TimeLeft(work[t]))
    /\ \/ /\ work[t].kind = "refresh"
          /\ work' = [work EXCEPT ![t] = Recording(@.report)]
          /\ UNCHANGED disturbed
       \/ /\ work[t].kind = "forced"
          /\ work' = [work EXCEPT ![t] = Refreshed]
          /\ disturbed' = disturbed \ {t}
       \/ /\ work[t].kind # "refresh"
          /\ work' = [work EXCEPT ![t] = Nothing]
          /\ UNCHANGED disturbed
    /\ UNCHANGED <<truth, pressure, newest>>

-----------------------------------------------------------------------------
(* Snapshots.                                                              *)

\* record_score_snapshots: another percentage comes with other evidence, since
\* the breakdown is part of its version.
Moved(report) ==
    \/ newest = Nothing
    \/ newest.evidence # report.evidence
    \/ newest.percent - report.percent \notin -1 .. 1

\* The snapshot is inserted, if it says something new.
Insert(t) ==
    /\ work[t] # Nothing /\ work[t].at = "record"
    /\ work' = [work EXCEPT ![t] = IF Moved(@.report) THEN [@ EXCEPT !.at = "commit"] ELSE Nothing]
    /\ UNCHANGED <<truth, pressure, cache, newest, disturbed>>

\* Others see it when it is committed.
Commit(t) ==
    /\ work[t] # Nothing /\ work[t].at = "commit"
    /\ newest' = LET r == work[t].report
                 IN [percent |-> r.percent, evidence |-> r.evidence, delta |-> r.delta]
    /\ work' = [work EXCEPT ![t] = Nothing]
    /\ disturbed' = disturbed \union (Threads \ {t})
    /\ UNCHANGED <<truth, pressure, cache>>

-----------------------------------------------------------------------------
(* The agency and time.                                                    *)

Change ==
    /\ truth' \in Truths \ {truth}
    /\ UNCHANGED <<pressure, cache, work, newest, disturbed>>

\* One more, up to the time to live, beyond which no report is of use.
Later(n) == IF n < Ttl THEN n + 1 ELSE Ttl

Aged(r) == IF r = Nothing THEN r ELSE [r EXCEPT !.age = Later(@)]

Tick ==
    /\ cache' = IF cache = Nothing THEN cache ELSE Kept(Aged(cache.report), cache.left - 1)
    /\ work' = [t \in Threads |->
                   IF work[t] = Nothing \/ work[t].at \in {"record", "commit"} THEN work[t]
                   ELSE [work[t] EXCEPT !.elapsed = Later(@), !.report = Aged(@)]]
    /\ UNCHANGED <<truth, pressure, newest, disturbed>>

Next ==
    \/ \E t \in Threads : Open(t) \/ Force(t) \/ Build(t) \/ Store(t) \/ Insert(t) \/ Commit(t)
    \/ Change
    \/ Tick

Spec == Init /\ [][Next]_vars

-----------------------------------------------------------------------------
(* Properties.                                                             *)

Reports ==
    [percent : Int, evidence : Truths, age : 0 .. Ttl, delta : Int]

Works ==
    [kind : {"page", "forced", "refresh"}, at : {"build", "store", "record", "commit"},
     elapsed : 0 .. Ttl, report : Reports \union {Nothing}]

\* Type correctness: a report is there once it is built, and is no older than
\* its building.
TypeOK ==
    /\ truth \in Truths
    /\ pressure \in Pressures
    /\ cache = Nothing \/ cache \in [report : Reports, left : 1 .. Ttl]
    /\ work \in [Threads -> Works \union {Nothing}]
    /\ \A t \in Threads : work[t] # Nothing =>
          /\ work[t].report = Nothing <=> work[t].at = "build"
          /\ work[t].report # Nothing => work[t].report.age <= work[t].elapsed
    /\ newest = Nothing \/ newest \in [percent : Int, evidence : Truths, delta : Int]
    /\ disturbed \subseteq Threads

\* A page served from the cache shows facts younger than the time to live,
\* however long the building took and whoever overwrote whose report.
CacheIsRecent == cache # Nothing => cache.report.age < Ttl

\* A refresh during which no other one records writes a snapshot only if it
\* says something new, and where no drift presses, its movement is the
\* difference to the snapshot before it.
MovementIsReal ==
    [][\A t \in Threads \ disturbed :
          work[t] # Nothing /\ work[t].at = "commit" /\ work'[t] = Nothing /\ newest # Nothing
          => /\ newest'.evidence # newest.evidence
             /\ pressure = 0 => newest'.delta = newest'.percent - newest.percent]_vars

\* Reports are recent, whoever overwrites whose, and recorded movements real.
ReportsAreRecent == []CacheIsRecent /\ MovementIsReal
=============================================================================
