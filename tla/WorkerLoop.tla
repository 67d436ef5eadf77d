----------------------------- MODULE WorkerLoop -----------------------------
(***************************************************************************)
(* One event loop per process, rows of one database for all of them.       *)
(*                                                                         *)
(* The handlers of app/bot/runner.py use a synchronous database session on *)
(* the event loop.  Each begins with _record_bot_heartbeat, which UPDATEs  *)
(* and flushes the single system_heartbeats row of service "bot", and may  *)
(* UPDATE the message rows of its chat later; a row stays locked until the *)
(* transaction ends.  Between these writes handlers await Telegram, Redis  *)
(* or a render thread, and some commit on their way.  A statement that     *)
(* waits for a row blocks the loop of its process, and with it all tasks   *)
(* of that loop: aiogram runs every update in a task of its own.           *)
(*                                                                         *)
(* The pending-updates watchdog runs on the same loop: it asks Telegram    *)
(* for the number of updates nobody consumed and ends the process, which   *)
(* the platform restarts, when three checks in a row found some while no   *)
(* update was handled.  It writes the heartbeat row before it does.        *)
(***************************************************************************)
EXTENDS Integers, FiniteSets

CONSTANTS
    Procs,          \* processes that handle updates
    Updates,        \* updates Telegram will deliver
    Chats,          \* chats, each for the rows of its bot messages
    ProcOf, ChatOf, \* the process and the chat of an update
    None,           \* a row is not locked, a loop is not blocked
    Limit,          \* TELEGRAM_PENDING_WATCHDOG_LIMIT
    MaxFailures,    \* bound: handlers that fail
    MaxHangs,       \* bound: times long polling stops without an error
    MaxRefreshes    \* bound: heartbeats written by refresh_guard

Heartbeat == "heartbeat"

Rows == Chats \cup {Heartbeat}

\* The tasks of a loop that are no handlers and write the heartbeat row.
Beats == {"refresh", "watchdog"}

ASSUME LoopAssumption ==
    /\ ProcOf \in [Updates -> Procs] /\ ChatOf \in [Updates -> Chats]
    /\ None \notin Updates \cup Beats /\ Updates \cap Beats = {}
    /\ Heartbeat \notin Chats
    /\ Limit \in Nat \ {0}
    /\ {MaxFailures, MaxHangs, MaxRefreshes} \subseteq Nat

VARIABLES
    pc,        \* where the handler of each update is
    failed,    \* updates whose handler failed once
    owner,     \* per row, the update whose transaction has it locked
    blocked,   \* per process, the task its loop thread waits in
    hung,      \* processes whose long polling fetches nothing any more
    marker,    \* per process, an update was handled since the last check
    streak,    \* pending_streak of each watchdog
    silent,    \* checks since an update was handled (history variable)
    hangs, refreshes

counters == <<hangs, refreshes>>
watchdog == <<marker, streak, silent>>
handlers == <<pc, failed, owner>>
vars == <<handlers, blocked, hung, watchdog, counters>>

\* "pending": at Telegram; "arriving": inside the UPDATE of the heartbeat;
\* "open": awaiting in that transaction; "committed": awaiting after a commit;
\* "writing": inside the UPDATE of the chat's rows; "tracked": awaiting with
\* these locked.
Stages == {"pending", "arriving", "open", "committed", "writing", "tracked", "done", "lost"}

LoopFree(p) == blocked[p] = None

Of(p) == {u \in Updates : ProcOf[u] = p}

Pending(p) == {u \in Of(p) : pc[u] = "pending"}

Min2(a, b) == IF a < b THEN a ELSE b

\* The row a handler writes next.
NextRow(u) == IF pc[u] \in {"pending", "arriving"} THEN Heartbeat ELSE ChatOf[u]

\* The row the task t of a blocked loop waits for.
Wanted(t) == IF t \in Beats THEN Heartbeat ELSE NextRow(t)

\* A row is free, or the handler's transaction has it already.
Grants(r, u) == owner[r] \in {None, u}

\* What is left of the locks when the transactions of the updates U end.
Released(U) == [r \in Rows |-> IF owner[r] \in U THEN None ELSE owner[r]]

-----------------------------------------------------------------------------
Init ==
    /\ pc = [u \in Updates |-> "pending"]
    /\ failed = {}
    /\ owner = [r \in Rows |-> None]
    /\ blocked = [p \in Procs |-> None]
    /\ hung = {}
    /\ marker = [p \in Procs |-> FALSE]
    /\ streak = [p \in Procs |-> 0]
    /\ silent = [p \in Procs |-> 0]
    /\ hangs = 0 /\ refreshes = 0

\* The row is granted: the handler goes on to its next await with the row
\* locked, or, after the heartbeat, commits first, as the owner's /start does.
TakeRow(u) ==
    /\ Grants(NextRow(u), u)
    /\ \/ /\ pc' = [pc EXCEPT ![u] = IF NextRow(u) = Heartbeat THEN "open" ELSE "tracked"]
          /\ owner' = [owner EXCEPT ![NextRow(u)] = u]
       \/ /\ NextRow(u) = Heartbeat
          /\ pc' = [pc EXCEPT ![u] = "committed"]
          /\ UNCHANGED owner

\* The row is locked: the loop waits inside the UPDATE.
WaitForRow(u) ==
    /\ ~Grants(NextRow(u), u)
    /\ pc' = [pc EXCEPT ![u] = IF NextRow(u) = Heartbeat THEN "arriving" ELSE "writing"]
    /\ blocked' = [blocked EXCEPT ![ProcOf[u]] = u]
    /\ UNCHANGED owner

\* A handler starts: it moves the watchdog's marker, then writes the row.
Begin(u) ==
    LET p == ProcOf[u] IN
    /\ pc[u] = "pending" /\ LoopFree(p) /\ p \notin hung
    /\ marker' = [marker EXCEPT ![p] = TRUE]
    /\ silent' = [silent EXCEPT ![p] = 0]
    /\ \/ TakeRow(u) /\ UNCHANGED blocked
       \/ WaitForRow(u)
    /\ UNCHANGED <<failed, hung, streak, counters>>

\* An await is over and the handler tracks what it shows: it UPDATEs the
\* rows of the chat's menus, in the transaction of the heartbeat or in the
\* one after its commit.
TrackScreen(u) ==
    /\ pc[u] \in {"open", "committed"} /\ LoopFree(ProcOf[u])
    /\ \/ TakeRow(u) /\ UNCHANGED blocked
       \/ WaitForRow(u)
    /\ UNCHANGED <<failed, hung, watchdog, counters>>

\* The row was released: the UPDATE goes through and the loop runs on.
Resume(u) ==
    /\ blocked[ProcOf[u]] = u
    /\ TakeRow(u)
    /\ blocked' = [blocked EXCEPT ![ProcOf[u]] = None]
    /\ UNCHANGED <<failed, hung, watchdog, counters>>

\* A handler commits after an await and goes on: a slow command that has
\* shown its working status, a press that starts a recovery job.
CommitAndGoOn(u) ==
    /\ pc[u] = "open" /\ LoopFree(ProcOf[u])
    /\ pc' = [pc EXCEPT ![u] = "committed"]
    /\ owner' = Released({u})
    /\ UNCHANGED <<failed, blocked, hung, watchdog, counters>>

\* The last await is over: the handler commits and ends.  One that failed
\* may end without having tracked its fallback.
Finish(u) ==
    /\ pc[u] \in {"open", "committed", "tracked"} /\ LoopFree(ProcOf[u])
    /\ pc' = [pc EXCEPT ![u] = "done"]
    /\ owner' = Released({u})
    /\ UNCHANGED <<failed, blocked, hung, watchdog, counters>>

\* A variant of Fail: the update is handled again, without a rollback.
FailAndRetry(u) ==
    /\ pc[u] \in {"open", "committed", "tracked"} /\ LoopFree(ProcOf[u])
    /\ u \notin failed /\ Cardinality(failed) < MaxFailures
    /\ failed' = failed \cup {u}
    /\ pc' = [pc EXCEPT ![u] = "pending"]
    /\ UNCHANGED <<owner, blocked, hung, watchdog, counters>>

\* An await timed out or failed: _handle_callback_failure rolls back, commits
\* its log and shows the fallback screen, which is tracked as well.
Fail(u) ==
    /\ pc[u] \in {"open", "committed", "tracked"} /\ LoopFree(ProcOf[u])
    /\ u \notin failed /\ Cardinality(failed) < MaxFailures
    /\ failed' = failed \cup {u}
    /\ pc' = [pc EXCEPT ![u] = "committed"]
    /\ owner' = Released({u})
    /\ UNCHANGED <<blocked, hung, watchdog, counters>>

\* refresh_guard writes and commits the heartbeat without an await; it
\* blocks the loop too while the row is locked.
RefreshHeartbeat(p) ==
    /\ LoopFree(p)
    /\ refreshes < MaxRefreshes /\ refreshes' = refreshes + 1
    /\ blocked' = IF owner[Heartbeat] = None THEN blocked
                                             ELSE [blocked EXCEPT ![p] = "refresh"]
    /\ UNCHANGED <<handlers, hung, watchdog, hangs>>

RefreshUnblocked(p) ==
    /\ blocked[p] = "refresh" /\ owner[Heartbeat] = None
    /\ blocked' = [blocked EXCEPT ![p] = None]
    /\ UNCHANGED <<handlers, hung, watchdog, counters>>

\* getUpdates hangs: the loop runs, nothing is fetched, no error is raised.
Hang(p) ==
    /\ p \notin hung
    /\ hangs < MaxHangs /\ hangs' = hangs + 1
    /\ hung' = hung \cup {p}
    /\ UNCHANGED <<handlers, blocked, watchdog, refreshes>>

\* A variant of NewStreak: the marker of the last handled update is ignored.
NewStreakUnmarked(p) == IF Pending(p) = {} THEN 0 ELSE streak[p] + 1

\* A variant of NewStreak: a check that is no answer to a handled update
\* begins again as well.
NewStreakForgets(p) == IF Pending(p) = {} THEN 0 ELSE 1

\* pending_streak after a check: an update handled since the last one
\* resets it, no pending update resets it, and else it grows.
NewStreak(p) ==
    IF Pending(p) = {} THEN 0 ELSE IF marker[p] THEN 1 ELSE streak[p] + 1

\* A variant of Check: it goes on watching at the limit.
CheckBeyond(p) ==
    /\ LoopFree(p) /\ NewStreak(p) <= Limit
    /\ streak' = [streak EXCEPT ![p] = NewStreak(p)]
    /\ marker' = [marker EXCEPT ![p] = FALSE]
    /\ silent' = [silent EXCEPT ![p] = Min2(@ + 1, Limit)]
    /\ UNCHANGED <<handlers, blocked, hung, counters>>

\* A check that goes on watching.  One that gets no answer from Telegram
\* changes nothing.
Check(p) ==
    /\ LoopFree(p) /\ NewStreak(p) < Limit
    /\ streak' = [streak EXCEPT ![p] = NewStreak(p)]
    /\ marker' = [marker EXCEPT ![p] = FALSE]
    /\ silent' = [silent EXCEPT ![p] = Min2(@ + 1, Limit)]
    /\ UNCHANGED <<handlers, blocked, hung, counters>>

\* The process ends, its transactions roll back and the platform restarts it.
Restart(p) ==
    /\ pc' = [u \in Updates |->
                IF u \in Of(p) /\ pc[u] \notin {"pending", "done", "lost"}
                THEN "lost" ELSE pc[u]]
    /\ owner' = Released(Of(p))
    /\ blocked' = [blocked EXCEPT ![p] = None]
    /\ hung' = hung \ {p}
    /\ marker' = [marker EXCEPT ![p] = FALSE]
    /\ streak' = [streak EXCEPT ![p] = 0]
    /\ silent' = [silent EXCEPT ![p] = 0]
    /\ UNCHANGED <<failed, counters>>

\* The check that reaches the limit writes a critical heartbeat, inside which
\* its own loop waits while the row is locked, and then calls os._exit(1).
WatchdogExit(p) ==
    /\ LoopFree(p) /\ NewStreak(p) >= Limit
    /\ \/ owner[Heartbeat] = None /\ Restart(p)
       \/ /\ owner[Heartbeat] # None
          /\ blocked' = [blocked EXCEPT ![p] = "watchdog"]
          /\ UNCHANGED <<handlers, hung, watchdog, counters>>

ExitUnblocked(p) ==
    /\ blocked[p] = "watchdog" /\ owner[Heartbeat] = None
    /\ Restart(p)

Next ==
    \/ \E u \in Updates :
         \/ Begin(u) \/ TrackScreen(u) \/ Resume(u)
         \/ CommitAndGoOn(u) \/ Finish(u) \/ Fail(u)
    \/ \E p \in Procs :
         \/ RefreshHeartbeat(p) \/ RefreshUnblocked(p) \/ Hang(p)
         \/ Check(p) \/ WatchdogExit(p) \/ ExitUnblocked(p)

Spec == Init /\ [][Next]_vars

\* A loop that stays free serves every task that is ready, a row that stays
\* free is granted, the watchdog keeps checking.
FairSpec ==
    /\ Spec
    /\ \A u \in Updates : WF_vars(Begin(u)) /\ WF_vars(Resume(u)) /\ WF_vars(Finish(u))
    /\ \A p \in Procs :
         /\ WF_vars(RefreshUnblocked(p)) /\ WF_vars(Check(p))
         /\ WF_vars(WatchdogExit(p)) /\ WF_vars(ExitUnblocked(p))

-----------------------------------------------------------------------------
(* Properties.                                                             *)

\* Every variable keeps its type.
TypeOK ==
    /\ pc \in [Updates -> Stages]
    /\ failed \subseteq Updates
    /\ owner \in [Rows -> Updates \cup {None}]
    /\ blocked \in [Procs -> Updates \cup Beats \cup {None}]
    /\ hung \subseteq Procs
    /\ marker \in [Procs -> BOOLEAN]
    /\ streak \in [Procs -> 0 .. Limit - 1]
    /\ silent \in [Procs -> 0 .. Limit]
    /\ hangs \in 0 .. MaxHangs /\ refreshes \in 0 .. MaxRefreshes

\* The transaction the loop of p waits for.
Holder(p) == owner[Wanted(blocked[p])]

\* The loops of S wait for transactions of each other and for nothing else.
InCircle(S) ==
    \A p \in S : ~LoopFree(p) /\ Holder(p) # None /\ ProcOf[Holder(p)] \in S

\* One process alone is a circle when its loop waits for a transaction that
\* only this loop could end.
Wedged == \E S \in (SUBSET Procs) \ {{}} : InCircle(S)

\* Loops that wait for each other for ever need overlapping handlers: one of
\* their processes waits in one task while another handler of it has a row
\* locked.  Handlers that take turns never do this, in however many
\* processes, because no handler waits for the heartbeat row while it holds
\* rows of a chat.
CirclesNeedOverlap ==
    \A S \in (SUBSET Procs) \ {{}} : InCircle(S) =>
        \E p \in S, u \in Updates, r \in Rows :
            u \in Of(p) /\ owner[r] = u /\ blocked[p] # u

\* The watchdog restarts a worker only when no update was handled between
\* its last Limit checks, however long the queue at Telegram is.
RestartOnlyWhenSilent ==
    [][\A p \in Procs :
         WatchdogExit(p) \/ ExitUnblocked(p) => silent[p] >= Limit - 1]_vars

\* Every update is handled, or lost with a process that was restarted.  The
\* watchdog is there to "detect that state and let the platform restart the
\* single primary worker".
EveryUpdateEnds ==
    \A u \in Updates : <>(pc[u] \in {"done", "lost"})

\* The one state the watchdog cannot end is a circle of waiting loops: as
\* long as there is none, every update ends, though polling hangs, checks
\* fail and loops wait for the rows of other processes.
EndsUnlessWedged == []~Wedged => EveryUpdateEnds
=============================================================================
