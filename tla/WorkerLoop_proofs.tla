-------------------------- MODULE WorkerLoop_proofs --------------------------
(***************************************************************************)
(* Proofs about WorkerLoop: a worker is restarted only after checks that   *)
(* saw no update handled; and loops that wait for each other in a circle   *)
(* need a process with two handlers at work, for every number of           *)
(* processes, updates, chats and checks.                                   *)
(***************************************************************************)
EXTENDS WorkerLoop, FiniteSetTheorems, TLAPS

\* The streak of pending updates counts checks since the last handled one,
\* unless the marker tells the next check to begin again.
StreakIsSilent == \A p \in Procs : ~marker[p] => streak[p] <= silent[p]

\* A loop that waits inside the watchdog's last write handled nothing since.
ExitIsSilent == \A p \in Procs : blocked[p] = "watchdog" => silent[p] >= Limit - 1

\* Where the transactions that hold a row are: only a handler that tracks its
\* screen waits while it has one locked, and that one is the heartbeat.
RowsAreTaken ==
    /\ owner[Heartbeat] # None => pc[owner[Heartbeat]] \in {"open", "writing", "tracked"}
    /\ \A c \in Chats : owner[c] # None => pc[owner[c]] = "tracked"

\* A blocked loop waits in a handler of its own, where the handler writes.
BlockedInOwn ==
    \A p \in Procs : blocked[p] \in Updates =>
        ProcOf[blocked[p]] = p /\ pc[blocked[p]] \in {"arriving", "writing"}

IInv == TypeOK /\ StreakIsSilent /\ ExitIsSilent /\ RowsAreTaken /\ BlockedInOwn

LEMMA Constants ==
    /\ Limit \in Nat \ {0} /\ Heartbeat \in Rows /\ Chats \subseteq Rows /\ Heartbeat \notin Chats
    /\ \A u \in Updates :
         /\ ProcOf[u] \in Procs /\ ChatOf[u] \in Chats /\ u # None
         /\ u # "refresh" /\ u # "watchdog"
    /\ "refresh" # None /\ "watchdog" # None
BY LoopAssumption DEF Rows, Beats

LEMMA InitIInv ==
    ASSUME Init
    PROVE  IInv
BY Constants, LoopAssumption
   DEF Init, IInv, TypeOK, StreakIsSilent, ExitIsSilent, RowsAreTaken, BlockedInOwn, Stages, Rows, Beats

LEMMA Min2Facts ==
    ASSUME NEW n \in Nat, NEW k \in Nat
    PROVE  Min2(n + 1, k) \in 0 .. k /\ \A i \in Nat : i <= n + 1 /\ i <= k => i <= Min2(n + 1, k)
BY DEF Min2

-----------------------------------------------------------------------------
(* The rows.  A step on handlers and rows keeps what it has to.             *)

\* What every step of a handler preserves of types, rows and loops.
Shape ==
    /\ pc \in [Updates -> Stages] /\ owner \in [Rows -> Updates \cup {None}]
    /\ blocked \in [Procs -> Updates \cup Beats \cup {None}]
    /\ RowsAreTaken /\ BlockedInOwn

LEMMA TakeRowShape ==
    ASSUME TypeOK, RowsAreTaken, BlockedInOwn, NEW u \in Updates, TakeRow(u),
           pc[u] \in {"pending", "arriving", "open", "committed", "writing"},
           \/ blocked[ProcOf[u]] = None /\ UNCHANGED blocked
           \/ blocked[ProcOf[u]] = u /\ blocked' = [blocked EXCEPT ![ProcOf[u]] = None]
    PROVE  Shape'
<1> USE Constants
<1>1. /\ pc' \in [Updates -> Stages] /\ owner' \in [Rows -> Updates \cup {None}]
      /\ blocked' \in [Procs -> Updates \cup Beats \cup {None}]
  BY DEF TakeRow, TypeOK, NextRow, Stages
<1>2. pc' = [pc EXCEPT ![u] = pc'[u]]
  BY DEF TakeRow, TypeOK
<1>3. CASE pc[u] \in {"pending", "arriving"}
  <2>1. NextRow(u) = Heartbeat /\ pc'[u] \in {"open", "committed"}
    BY <1>3 DEF NextRow, TakeRow, TypeOK
  <2>2. \A c \in Chats : owner'[c] = owner[c] /\ owner[c] # u
    BY <1>3, <2>1 DEF TakeRow, TypeOK, RowsAreTaken
  <2>3. \/ owner'[Heartbeat] = u /\ pc'[u] = "open"
        \/ owner'[Heartbeat] = None
    BY <1>3, <2>1 DEF TakeRow, TypeOK, RowsAreTaken, Grants
  <2>4. RowsAreTaken'
    BY <1>2, <2>2, <2>3 DEF RowsAreTaken, TypeOK
  <2> QED
    BY <1>1, <1>2, <2>4 DEF Shape, BlockedInOwn, TypeOK
<1>4. CASE pc[u] \in {"open", "committed", "writing"}
  <2>1. NextRow(u) = ChatOf[u] /\ pc'[u] = "tracked" /\ owner' = [owner EXCEPT ![ChatOf[u]] = u]
    BY <1>4 DEF NextRow, TakeRow, TypeOK
  <2>2. RowsAreTaken'
    BY <1>2, <2>1 DEF RowsAreTaken, TypeOK
  <2> QED
    BY <1>1, <1>2, <2>2 DEF Shape, BlockedInOwn, TypeOK
<1> QED
  BY <1>3, <1>4

LEMMA WaitForRowShape ==
    ASSUME TypeOK, RowsAreTaken, BlockedInOwn, NEW u \in Updates, WaitForRow(u),
           pc[u] \in {"pending", "open", "committed"}, blocked[ProcOf[u]] = None
    PROVE  Shape'
<1> USE Constants
<1>1. /\ pc' \in [Updates -> Stages] /\ owner' \in [Rows -> Updates \cup {None}]
      /\ blocked' \in [Procs -> Updates \cup Beats \cup {None}]
  BY DEF WaitForRow, TypeOK, Stages
<1>2. /\ pc' = [pc EXCEPT ![u] = pc'[u]] /\ pc'[u] \in {"arriving", "writing"}
      /\ pc[u] # "pending" => pc'[u] = "writing"
  BY DEF WaitForRow, NextRow, TypeOK
<1>3. RowsAreTaken'
  BY <1>2 DEF WaitForRow, RowsAreTaken, TypeOK
<1>4. BlockedInOwn'
  <2>1. blocked' = [blocked EXCEPT ![ProcOf[u]] = u]
    BY DEF WaitForRow
  <2> QED
    BY <1>2, <2>1 DEF BlockedInOwn, TypeOK
<1> QED
  BY <1>1, <1>3, <1>4 DEF Shape

\* A transaction of a loop that runs ends: its rows are free.
LEMMA ReleaseShape ==
    ASSUME TypeOK, RowsAreTaken, BlockedInOwn, NEW u \in Updates, NEW stage \in {"committed", "done"},
           pc[u] \in {"open", "committed", "tracked"},
           pc' = [pc EXCEPT ![u] = stage], owner' = Released({u}), UNCHANGED blocked
    PROVE  Shape'
<1> USE Constants
<1>1. \A r \in Rows : owner'[r] = IF owner[r] = u THEN None ELSE owner[r]
  BY DEF Released
<1>2. owner' \in [Rows -> Updates \cup {None}] /\ pc' \in [Updates -> Stages]
  BY DEF Released, TypeOK, Stages
<1>3. RowsAreTaken'
  BY <1>1 DEF RowsAreTaken, TypeOK
<1> QED
  BY <1>2, <1>3 DEF Shape, BlockedInOwn, TypeOK

-----------------------------------------------------------------------------
(* The handlers.                                                           *)

LEMMA BeginKeeps ==
    ASSUME IInv, NEW u \in Updates, Begin(u)
    PROVE  IInv'
<1>1. /\ TypeOK /\ RowsAreTaken /\ BlockedInOwn /\ ProcOf[u] \in Procs /\ Limit \in Nat
      /\ pc[u] = "pending" /\ blocked[ProcOf[u]] = None
  BY Constants DEF IInv, Begin, LoopFree
<1>2. /\ marker' = [marker EXCEPT ![ProcOf[u]] = TRUE]
      /\ silent' = [silent EXCEPT ![ProcOf[u]] = 0]
      /\ UNCHANGED <<failed, hung, streak, counters>>
  BY DEF Begin
<1>3. Shape'
  BY <1>1, TakeRowShape, WaitForRowShape DEF Begin
<1>4. \A p \in Procs : blocked'[p] = "watchdog" => p # ProcOf[u] /\ blocked[p] = "watchdog"
  BY <1>1, Constants DEF Begin, WaitForRow, TypeOK
<1>5. TypeOK'
  <2>1. marker' \in [Procs -> BOOLEAN]
    BY <1>1, <1>2 DEF TypeOK
  <2>2. silent' \in [Procs -> 0 .. Limit]
    BY <1>1, <1>2 DEF TypeOK
  <2> QED
    BY <1>1, <1>2, <1>3, <2>1, <2>2 DEF TypeOK, Shape, counters
<1>6. StreakIsSilent' /\ ExitIsSilent'
  BY <1>1, <1>2, <1>4 DEF IInv, StreakIsSilent, ExitIsSilent, TypeOK
<1> QED
  BY <1>3, <1>5, <1>6 DEF IInv, Shape

LEMMA HandlerKeeps ==
    ASSUME IInv, NEW u \in Updates,
           TrackScreen(u) \/ Resume(u) \/ CommitAndGoOn(u) \/ Finish(u) \/ Fail(u)
    PROVE  IInv'
<1>1. /\ TypeOK /\ RowsAreTaken /\ BlockedInOwn /\ ProcOf[u] \in Procs /\ Limit \in Nat
  BY Constants DEF IInv
<1>2. /\ UNCHANGED <<hung, watchdog, counters>> /\ failed' \subseteq Updates
  BY <1>1 DEF TrackScreen, Resume, CommitAndGoOn, Finish, Fail, TypeOK
<1>3. Shape'
  <2>1. CASE TrackScreen(u)
    BY <1>1, <2>1, TakeRowShape, WaitForRowShape DEF TrackScreen, LoopFree
  <2>2. CASE Resume(u)
    <3>1. pc[u] \in {"arriving", "writing"}
      BY <1>1, <2>2 DEF Resume, BlockedInOwn
    <3> QED
      BY <1>1, <2>2, <3>1, TakeRowShape DEF Resume
  <2>3. CASE CommitAndGoOn(u)
    BY <1>1, <2>3, ReleaseShape DEF CommitAndGoOn
  <2>4. CASE Finish(u)
    BY <1>1, <2>4, ReleaseShape DEF Finish
  <2>5. CASE Fail(u)
    BY <1>1, <2>5, ReleaseShape DEF Fail
  <2> QED
    BY <2>1, <2>2, <2>3, <2>4, <2>5
<1>4. \A p \in Procs : blocked'[p] = "watchdog" => blocked[p] = "watchdog"
  BY <1>1, Constants DEF TrackScreen, Resume, CommitAndGoOn, Finish, Fail, WaitForRow, TypeOK
<1>5. TypeOK'
  BY <1>1, <1>2, <1>3 DEF TypeOK, Shape, counters, watchdog
<1>6. StreakIsSilent' /\ ExitIsSilent'
  BY <1>1, <1>2, <1>4 DEF IInv, StreakIsSilent, ExitIsSilent, watchdog
<1> QED
  BY <1>3, <1>5, <1>6 DEF IInv, Shape

\* refresh_guard goes through or waits; polling hangs.
LEMMA RefreshKeeps ==
    ASSUME IInv, NEW p \in Procs, RefreshHeartbeat(p) \/ RefreshUnblocked(p) \/ Hang(p)
    PROVE  IInv'
<1>1. /\ TypeOK /\ UNCHANGED <<handlers, watchdog>>
      /\ blocked' = blocked \/ blocked' = [blocked EXCEPT ![p] = "refresh"]
         \/ blocked' = [blocked EXCEPT ![p] = None]
  BY DEF RefreshHeartbeat, RefreshUnblocked, Hang, IInv
<1>2. TypeOK'
  <2>1. hangs' \in 0 .. MaxHangs /\ refreshes' \in 0 .. MaxRefreshes /\ hung' \subseteq Procs
    BY LoopAssumption, <1>1 DEF RefreshHeartbeat, RefreshUnblocked, Hang, TypeOK, counters
  <2> QED
    BY <1>1, <2>1 DEF TypeOK, handlers, watchdog, Beats
<1>3. \A q \in Procs : blocked'[q] = blocked[q] \/ blocked'[q] \in {"refresh", None}
  BY <1>1 DEF TypeOK
<1>4. /\ \A q \in Procs : blocked'[q] = "watchdog" => blocked[q] = "watchdog"
      /\ \A q \in Procs : blocked'[q] \in Updates => blocked'[q] = blocked[q]
  BY <1>3, Constants
<1> QED
  BY <1>1, <1>2, <1>4
     DEF IInv, StreakIsSilent, ExitIsSilent, RowsAreTaken, BlockedInOwn, handlers, watchdog

-----------------------------------------------------------------------------
(* The watchdog.                                                           *)

LEMMA StreakTyped ==
    ASSUME TypeOK, NEW p \in Procs
    PROVE  NewStreak(p) \in Nat /\ NewStreak(p) <= streak[p] + 1
BY LoopAssumption DEF NewStreak, TypeOK

\* A check that goes on: the streak grows by one check that saw nothing
\* handled, or begins again.
LEMMA CheckKeeps ==
    ASSUME IInv, NEW p \in Procs, Check(p)
    PROVE  IInv'
<1>1. /\ TypeOK /\ Limit \in Nat \ {0} /\ streak[p] \in Nat /\ silent[p] \in Nat
      /\ NewStreak(p) \in Nat /\ NewStreak(p) < Limit
  BY LoopAssumption, StreakTyped DEF IInv, TypeOK, Check
<1>2. /\ streak' = [streak EXCEPT ![p] = NewStreak(p)]
      /\ marker' = [marker EXCEPT ![p] = FALSE]
      /\ silent' = [silent EXCEPT ![p] = Min2(silent[p] + 1, Limit)]
      /\ UNCHANGED <<handlers, blocked, hung, counters>> /\ blocked[p] = None
  BY DEF Check, LoopFree
<1>3. Min2(silent[p] + 1, Limit) \in 0 .. Limit
  BY <1>1, Min2Facts
<1>4. TypeOK'
  BY <1>1, <1>2, <1>3 DEF TypeOK, counters, handlers
<1>5. NewStreak(p) <= silent[p] + 1
  <2>1. CASE marker[p]
    BY <1>1, <2>1 DEF NewStreak
  <2>2. CASE ~marker[p]
    BY <1>1, <2>2 DEF NewStreak, IInv, StreakIsSilent
  <2> QED
    BY <2>1, <2>2
<1>6. NewStreak(p) <= Min2(silent[p] + 1, Limit)
  BY <1>1, <1>5, Min2Facts
<1>7. StreakIsSilent'
  BY <1>1, <1>2, <1>6 DEF IInv, StreakIsSilent, TypeOK
<1>8. ExitIsSilent' /\ RowsAreTaken' /\ BlockedInOwn'
  BY <1>1, <1>2, Constants DEF IInv, ExitIsSilent, RowsAreTaken, BlockedInOwn, TypeOK, handlers
<1> QED
  BY <1>4, <1>7, <1>8 DEF IInv

\* The check that reaches the limit saw nothing handled.
LEMMA LimitIsSilent ==
    ASSUME IInv, NEW p \in Procs, NewStreak(p) >= Limit
    PROVE  silent[p] >= Limit - 1
<1>1. /\ Limit \in Nat \ {0} /\ streak[p] \in Nat /\ silent[p] \in Nat
      /\ ~marker[p] => streak[p] <= silent[p]
  BY LoopAssumption DEF IInv, TypeOK, StreakIsSilent
<1>2. CASE marker[p]
  BY <1>1, <1>2 DEF NewStreak
<1>3. CASE ~marker[p]
  BY <1>1, <1>3 DEF NewStreak
<1> QED
  BY <1>2, <1>3

\* A process that ends releases its rows and forgets its handlers.
LEMMA RestartKeeps ==
    ASSUME IInv, NEW p \in Procs, Restart(p)
    PROVE  IInv'
<1> USE Constants
<1>1. TypeOK
  BY DEF IInv
<1>2. \A u \in Updates : pc'[u] = IF ProcOf[u] = p /\ pc[u] \notin {"pending", "done", "lost"}
                                   THEN "lost" ELSE pc[u]
  BY DEF Restart, Of
<1>3. \A r \in Rows : owner'[r] = IF owner[r] \in Of(p) THEN None ELSE owner[r]
  BY DEF Restart, Released
<1>4. TypeOK'
  <2>1. owner' \in [Rows -> Updates \cup {None}]
    BY <1>1 DEF Restart, Released, TypeOK
  <2>2. pc' \in [Updates -> Stages]
    BY <1>1 DEF Restart, TypeOK, Stages
  <2> QED
    BY <1>1, <2>1, <2>2 DEF Restart, TypeOK, counters
<1>5. RowsAreTaken'
  <2>1. \A r \in Rows : owner'[r] # None =>
            owner[r] \in Updates /\ owner'[r] = owner[r] /\ pc'[owner[r]] = pc[owner[r]]
    BY <1>1, <1>2, <1>3 DEF TypeOK, Of
  <2> QED
    BY <2>1 DEF IInv, RowsAreTaken
<1>6. BlockedInOwn' /\ ExitIsSilent' /\ StreakIsSilent'
  <2>1. \A q \in Procs : q # p => blocked'[q] = blocked[q] /\ silent'[q] = silent[q]
                                  /\ streak'[q] = streak[q] /\ marker'[q] = marker[q]
    BY <1>1 DEF Restart, TypeOK
  <2>2. blocked'[p] = None /\ silent'[p] = 0 /\ streak'[p] = 0
    BY <1>1 DEF Restart, TypeOK
  <2>3. \A q \in Procs : blocked'[q] \in Updates =>
            q # p /\ blocked'[q] = blocked[q] /\ ProcOf[blocked[q]] = q
    BY <2>1, <2>2 DEF IInv, BlockedInOwn
  <2>4. BlockedInOwn'
    BY <1>2, <2>3 DEF IInv, BlockedInOwn
  <2>5. ExitIsSilent' /\ StreakIsSilent'
    BY <2>1, <2>2 DEF IInv, ExitIsSilent, StreakIsSilent
  <2> QED
    BY <2>4, <2>5
<1> QED
  BY <1>4, <1>5, <1>6 DEF IInv

LEMMA ExitKeeps ==
    ASSUME IInv, NEW p \in Procs, WatchdogExit(p) \/ ExitUnblocked(p)
    PROVE  IInv'
<1>1. CASE Restart(p)
  BY <1>1, RestartKeeps
<1>2. CASE ~Restart(p)
  <2>1. /\ blocked' = [blocked EXCEPT ![p] = "watchdog"] /\ NewStreak(p) >= Limit
        /\ UNCHANGED <<handlers, hung, watchdog, counters>> /\ TypeOK
    BY <1>2 DEF WatchdogExit, ExitUnblocked, IInv
  <2>2. silent[p] >= Limit - 1
    BY <2>1, LimitIsSilent
  <2>3. TypeOK'
    BY <2>1 DEF TypeOK, handlers, watchdog, counters, Beats
  <2> QED
    BY <2>1, <2>2, <2>3, Constants
       DEF IInv, StreakIsSilent, ExitIsSilent, RowsAreTaken, BlockedInOwn, TypeOK, handlers, watchdog
<1> QED
  BY <1>1, <1>2

LEMMA StepKeeps ==
    ASSUME IInv, [Next]_vars
    PROVE  IInv'
<1>1. CASE \E u \in Updates : Begin(u)
  BY <1>1, BeginKeeps
<1>2. CASE \E u \in Updates :
         TrackScreen(u) \/ Resume(u) \/ CommitAndGoOn(u) \/ Finish(u) \/ Fail(u)
  BY <1>2, HandlerKeeps
<1>3. CASE \E p \in Procs : RefreshHeartbeat(p) \/ RefreshUnblocked(p) \/ Hang(p)
  BY <1>3, RefreshKeeps
<1>4. CASE \E p \in Procs : Check(p) \/ WatchdogExit(p) \/ ExitUnblocked(p)
  BY <1>4, CheckKeeps, ExitKeeps
<1>5. CASE UNCHANGED vars
  BY <1>5 DEF vars, watchdog, counters, handlers, IInv, TypeOK, StreakIsSilent, ExitIsSilent,
     RowsAreTaken, BlockedInOwn
<1> QED
  BY <1>1, <1>2, <1>3, <1>4, <1>5 DEF Next

\* The invariant holds in every state of every run.
THEOREM Invariance == Spec => []IInv
<1>1. Init => IInv
  BY InitIInv
<1>2. IInv /\ [Next]_vars => IInv'
  BY StepKeeps
<1> QED
  BY <1>1, <1>2, PTL DEF Spec

\* Type correctness of handlers, rows, loops and watchdogs.
THEOREM TypeCorrect == Spec => []TypeOK
<1>1. IInv => TypeOK
  BY DEF IInv
<1> QED
  BY <1>1, Invariance, PTL

\* The watchdog ends a process only when its checks saw no update handled,
\* also when its last write had to wait for the row.
THEOREM RestartsAreSilent == Spec => RestartOnlyWhenSilent
<1> DEFINE Silent == \A p \in Procs : WatchdogExit(p) \/ ExitUnblocked(p) => silent[p] >= Limit - 1
<1>1. ASSUME IInv
      PROVE  Silent
  BY <1>1, LimitIsSilent DEF WatchdogExit, ExitUnblocked, IInv, ExitIsSilent
<1>2. Spec => [][Silent]_vars
  BY <1>1, Invariance, PTL DEF Spec
<1> QED
  BY <1>2 DEF RestartOnlyWhenSilent

-----------------------------------------------------------------------------
(* Circles.                                                                *)

\* A task in which a loop waits has no row of a chat locked, and no row at
\* all when it waits for the heartbeat.
LEMMA WaitersHold ==
    ASSUME IInv, NEW p \in Procs, blocked[p] \in Updates, NEW r \in Rows, owner[r] = blocked[p]
    PROVE  r = Heartbeat /\ Wanted(blocked[p]) \in Chats
<1> USE Constants
<1>1. owner[r] # None /\ pc[owner[r]] \in {"arriving", "writing"}
  BY DEF IInv, BlockedInOwn
<1>2. r = Heartbeat /\ pc[blocked[p]] = "writing"
  BY <1>1 DEF IInv, RowsAreTaken, Rows
<1> QED
  BY <1>2 DEF Wanted, NextRow, Beats

\* Loops that wait for each other for ever need a process in which another
\* handler than the one that waits has a row locked.  Otherwise the second
\* loop of the circle waits for rows of a chat, and the third, whose handler
\* has these, waits for nothing.
THEOREM CirclesOverlap == Spec => []CirclesNeedOverlap
<1>1. ASSUME IInv
      PROVE  CirclesNeedOverlap
  <2> USE Constants
  <2> SUFFICES ASSUME NEW S \in SUBSET Procs, S # {}, InCircle(S),
                      \A p \in S, u \in Updates, r \in Rows :
                          ~(u \in Of(p) /\ owner[r] = u /\ blocked[p] # u)
               PROVE  FALSE
    BY DEF CirclesNeedOverlap
  <2>1. ASSUME NEW p \in S
        PROVE  /\ Wanted(blocked[p]) \in Rows /\ Holder(p) \in Updates
               /\ ProcOf[Holder(p)] \in S /\ blocked[ProcOf[Holder(p)]] = Holder(p)
    <3>1. blocked[p] \in Updates \cup Beats
      BY <1>1, <2>1 DEF InCircle, LoopFree, IInv, TypeOK
    <3>2. Wanted(blocked[p]) \in Rows
      BY <3>1 DEF Wanted, NextRow
    <3>3. Holder(p) \in Updates /\ ProcOf[Holder(p)] \in S
      BY <1>1, <2>1, <3>2 DEF InCircle, Holder, IInv, TypeOK
    <3> QED
      BY <3>2, <3>3 DEF Of, Holder
  <2>2. PICK p \in S : TRUE
    OBVIOUS
  <2> DEFINE q == ProcOf[Holder(p)]
             s == ProcOf[Holder(q)]
  <2>3. q \in S /\ s \in S /\ q \in Procs /\ s \in Procs
    BY <2>1
  <2>4. Wanted(blocked[q]) \in Chats
    BY <1>1, <2>1, <2>3, WaitersHold DEF Holder
  <2>5. Wanted(blocked[q]) = Heartbeat
    <3>1. blocked[s] = Holder(q) /\ blocked[s] \in Updates
      BY <2>1, <2>3
    <3>2. owner[Wanted(blocked[q])] = blocked[s] /\ Wanted(blocked[q]) \in Rows
      BY <2>1, <2>3, <3>1 DEF Holder
    <3> QED
      BY <1>1, <2>3, <3>1, <3>2, WaitersHold
  <2> QED
    BY <2>4, <2>5
<1> QED
  BY <1>1, Invariance, PTL
=============================================================================
