------------------------------- MODULE Proxies -------------------------------
(***************************************************************************)
(* The life of a proxy: app/services/proxies.py, called by the pages of    *)
(* app/bot/navigation.py and by text input.                                *)
(*                                                                         *)
(* Status and score are computed again after each test, from counters that *)
(* real, simulated and repair tests share; other operations write the      *)
(* status alone.  Pages leave archived and placeholder proxies alone,      *)
(* except to archive or delete them.  A latency is kept as the points it   *)
(* costs; the target and the detected location as whether they agree.      *)
(***************************************************************************)
EXTENDS Integers, FiniteSets

CONSTANTS
    Accounts,
    MaxTests,       \* bound on connection tests
    NoProxy

VARIABLES
    proxy,          \* the row of proxies, or NoProxy
    carriers,       \* accounts it is assigned to
    shelved         \* archived accounts

vars == <<proxy, carriers, shelved>>

Penalties == {0, 12, 25}

ProxyRow ==
    [status : {"healthy", "warning", "critical", "disabled"}, score : 0 .. 100,
     archived : BOOLEAN, placeholder : BOOLEAN, real : BOOLEAN, history : BOOLEAN,
     target : BOOLEAN, located : BOOLEAN, penalty : Penalties,
     tests : Nat, failures : Nat, successes : Nat, mismatches : Nat]

Init == proxy = NoProxy /\ carriers = {} /\ shelved = {}

Exists == proxy # NoProxy

\* What the pages may work on.
Usable == Exists /\ ~proxy.archived /\ ~proxy.placeholder

-----------------------------------------------------------------------------
(* Health.                                                                 *)

AtLeast0(n) == IF n < 0 THEN 0 ELSE n

\* calculate_proxy_health; no rotation of the application fails.
Score(row) ==
    IF row.status = "disabled" THEN 0
    ELSE AtLeast0(100 - (IF row.tests = 0 THEN 0 ELSE (row.failures * 45) \div row.tests)
                      - row.penalty
                      - 10 * (IF row.mismatches > 4 THEN 4 ELSE row.mismatches))

Class(score) ==
    IF score >= 80 THEN "healthy" ELSE IF score >= 50 THEN "warning" ELSE "critical"

\* A variant of Synced: a check brings a disabled proxy back.
SyncedAlways(row) == [row EXCEPT !.score = Score(row), !.status = Class(Score(row))]

\* _sync_proxy_health
Synced(row) ==
    [row EXCEPT !.score = Score(row),
                !.status = IF @ = "disabled" THEN @ ELSE Class(Score(row))]

\* record_proxy_test
Tested(row, ok, located, penalty) ==
    Synced([row EXCEPT
        !.tests = @ + 1, !.history = TRUE,
        !.successes = IF ok THEN @ + 1 ELSE @,
        !.failures = IF ok THEN @ ELSE @ + 1,
        !.mismatches = IF ok /\ ~located THEN @ + 1 ELSE @,
        !.located = located, !.penalty = penalty])

\* rotate_session with the result the pages hand to it, which is a success
\* at the target.
Rotated(row) == Synced([row EXCEPT !.located = TRUE, !.penalty = 0, !.history = TRUE])

\* run_simulated_proxy_check
Simulated(row) == Tested(row, TRUE, TRUE, row.penalty)

Room(n) == Exists => proxy.tests + n <= MaxTests

-----------------------------------------------------------------------------
(* Operations.                                                             *)

Keep == UNCHANGED <<carriers, shelved>>

\* create_proxy, from the wizard or from a pasted string, whose host may read
\* like a placeholder.
Create ==
    /\ ~Exists
    /\ \E target, placeholder \in BOOLEAN :
         proxy' = [status |-> "healthy", score |-> 100, archived |-> FALSE,
                   placeholder |-> placeholder, real |-> FALSE, history |-> FALSE,
                   target |-> target, located |-> ~target, penalty |-> 0,
                   tests |-> 0, failures |-> 0, successes |-> 0, mismatches |-> 0]
    /\ Keep

SimulatedCheck ==
    /\ Usable /\ Room(1)
    /\ proxy' = Simulated(proxy)
    /\ Keep

\* run_real_proxy_check; skipped, but written down, unless it was enabled.
RealCheck ==
    /\ Usable /\ Room(1)
    /\ \/ ~proxy.real /\ proxy' = [proxy EXCEPT !.history = TRUE]
       \/ proxy.real /\ proxy' = Tested(proxy, FALSE, proxy.located, 0)
       \/ \E located \in BOOLEAN, penalty \in Penalties :
            /\ proxy.real /\ (proxy.target \/ located)
            /\ proxy' = Tested(proxy, TRUE, located, penalty)
    /\ Keep

SetRealChecks ==
    /\ Usable
    /\ \E real \in BOOLEAN : proxy' = [proxy EXCEPT !.real = real]
    /\ Keep

\* rotate_olympix_session and verify_location_with_rotation
Rotate ==
    /\ Usable
    /\ proxy' = Rotated(proxy)
    /\ Keep

\* repair_proxy, as the page calls it: a failed test, a rotation, a test that
\* succeeds.
Repair ==
    /\ Usable /\ Room(2)
    /\ proxy' = Tested(Rotated(Tested(proxy, FALSE, proxy.located, 0)), TRUE, TRUE, 0)
    /\ Keep

\* update_proxy_location_target, by text: archived proxies too.
Retarget ==
    /\ Exists
    /\ \E located \in BOOLEAN : proxy' = [proxy EXCEPT !.target = TRUE, !.located = located]
    /\ Keep

Disable ==
    /\ Usable
    /\ proxy' = [proxy EXCEPT !.status = "disabled"]
    /\ Keep

Reactivate ==
    /\ Usable
    /\ proxy' = [proxy EXCEPT !.status = "warning"]
    /\ Keep

Archived(row) == [row EXCEPT !.archived = TRUE, !.status = "disabled"]

Archive ==
    /\ Exists
    /\ proxy' = Archived(proxy)
    /\ Keep

Deleted == proxy' = NoProxy /\ carriers' = {} /\ UNCHANGED shelved

\* accounts_for_proxy
Assigned == carriers \ shelved

Delete ==
    /\ Exists /\ Assigned = {}
    /\ Deleted

\* cleanup_placeholder_proxies
CleanUp ==
    /\ Exists /\ proxy.placeholder /\ ~proxy.archived
    /\ IF carriers # {} \/ proxy.history THEN proxy' = Archived(proxy) /\ Keep
       ELSE Deleted

\* assign_proxy_to_account, which also makes a simulated check.
Assign(a) ==
    /\ Usable /\ Room(1)
    /\ carriers' = carriers \cup {a}
    /\ proxy' = Simulated(proxy)
    /\ UNCHANGED shelved

\* remove_proxy_from_account
Remove(a) ==
    /\ a \in carriers
    /\ carriers' = carriers \ {a}
    /\ UNCHANGED <<proxy, shelved>>

\* archive_account: it keeps its proxy.
ArchiveAccount(a) ==
    /\ shelved' = shelved \cup {a}
    /\ UNCHANGED <<proxy, carriers>>

-----------------------------------------------------------------------------
Next ==
    \/ Create
    \/ SimulatedCheck
    \/ RealCheck
    \/ SetRealChecks
    \/ Rotate
    \/ Repair
    \/ Retarget
    \/ Disable
    \/ Reactivate
    \/ Archive
    \/ Delete
    \/ CleanUp
    \/ \E a \in Accounts : Assign(a) \/ Remove(a) \/ ArchiveAccount(a)

Spec == Init /\ [][Next]_vars

-----------------------------------------------------------------------------
(* Properties.                                                             *)

\* Type correctness of the row, and the check constraint on its score
\* (models/proxy.py).
TypeOK ==
    /\ proxy \in ProxyRow \cup {NoProxy}
    /\ carriers \subseteq Accounts /\ shelved \subseteq Accounts

\* Whatever the order of checks, rotations, disabling and reactivation, a
\* proxy shown as healthy has a score that says so, and one shown as critical
\* has not; only a warning may stand for any score, after a reactivation.
StatusFitsScore ==
    Exists => /\ proxy.status = "healthy" => proxy.score >= 80
              /\ proxy.status = "critical" => proxy.score < 50

\* A proxy that was archived stays out of use: no check, repair, assignment
\* or reactivation from an old page brings it back.
ArchivedStaysDisabled == Exists /\ proxy.archived => proxy.status = "disabled"

\* A disabled proxy is put back into use by its reactivation only, though
\* checks, rotations and repairs go on.
DisabledUntilReactivated ==
    [][Exists /\ Exists' /\ proxy.status = "disabled" /\ proxy'.status # "disabled"
         => proxy'.status = "warning" /\ proxy'.tests = proxy.tests]_vars

\* No deletion takes the proxy away from under an account in use.
NoAccountLosesProxy == [][Exists /\ ~Exists' => carriers \subseteq shelved]_vars

\* A proxy is used as its page shows it: its status says what its score says,
\* what is archived or disabled stays out of use until it is reactivated, and
\* no account in use loses its proxy (services/proxies.py).
UseAsShown ==
    /\ []StatusFitsScore /\ []ArchivedStaysDisabled
    /\ DisabledUntilReactivated /\ NoAccountLosesProxy
=============================================================================
