----------------------------- MODULE Automations -----------------------------
(***************************************************************************)
(* The life of an automation rule: app/services/automations.py, and the    *)
(* pages of app/bot/navigation.py that operate on it.                      *)
(*                                                                         *)
(* A rule is simulated, a request for approval is filed, an owner or an    *)
(* admin decides it, the rule is activated, run, paused, resumed, retired. *)
(* Each operation happens while a page is shown.  The runner keeps its     *)
(* effect only when the page counts as an action; any other page is drawn  *)
(* in a session of its own that is rolled back.  Kept names the operations *)
(* whose effect is kept, so the module describes the services under a      *)
(* caller that commits as well as under the runner.                        *)
(*                                                                         *)
(* Rules do not interact: there is one.  Every built-in rule and every     *)
(* draft made in Telegram has a mutating action, so it needs an approval.  *)
(* Handlers exclude each other (WorkerLoop), so an operation is one step;  *)
(* one that raises PermissionError leaves no trace but the audit log.      *)
(***************************************************************************)
EXTENDS Integers, Sequences

CONSTANTS
    None,           \* no approver
    Ttl,            \* hours a simulation or a request lasts, in ticks
    Kept,           \* routes whose effect is committed
    MaxSims,        \* bound: simulations
    MaxApprovals    \* bound: requests for approval

\* Roles that hold manage_automations.
Actors == {"owner", "admin", "manager"}

\* The routes of _ACTION_ROUTE_PARTS among the pages of a rule, its
\* simulations and its approvals.
ActionRoutes == {"activate", "approve", "pause", "reject", "resume"}

Routes == ActionRoutes \cup {"simulate", "request_approval", "retire", "run_now"}

ASSUME AutomationAssumption ==
    /\ None \notin Actors
    /\ Ttl \in Nat \ {0} /\ MaxSims \in Nat /\ MaxApprovals \in Nat
    /\ Kept \subseteq Routes

VARIABLES
    ownerOnly,      \* risk high or critical, or requires_owner_approval
    db,             \* the tables: [status, approver, sims, approvals]
    shown           \* the tables as the last screen was drawn from them

vars == <<ownerOnly, db, shown>>

RuleStatuses == {"draft", "simulated", "pending_approval", "approved", "active",
                 "paused", "retired", "failed"}

Draft == [status |-> "draft", approver |-> None, sims |-> <<>>, approvals |-> <<>>]

Init ==
    /\ ownerOnly \in BOOLEAN
    /\ db = Draft
    /\ shown = Draft

\* _approval_allowed
MayDecide(u) == u = "owner" \/ (u = "admin" /\ ~ownerOnly)

\* latest_valid_simulation finds one.
Simulated(d) ==
    \E s \in DOMAIN d.sims : d.sims[s].status = "succeeded" /\ d.sims[s].left > 0

\* A page is pressed: the screen is drawn from what the operation made of the
\* tables, and the tables keep it when the route is an action.
Press(route, d) ==
    /\ shown' = d
    /\ db' = IF route \in Kept THEN d ELSE db
    /\ UNCHANGED ownerOnly

-----------------------------------------------------------------------------
(* The operations.                                                         *)

Simulate ==
    /\ db.status # "retired" /\ Len(db.sims) < MaxSims
    /\ Press("simulate",
             [db EXCEPT !.sims = Append(@, [status |-> "succeeded", left |-> Ttl]),
                        !.status = IF @ = "draft" THEN "simulated" ELSE @])

\* A rule of any status, active or retired too, becomes pending.
Requested(d) ==
    [d EXCEPT !.approvals = Append(@, [status |-> "pending", left |-> Ttl, by |-> None]),
              !.status = "pending_approval"]

RequestApproval ==
    /\ Simulated(db) /\ Len(db.approvals) < MaxApprovals
    /\ Press("request_approval", Requested(db))

Approved(d, a, u) ==
    [d EXCEPT !.approvals[a].status = "approved", !.approvals[a].by = u,
              !.status = "approved", !.approver = u]

Approve(u, a) ==
    /\ db.approvals[a].status = "pending"
    /\ \/ /\ db.approvals[a].left = 0
          /\ Press("approve", [db EXCEPT !.approvals[a].status = "expired"])
       \/ /\ db.approvals[a].left > 0 /\ Simulated(db) /\ MayDecide(u)
          /\ Press("approve", Approved(db, a, u))

\* Everybody who manages automations may reject; a rule that was approved or
\* active before goes back to simulated, and its approver stays recorded.
Reject(u, a) ==
    /\ db.approvals[a].status = "pending"
    /\ Press("reject", [db EXCEPT !.approvals[a].status = "rejected",
                                  !.approvals[a].by = u,
                                  !.status = "simulated"])

\* approve_from_simulation, on a simulation of any status: files a request
\* and decides it; one who may not decide leaves the request.
ApproveSimulation(u, s) ==
    \/ /\ db.sims[s].left = 0
       /\ Press("approve", [db EXCEPT !.sims[s].status = "expired"])
    \/ /\ db.sims[s].left > 0 /\ Simulated(db) /\ Len(db.approvals) < MaxApprovals
       /\ Press("approve",
                IF MayDecide(u) THEN Approved(Requested(db), Len(db.approvals) + 1, u)
                                ELSE Requested(db))

RejectSimulation(s) ==
    Press("reject", [db EXCEPT !.sims[s].status = "rejected"])

\* A variant of Activate: whoever paused a rule may resume it.
ActivateUnapproved(route) ==
    /\ db.status \in {"approved", "paused"}
    /\ Simulated(db)
    /\ Press(route, [db EXCEPT !.status = "active"])

\* activate_automation_rule, also under the name resume_automation_rule.
Activate(route) ==
    /\ db.status \in {"approved", "paused"}
    /\ Simulated(db)
    /\ db.approver # None
    /\ Press(route, [db EXCEPT !.status = "active"])

\* Neither looks at the status: a draft or a retired rule can be paused.
Pause == Press("pause", [db EXCEPT !.status = "paused"])

Retire == Press("retire", [db EXCEPT !.status = "retired"])

ApprovedForExecution ==
    db.approver # None \/ \E a \in DOMAIN db.approvals : db.approvals[a].status = "approved"

\* run_automation_rule: skipped or succeeded, the rule stays active; a step
\* that fails stops it.
RunNow ==
    /\ db.status = "active" /\ Simulated(db) /\ ApprovedForExecution
    /\ \E status \in {"active", "failed"} : Press("run_now", [db EXCEPT !.status = status])

\* A variant of Less1: the time left counts on below zero.
Less1Below(n) == n - 1

Less1(n) == IF n = 0 THEN 0 ELSE n - 1

Aged(d) ==
    [d EXCEPT !.sims = [s \in DOMAIN d.sims |-> [d.sims[s] EXCEPT !.left = Less1(@)]],
              !.approvals = [a \in DOMAIN d.approvals |->
                               [d.approvals[a] EXCEPT !.left = Less1(@)]]]

Tick ==
    /\ db' = Aged(db) /\ shown' = Aged(shown)
    /\ UNCHANGED ownerOnly

Next ==
    \/ Simulate \/ RequestApproval
    \/ \E u \in Actors :
         \/ \E a \in DOMAIN db.approvals : Approve(u, a) \/ Reject(u, a)
         \/ \E s \in DOMAIN db.sims : ApproveSimulation(u, s)
    \/ \E s \in DOMAIN db.sims : RejectSimulation(s)
    \/ \E route \in {"activate", "resume"} : Activate(route)
    \/ Pause \/ Retire \/ RunNow
    \/ Tick

Spec == Init /\ [][Next]_vars

-----------------------------------------------------------------------------
(* Properties.                                                             *)

SimulationRecord == [status: {"succeeded", "expired", "rejected"}, left: 0 .. Ttl]

ApprovalRecord ==
    [status: {"pending", "approved", "rejected", "expired"}, left: 0 .. Ttl,
     by: Actors \cup {None}]

Tables ==
    [status: RuleStatuses, approver: Actors \cup {None},
     sims: Seq(SimulationRecord), approvals: Seq(ApprovalRecord)]

\* Every variable keeps its type.
TypeOK ==
    /\ ownerOnly \in BOOLEAN
    /\ db \in Tables /\ shown \in Tables

\* A rule that is active, on whatever detour of pauses, rejections, expired
\* requests and approvals from a simulation, has an approved request behind
\* it, decided by the recorded approver: the owner when the risk is high.
ActiveWasApproved ==
    /\ db.status = "active" => db.approver # None
    /\ db.approver # None =>
         \E a \in DOMAIN db.approvals :
           /\ db.approvals[a].status = "approved"
           /\ db.approvals[a].by = db.approver
           /\ ownerOnly => db.approver = "owner"

\* "Simulations write automation_simulation_runs": a simulation that a screen
\* shows is in the table.
SimulationsWritten == Len(shown.sims) <= Len(db.sims)
=============================================================================
