------------------------------ MODULE Autopilot ------------------------------
(***************************************************************************)
(* The workflows of app/services/autonomous_operations.py: each autopilot  *)
(* finds the open workflow of its source or begins one, writes what its    *)
(* checks find as actions, and sums them up in the workflow's status.      *)
(*                                                                         *)
(* What a check finds depends on records kept elsewhere and is chosen      *)
(* freely; an action once completed is never written again.  One source of *)
(* one type is followed, since workflows of different sources never meet.  *)
(***************************************************************************)
EXTENDS Naturals, Sequences

CONSTANTS
    Types,          \* the workflow types followed
    MaxFlows        \* bound on the workflows of the source

VARIABLES
    type,           \* workflow_type
    flows,          \* operations_workflows of the source, oldest first
    followed        \* a follow-up of the source is pending

vars == <<type, flows, followed>>

\* What the checks of each autopilot may find, in the order of its actions;
\* checks that find the same are followed by one of them.
AccountFindings ==
    [assign_proxy : {"ready", "completed"},
     complete_auth_setup : {"ready", "completed"},
     check_manager_assignment : {"ready", "completed"},
     confirm_account_readiness : {"blocked", "completed"}]

ModelFindings ==
    [set_country : {"ready", "completed"}, assign_manager : {"ready", "completed"}]

OpportunityFindings ==
    [generate_strategy_and_score : {"skipped", "completed"},
     recommend_assignee : {"ready", "completed"},
     track_result : {"ready", "completed"}]

CreatorFindings ==
    [validate_niche : {"ready", "completed"}, suggest_strategy_category : {"completed"}]

ReadinessFindings ==
    [update_readiness_score : {"completed"}, route_setup_gaps : {"ready", "completed"}]

DailyFindings ==
    [truth_reconciliation : {"failed", "completed"}, readiness_scan : {"failed", "completed"}]

Findings(t) ==
    CASE t = "account" -> AccountFindings
      [] t = "model" -> ModelFindings
      [] t = "opportunity" -> OpportunityFindings
      [] t = "creator" -> CreatorFindings
      [] t = "readiness" -> ReadinessFindings
      [] t = "daily" -> DailyFindings

\* An account is confirmed only with a proxy and a connection; a manager is
\* not asked for.
Consistent(t, new) ==
    t = "account" /\ new.confirm_account_readiness = "completed" =>
        new.assign_proxy = "completed" /\ new.complete_auth_setup = "completed"

\* The checks after which a follow-up is wanted.
FollowUpWanted(t, new) ==
    CASE t = "account" -> new.confirm_account_readiness = "blocked"
      [] t = "model" -> \E c \in DOMAIN new : new[c] = "ready"
      [] t = "opportunity" -> new.track_result = "ready"
      [] OTHER -> FALSE

Init ==
    /\ type \in Types
    /\ flows = <<>>
    /\ followed = FALSE

-----------------------------------------------------------------------------
\* _workflow_status
Summary(actions) ==
    LET found == {actions[c] : c \in DOMAIN actions} IN
    IF "ready" \in found THEN "ready"
    ELSE IF "blocked" \in found THEN "blocked"
    ELSE IF "failed" \in found THEN "failed"
    ELSE "completed"

OpenStatuses == {"ready", "blocked"}

\* A variant of Open: a failed workflow is taken up again.
OpenOrFailed == {i \in DOMAIN flows : flows[i].status \in OpenStatuses \cup {"failed"}}

Open == {i \in DOMAIN flows : flows[i].status \in OpenStatuses}

\* The newest open workflow, or a new one: get_or_create_workflow.
Current ==
    IF Open = {} THEN Len(flows) + 1 ELSE CHOOSE i \in Open : \A j \in Open : j <= i

\* add_or_update_action, check by check
Written(old, new) ==
    [c \in DOMAIN new |-> IF old[c] = "completed" THEN old[c] ELSE new[c]]

\* One run of the autopilot, finalize_workflow included.
Run ==
    \E new \in Findings(type) :
        LET i == Current
            actions == IF i > Len(flows) THEN new ELSE Written(flows[i].actions, new)
            flow == [actions |-> actions, status |-> Summary(actions)]
        IN
        /\ Consistent(type, new)
        /\ i <= MaxFlows
        /\ flows' = IF i > Len(flows) THEN Append(flows, flow) ELSE [flows EXCEPT ![i] = flow]
        /\ followed' = (followed \/ FollowUpWanted(type, new))
        /\ UNCHANGED type

Next == Run

Spec == Init /\ [][Next]_vars

-----------------------------------------------------------------------------
(* Properties.                                                             *)

\* Type correctness of the workflows, their actions and the follow-up
\* (models/autonomous_operations.py).
TypeOK ==
    /\ type \in Types
    /\ Len(flows) <= MaxFlows
    /\ \A i \in DOMAIN flows :
         /\ flows[i].actions \in Findings(type)
         /\ flows[i].status \in OpenStatuses \cup {"failed", "completed"}
    /\ followed \in BOOLEAN

\* However often an autopilot runs, and whatever it finds in between, one
\* workflow of the source at most is open, and it is the newest.
OneOpenFlow ==
    \A i \in DOMAIN flows : flows[i].status \in OpenStatuses => i = Len(flows)

\* Runs only add to what was achieved: a completed action stays completed and
\* a finished workflow is never written again.
AchievedIsKept ==
    [][\A i \in DOMAIN flows :
          /\ flows[i].status \notin OpenStatuses => flows'[i] = flows[i]
          /\ \A c \in DOMAIN flows[i].actions :
               flows[i].actions[c] = "completed" => flows'[i].actions[c] = "completed"]_vars

\* Repeated runs keep their workflows: one open workflow of a source, and
\* nothing that was achieved is undone (services/autonomous_operations.py).
FlowsAreKept == []OneOpenFlow /\ AchievedIsKept
=============================================================================
