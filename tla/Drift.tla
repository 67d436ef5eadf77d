-------------------------------- MODULE Drift --------------------------------
(***************************************************************************)
(* The plans and findings of app/services/agency_drift.py for one kind of  *)
(* plan: pages add plans and change their status, reporters compare the    *)
(* active ones with the evidence.                                          *)
(*                                                                         *)
(* Reporters are the sessions that build the command center: each compares *)
(* twice, for drift_score_pressure and for drift_attention_item, and       *)
(* commits at its end.  Until then only it sees its rows; a row it changed *)
(* is written when it commits, whatever others made of it meanwhile.  (The *)
(* row locks of the database may delay a writer; what it read before it    *)
(* waited stands.)  A page reads, writes and commits at once.              *)
(***************************************************************************)
EXTENDS Naturals, Sequences

CONSTANTS
    Followed,       \* the kinds of plan followed
    Reporters,
    Committed,      \* everyone sees the row
    Gone,           \* the row was rolled back
    Idle,
    MaxPlans,       \* bound on the plans of the kind
    MaxFindings     \* bound on their findings

VARIABLES
    plan_key,       \* starter_key or template_key of the plans followed
    plans,          \* agency_plans: their status and who sees them
    findings,       \* agency_drift_findings
    drafts,         \* what each reporter has still to do and to write
    overtaken       \* plans a reporter wrote about after others had

vars == <<plan_key, plans, findings, drafts, overtaken>>

\* What the comparison of a plan that was made from a template may find, with
\* the status its finding gets: AgencyDriftEngine._evaluate_manual_plan.
ManualGaps ==
    {<<"visibility_gap_no_manual_record", "needs_review">>, <<"expected_activity_stale", "active">>}

\* And of each kind: AgencyDriftEngine._evaluate_recovery, .._reliability,
\* .._selftest, .._command_verification and .._visibility.
Gaps(key) ==
    CASE key = "backup_freshness" ->
           {<<"backup_evidence_missing", "active">>, <<"backup_stale", "active">>,
            <<"full_restore_proof_missing", "needs_review">>}
      [] key = "reliability_check" ->
           {<<"reliability_active_issue", "active">>,
            <<"reliability_non_blocking_note", "needs_review">>}
      [] key = "selftest_health" ->
           {<<"selftest_failed", "active">>, <<"selftest_recent_evidence_missing", "needs_review">>}
      [] key = "command_verification" -> {<<"command_verification_missing", "needs_review">>}
      [] key = "agency_visibility" ->
           {<<"agency_visibility_gap", "needs_review">>, <<"agency_visibility_stale", "needs_review">>}
      [] OTHER -> ManualGaps

StarterKeys ==
    {"backup_freshness", "reliability_check", "selftest_health", "command_verification",
     "agency_visibility"}

Keys == StarterKeys \cup {"posting"}

Init ==
    /\ plan_key \in Followed
    /\ plans = <<>>
    /\ findings = <<>>
    /\ drafts = [r \in Reporters |-> Idle]
    /\ overtaken = {}

-----------------------------------------------------------------------------
(* What a session sees.                                                    *)

\* A variant of OpenStatuses: what needs a review is not open.
OpenStatusesButReview == {"active", "reappeared"}

\* ACTIVE_FINDING_STATUSES
OpenStatuses == {"active", "needs_review", "reappeared"}

Seen(row, r) == row.by \in {Committed, r}

\* The status of a finding as the reporter left it.
StatusFor(r, i) ==
    IF drafts[r].marks[i] = "none" THEN findings[i].status ELSE drafts[r].marks[i]

OpenFor(r, p) ==
    {i \in DOMAIN findings :
        /\ findings[i].plan = p /\ Seen(findings[i], r)
        /\ StatusFor(r, i) \in OpenStatuses}

OpenAs(r, p, gap) == {i \in OpenFor(r, p) : findings[i].gap = gap}

ClosedAs(r, p, gap) ==
    {i \in DOMAIN findings :
        /\ findings[i].plan = p /\ findings[i].gap = gap /\ Seen(findings[i], r)
        /\ StatusFor(r, i) = "resolved"}

Resolved(finding) == [finding EXCEPT !.status = "resolved", !.stamped = TRUE]

Live == {"active", "paused"}

-----------------------------------------------------------------------------
(* Reporters.                                                              *)

Unmarked == [i \in 1..MaxFindings |-> "none"]

NoDraft == [pass |-> 1, todo |-> {}, marks |-> Unmarked, met |-> {}]

\* ensure_default_drift_plans: there is neither an active plan of the kind
\* nor a paused one.
Missing(r) ==
    /\ plan_key \in StarterKeys
    /\ \A p \in DOMAIN plans : Seen(plans[p], r) => plans[p].status \notin Live

PlansFor(r) == IF Missing(r) THEN Append(plans, [status |-> "active", by |-> r]) ELSE plans

\* _active_plans
ActiveFor(r) == {p \in DOMAIN PlansFor(r) : PlansFor(r)[p].status = "active" /\ Seen(PlansFor(r)[p], r)}

Compare(r, draft) ==
    /\ Len(PlansFor(r)) <= MaxPlans
    /\ plans' = PlansFor(r)
    /\ drafts' = [drafts EXCEPT ![r] = [draft EXCEPT !.todo = ActiveFor(r)]]
    /\ UNCHANGED <<plan_key, findings, overtaken>>

\* build_command_center_report: drift_score_pressure
Begin(r) ==
    /\ drafts[r] = Idle
    /\ Compare(r, NoDraft)

Compared(r) == drafts[r] # Idle /\ drafts[r].todo = {}

\* and drift_attention_item, in the same session.
Again(r) ==
    /\ Compared(r) /\ drafts[r].pass = 1
    /\ Compare(r, [drafts[r] EXCEPT !.pass = 2])

Working(r) == drafts[r] # Idle /\ drafts[r].todo # {}

\* The plan compared next: the oldest that is left.
Due(r) == CHOOSE p \in drafts[r].todo : \A q \in drafts[r].todo : p <= q

\* _upsert_finding, where no finding of the gap is open: a new one.
FindNew(r, gap, status) ==
    /\ Working(r)
    /\ Len(findings) < MaxFindings
    /\ OpenAs(r, Due(r), gap) = {}
    /\ findings' = Append(findings,
           [plan |-> Due(r), gap |-> gap, stamped |-> FALSE, by |-> r,
            status |-> IF status = "active" /\ ClosedAs(r, Due(r), gap) # {}
                       THEN "reappeared" ELSE status])
    /\ drafts' = [drafts EXCEPT ![r].todo = @ \ {Due(r)}]
    /\ UNCHANGED <<plan_key, plans, overtaken>>

\* _upsert_finding, where one is: it gets the status of today.  A row of its
\* own is changed at once, another one when it commits.
FindAgain(r, i, status) ==
    /\ Working(r)
    /\ i \in OpenAs(r, Due(r), findings[i].gap)
    /\ \A j \in OpenAs(r, Due(r), findings[i].gap) : j <= i
    /\ findings' = IF findings[i].by = r THEN [findings EXCEPT ![i].status = status] ELSE findings
    /\ drafts' = [drafts EXCEPT ![r].todo = @ \ {Due(r)},
                                ![r].marks[i] = IF findings[i].by = r \/ StatusFor(r, i) = status
                                                THEN @ ELSE status]
    /\ UNCHANGED <<plan_key, plans, overtaken>>

\* _resolve_findings_for_plan: nothing was found.
FindNothing(r) ==
    /\ Working(r)
    /\ findings' = [i \in DOMAIN findings |->
                      IF i \in OpenFor(r, Due(r)) /\ findings[i].by = r THEN Resolved(findings[i])
                      ELSE findings[i]]
    /\ drafts' = [drafts EXCEPT ![r].todo = @ \ {Due(r)},
                                ![r].marks = [i \in 1..MaxFindings |->
                                    IF i \in OpenFor(r, Due(r)) /\ findings[i].by # r THEN "resolved"
                                    ELSE @[i]]]
    /\ UNCHANGED <<plan_key, plans, overtaken>>

\* safe_generate: an error takes back what the session has written.
Fail(r) ==
    /\ drafts[r] # Idle
    /\ plans' = [p \in DOMAIN plans |->
                   IF plans[p].by = r THEN [plans[p] EXCEPT !.by = Gone] ELSE plans[p]]
    /\ findings' = [i \in DOMAIN findings |->
                      IF findings[i].by = r THEN [findings[i] EXCEPT !.by = Gone] ELSE findings[i]]
    /\ drafts' = [drafts EXCEPT ![r] = [NoDraft EXCEPT !.pass = drafts[r].pass]]
    /\ UNCHANGED <<plan_key, overtaken>>

\* The plans a reporter writes about.
Wrote(r) ==
    {findings[i].plan : i \in {j \in DOMAIN findings : findings[j].by = r \/ drafts[r].marks[j] # "none"}}

\* A finding when the reporter has committed.
Written(r, i) ==
    IF findings[i].by = r THEN [findings[i] EXCEPT !.by = Committed]
    ELSE IF drafts[r].marks[i] = "resolved" THEN Resolved(findings[i])
    ELSE [findings[i] EXCEPT !.status = StatusFor(r, i)]

\* The others learn that somebody wrote about the plans ps.
Met(ds, ps) == [r \in Reporters |-> IF ds[r] = Idle THEN Idle ELSE [ds[r] EXCEPT !.met = @ \cup ps]]

\* refresh_command_center_score_snapshots, and the handler of a page that
\* shows the command center.
Commit(r) ==
    /\ Compared(r) /\ drafts[r].pass = 2
    /\ plans' = [p \in DOMAIN plans |->
                   IF plans[p].by = r THEN [plans[p] EXCEPT !.by = Committed] ELSE plans[p]]
    /\ findings' = [i \in DOMAIN findings |-> Written(r, i)]
    /\ drafts' = Met([drafts EXCEPT ![r] = Idle], Wrote(r))
    /\ overtaken' = overtaken \cup (drafts[r].met \cap Wrote(r))
    /\ UNCHANGED plan_key

-----------------------------------------------------------------------------
(* Pages.                                                                  *)

\* create_manual_plan_from_template
AddPlan ==
    /\ plan_key \notin StarterKeys
    /\ Len(plans) < MaxPlans
    /\ \A p \in DOMAIN plans : plans[p].by = Committed => plans[p].status \notin Live
    /\ plans' = Append(plans, [status |-> "active", by |-> Committed])
    /\ UNCHANGED <<plan_key, findings, drafts, overtaken>>

\* set_plan_status: Pause and Mark Complete resolve what everyone sees open.
Close(p, status) ==
    /\ plans[p].by = Committed
    /\ plans' = [plans EXCEPT ![p].status = status]
    /\ findings' = [i \in DOMAIN findings |->
                      IF /\ findings[i].plan = p /\ findings[i].by = Committed
                         /\ findings[i].status \in OpenStatuses
                      THEN Resolved(findings[i]) ELSE findings[i]]
    /\ drafts' = Met(drafts, {p})
    /\ overtaken' = overtaken \ {p}
    /\ UNCHANGED plan_key

\* set_plan_status: Resume, of whatever became of the plan.
Resume(p) ==
    /\ plans[p].by = Committed
    /\ plans' = [plans EXCEPT ![p].status = "active"]
    /\ UNCHANGED <<plan_key, findings, drafts, overtaken>>

-----------------------------------------------------------------------------
Next ==
    \/ \E r \in Reporters : Begin(r)
    \/ \E r \in Reporters : Again(r)
    \/ \E r \in Reporters, v \in Gaps(plan_key) : FindNew(r, v[1], v[2])
    \/ \E r \in Reporters, v \in Gaps(plan_key), i \in DOMAIN findings :
          findings[i].gap = v[1] /\ FindAgain(r, i, v[2])
    \/ \E r \in Reporters : FindNothing(r)
    \/ \E r \in Reporters : Fail(r)
    \/ \E r \in Reporters : Commit(r)
    \/ AddPlan
    \/ \E p \in DOMAIN plans, s \in {"paused", "completed"} : Close(p, s)
    \/ \E p \in DOMAIN plans : Resume(p)

Spec == Init /\ [][Next]_vars

-----------------------------------------------------------------------------
(* Properties.                                                             *)

FindingStatuses == {"active", "needs_review", "reappeared", "resolved"}
AllGaps == UNION {Gaps(key) : key \in Keys}

Plan == [status : Live \cup {"completed"}, by : Reporters \cup {Committed, Gone}]

Finding ==
    [plan : 1..MaxPlans, gap : {v[1] : v \in AllGaps}, status : FindingStatuses,
     stamped : BOOLEAN, by : Reporters \cup {Committed, Gone}]

Draft ==
    [pass : {1, 2}, todo : SUBSET (1..MaxPlans), met : SUBSET (1..MaxPlans),
     marks : [1..MaxFindings -> FindingStatuses \cup {"none"}]]

\* Type correctness of plans, findings and drafts (models/agency_drift.py).
TypeOK ==
    /\ plan_key \in Followed
    /\ plans \in Seq(Plan) /\ Len(plans) <= MaxPlans
    /\ findings \in Seq(Finding) /\ Len(findings) <= MaxFindings
    /\ drafts \in [Reporters -> Draft \cup {Idle}]
    /\ overtaken \subseteq 1..MaxPlans

\* The findings everyone sees of a plan are in order: open ones only while the
\* plan is active, one at most of each gap, and open are those without a date
\* of resolution.
InOrder(p) ==
    LET mine == {i \in DOMAIN findings : findings[i].plan = p /\ findings[i].by = Committed}
        open == {i \in mine : findings[i].status \in OpenStatuses}
    IN
    /\ open # {} => plans[p].status = "active"
    /\ \A i, j \in open : findings[i].gap = findings[j].gap => i = j
    /\ \A i \in mine : findings[i].stamped <=> i \notin open

\* Paused plans generate no drift (docs/codex_context.md), nothing is reported
\* twice, and what is resolved stays so: for every plan, unless a reporter
\* wrote about it although somebody else had since it began; and then until
\* the plan is closed.
PlansAreInOrder ==
    \A p \in DOMAIN plans : plans[p].by = Committed /\ p \notin overtaken => InOrder(p)

\* Only what was resolved before can reappear, and what is resolved has a date,
\* in all interleavings.
ReturnsAreReal ==
    \A i \in DOMAIN findings : findings[i].by = Committed =>
        /\ findings[i].status = "reappeared" =>
             \E j \in 1..(i - 1) :
                /\ findings[j].plan = findings[i].plan /\ findings[j].gap = findings[i].gap
                /\ findings[j].by = Committed /\ findings[j].stamped
        /\ findings[i].status = "resolved" => findings[i].stamped

\* Everything that is seen of drift belongs to a plan that is seen.
PlansAreKnown ==
    \A i \in DOMAIN findings : findings[i].by = Committed =>
        findings[i].plan \in DOMAIN plans /\ plans[findings[i].plan].by = Committed

\* Drift is told as it is (services/agency_drift.py): of plans that are known,
\* in order as long as reporters and pages do not overtake each other, and
\* with returns that are real.
DriftIsHonest == PlansAreKnown /\ PlansAreInOrder /\ ReturnsAreReal
=============================================================================
