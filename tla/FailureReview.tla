---------------------------- MODULE FailureReview ----------------------------
(***************************************************************************)
(* What the bot holds of failing buttons: log_callback_failure and         *)
(* callback_failure_review of app/services/callbacks.py, the revalidation  *)
(* of app/services/issue_lifecycle.py, the recommendations they open and   *)
(* close, and the verification harness of app/services/reliability.py.     *)
(*                                                                         *)
(* A review calls each logged failure active, reappeared, validating or    *)
(* historical by the pages that worked since, by a boundary in time that   *)
(* all pages share, and by what a scan just found; it then resolves the    *)
(* recommendations of the pages with a historical failure.  On pages that  *)
(* are not actions the resolution is rolled back.  A scan takes the pages  *)
(* of HARNESS_COMMANDS; those with a working label are not opened, and     *)
(* pass.  The screens a scan opens hold reviews of their own, which are    *)
(* kept with it.  Time counts events.                                      *)
(***************************************************************************)
EXTENDS Naturals, Sequences, FiniteSetsExt

CONSTANTS
    Pages,
    Scanned,        \* pages a scan checks
    Announced,      \* those of them of which it only shows the working label
    Limits,         \* how many failures a review looks at: 10, 20, 50
    MaxTime         \* bound on failures, successes and verifications

VARIABLES
    now,
    errors,         \* callback_error_logs: page and created_at
    success,        \* newest succeeded callback_latency_record of a page; 0: none
    recs,           \* recommendations of type callback_failure, oldest first
    shown           \* the failures the last review called historical

vars == <<now, errors, success, recs, shown>>

Times == 1 .. MaxTime

RecStatuses == {"open", "acknowledged", "dismissed", "resolved"}

Init ==
    /\ now = 0
    /\ errors = {}
    /\ success = [p \in Pages |-> 0]
    /\ recs = <<>>
    /\ shown = {}

Pass == now < MaxTime /\ now' = now + 1

-----------------------------------------------------------------------------
(* A press that fails, and one that succeeds.                              *)

\* _find_open_recommendation
OpenFor(p) == {i \in DOMAIN recs : recs[i].page = p /\ recs[i].status = "open"}

\* log_callback_failure with its upsert_recommendation
Fail(p) ==
    /\ Pass
    /\ errors' = errors \cup {[page |-> p, at |-> now']}
    /\ recs' = IF OpenFor(p) # {} THEN recs
               ELSE Append(recs, [page |-> p, status |-> "open", revalidated |-> 0])
    /\ UNCHANGED <<success, shown>>

\* record_callback_latency with a result of succeeded
Succeed(p) ==
    /\ Pass
    /\ success' = [success EXCEPT ![p] = now']
    /\ UNCHANGED <<errors, recs, shown>>

\* update_recommendation_status, from a page that may be old
Decide(i) ==
    /\ \E status \in RecStatuses \ {"open"} : recs' = [recs EXCEPT ![i].status = status]
    /\ UNCHANGED <<now, errors, success, shown>>

-----------------------------------------------------------------------------
(* Reviews: callback_failure_review.                                       *)

Resolved == {i \in DOMAIN recs : recs[i].status = "resolved"}

\* recent_callback_errors
Recent(limit) == {e \in errors : Cardinality({f \in errors : f.at > e.at}) < limit}

\* Failures after which their page succeeded.
Overcome(seen, done) == {e \in seen : done[e.page] > e.at}

Newest(times) == Max(times \cup {0})

\* The pages that count as working, given those that a scan found to work.
WorkingPages(passed, seen, done) ==
    passed \cup {recs[i].page : i \in Resolved} \cup {e.page : e \in Overcome(seen, done)}

\* effective_revalidated_at: of a scan, else of any resolved recommendation;
\* moved on by any success that followed a failure.
Boundary(scanned, seen, done) ==
    Newest({IF scanned # 0 THEN scanned ELSE Newest({recs[i].revalidated : i \in Resolved})}
           \cup {done[e.page] : e \in Overcome(seen, done)})

\* A variant of Verdict: whatever works is history.
VerdictOfPage(e, working, failing, boundary) ==
    IF e.page \in failing THEN "active"
    ELSE IF e.page \in working /\ boundary # 0 THEN "historical" ELSE "validating"

\* classify_callback_error
Verdict(e, working, failing, boundary) ==
    IF e.page \in failing
    THEN IF boundary # 0 /\ e.at < boundary THEN "reappeared" ELSE "active"
    ELSE IF boundary # 0 /\ e.at > boundary THEN "active"
    ELSE IF boundary # 0 /\ e.page \in working THEN "historical"
    ELSE "validating"

\* resolve_callback_recommendations
Closed(fixed, boundary) ==
    [i \in DOMAIN recs |->
       IF recs[i].page \in fixed /\ recs[i].status \in {"open", "acknowledged"}
       THEN [recs[i] EXCEPT !.status = "resolved", !.revalidated = boundary]
       ELSE recs[i]]

\* The review of a scan made at time scanned, or of none (0), of the failures
\* seen with the successes known by then.
Reviewed(passed, failing, scanned, seen, done, kept) ==
    LET boundary == Boundary(scanned, seen, done)
        working == WorkingPages(passed, seen, done)
        old == {e \in seen : Verdict(e, working, failing, boundary) = "historical"}
    IN
    /\ shown' = old
    /\ recs' = IF kept THEN Closed({e.page : e \in old}, boundary) ELSE recs

Review ==
    /\ \E limit \in Limits, kept \in BOOLEAN :
         Reviewed({}, {}, 0, Recent(limit), success, kept)
    /\ UNCHANGED <<now, errors, success>>

\* run_command_verification_harness, whose effect is kept
Verify ==
    /\ Pass
    /\ \E limit \in Limits, passed \in SUBSET Scanned :
         /\ Announced \subseteq passed
         /\ success' = [p \in Pages |-> IF p \in passed THEN now' ELSE success[p]]
         /\ Reviewed(passed, Scanned \ passed, now', Recent(limit), success', TRUE)
    /\ UNCHANGED errors

Next ==
    \/ \E p \in Pages : Fail(p) \/ Succeed(p)
    \/ \E i \in DOMAIN recs : Decide(i)
    \/ Review
    \/ Verify

Spec == Init /\ [][Next]_vars

-----------------------------------------------------------------------------
(* Properties.                                                             *)

\* Type correctness of the logs, of the successes and of the recommendations.
TypeOK ==
    /\ now \in 0 .. MaxTime
    /\ errors \subseteq [page : Pages, at : Times]
    /\ success \in [Pages -> 0 .. now]
    /\ \A i \in DOMAIN recs :
         recs[i] \in [page : Pages, status : RecStatuses, revalidated : 0 .. now]
    /\ shown \subseteq errors

\* However failures, reviews and decisions from old pages follow each other,
\* a page has at most one open recommendation.
OneOpenRecommendation ==
    \A i, j \in DOMAIN recs :
        /\ recs[i].page = recs[j].page
        /\ recs[i].status = "open" /\ recs[j].status = "open"
        => i = j

\* What a review calls historical is a failure whose page worked since, or one
\* whose page was found to work before, by a recommendation or by a success
\* after an earlier failure, and since when some page worked: the boundary is
\* one for all pages.
HasGrounds(e) ==
    \/ success'[e.page] > e.at
    \/ /\ \/ \E i \in Resolved : recs[i].page = e.page
          \/ \E f \in errors : f.page = e.page /\ success'[e.page] > f.at
       /\ \E p \in Pages : success'[p] > e.at

HistoryHasGrounds == [][\A e \in shown' \ shown : HasGrounds(e)]_vars

\* "Fresh callback scan still reproduces this route failure": a scan calls no
\* failure historical of a page that it opened in vain.
ScanIsBelieved ==
    [][\A e \in shown' : e.page \in Scanned /\ success'[e.page] < now' => ~Verify]_vars

\* The review of failures is fair: a page is reviewed in one recommendation at
\* a time, history has grounds, and what a scan reproduces stays a problem.
ReviewIsFair == []OneOpenRecommendation /\ HistoryHasGrounds /\ ScanIsBelieved
=============================================================================
