---------------------------- MODULE Opportunities ----------------------------
(***************************************************************************)
(* The queue of work of app/services/opportunities.py: work begun by hand, *)
(* from one watch (a creator or an own post) or by an alert of it, its     *)
(* results, and what services/learning.py and opportunity_prediction.py    *)
(* remember of them.                                                       *)
(*                                                                         *)
(* The operations are those of the services, under a caller that commits;  *)
(* each runs in one transaction.  Scores, texts and notifications are left *)
(* out: no operation reads them to decide what to write here.              *)
(***************************************************************************)
EXTENDS Naturals, Sequences, FiniteSets

CONSTANTS
    Chatters, NoChatter,
    Priorities,
    MaxWork,        \* bound on the opportunities
    MaxActs         \* bound on what people do: work begun without an alert,
                    \* results, predictions and changes by hand

VARIABLES
    able,           \* chatters whose account is active
    watch,          \* the creator_watches or post_watches row
    queue,          \* opportunities, oldest first
    alerts,         \* creator_post_alerts or own_post_alerts of the watch
    results,        \* opportunity_results
    predicted,      \* how many opportunity_predictions each opportunity has
    outcomes,       \* outcome_memories: 0 is the watch, n is opportunity n
    proven,         \* outcome_memories of each prediction
    acts

vars == <<able, watch, queue, alerts, results, predicted, outcomes, proven, acts>>

Works == 1..MaxWork
Counters == {"occurrences", "success", "failure", "partial", "ignored"}
NoOutcomes == [c \in Counters |-> 0]
Statuses == {"discovered", "reviewing", "approved", "assigned", "completed", "rejected", "archived"}
ResultStatuses == {"not_posted", "posted", "skipped", "failed", "rejected"}

Watches ==
    [kind : {"creator", "own_post"}, priority : Priorities, alert : Priorities,
     chatter : Chatters \cup {NoChatter}]

\* create_creator_watch, create_post_watch: the alerts of a creator are as
\* urgent as the creator; an own post may be given a priority beside the one
\* its attention level stands for.
Init ==
    /\ able = Chatters
    /\ watch \in Watches
    /\ watch.kind = "creator" => watch.alert = watch.priority
    /\ queue = <<>> /\ alerts = <<>> /\ results = <<>>
    /\ predicted = [w \in Works |-> 0]
    /\ outcomes = [w \in 0..MaxWork |-> NoOutcomes]
    /\ proven = [w \in Works |-> [n \in 1..MaxActs |-> NoOutcomes]]
    /\ acts = 0

-----------------------------------------------------------------------------
(* Helpers.                                                                *)

\* update_outcome_memory: an outcome that is not known is only an occurrence.
Learned(memory, outcome) ==
    [c \in Counters |-> memory[c] + (IF c \in {"occurrences", outcome} THEN 1 ELSE 0)]

\* Only active users can be assigned opportunities.
MayHold(c) == c \in able \cup {NoChatter}

\* create_manual_opportunity, with the score its autopilot gives.
Begun(source, priority, chatter) ==
    [source |-> source, priority |-> priority, assignee |-> chatter, done |-> FALSE,
     status |-> IF chatter = NoChatter THEN "reviewing" ELSE "assigned"]

\* A variant of Scored: whatever is scored is up for review.
ScoredForReview(work) == [work EXCEPT !.status = "reviewing"]

\* score_opportunity
Scored(work) == [work EXCEPT !.status = IF @ = "discovered" THEN "reviewing" ELSE @]

\* The priority of the follow-up task: tasks know no critical one.
TaskPriority(priority) == IF priority = "critical" THEN "high" ELSE priority

\* capture_opportunity_result
Outcome(status, fruitful) ==
    IF fruitful THEN "success"
    ELSE IF status = "failed" THEN "failure"
    ELSE IF status = "skipped" THEN "partial"
    ELSE IF status = "rejected" THEN "ignored"
    ELSE "unknown"

\* update_prediction_learning_from_result
PredictionOutcome(status, fruitful) ==
    IF fruitful THEN "success"
    ELSE IF status \in {"skipped", "rejected"} THEN "ignored"
    ELSE "partial"

\* The statuses that best_opportunity_prediction looks at.
OpenWork ==
    {w \in DOMAIN queue : queue[w].status \in {"discovered", "reviewing", "approved", "assigned"}}

Room == Len(queue) < MaxWork
Act == acts < MaxActs /\ acts' = acts + 1

-----------------------------------------------------------------------------
(* The watch and the people.                                               *)

\* A user is disabled or comes back.
ChangeAccess(c) ==
    /\ Act
    /\ able' = IF c \in able THEN able \ {c} ELSE able \cup {c}
    /\ UNCHANGED <<watch, queue, alerts, results, predicted, outcomes, proven>>

\* assign_creator_watch looks at no account.
AssignCreator(c) ==
    /\ Act
    /\ watch.kind = "creator"
    /\ watch' = [watch EXCEPT !.chatter = c]
    /\ UNCHANGED <<able, queue, alerts, results, predicted, outcomes, proven>>

\* assign_post_watch does.
AssignPost(c) ==
    /\ Act
    /\ watch.kind = "own_post" /\ c \in able
    /\ watch' = [watch EXCEPT !.chatter = c]
    /\ UNCHANGED <<able, queue, alerts, results, predicted, outcomes, proven>>

\* update_creator_watch: the priority of its alerts stays.
UpdateWatch(priority) ==
    /\ Act
    /\ watch.kind = "creator"
    /\ watch' = [watch EXCEPT !.priority = priority]
    /\ UNCHANGED <<able, queue, alerts, results, predicted, outcomes, proven>>

-----------------------------------------------------------------------------
(* Work.                                                                   *)

\* Guided intake.
Create(priority, chatter) ==
    /\ Room /\ Act
    /\ MayHold(chatter)
    /\ queue' = Append(queue, Begun("manual", priority, chatter))
    /\ UNCHANGED <<able, watch, alerts, results, predicted, outcomes, proven>>

\* create_opportunity_from_creator, create_opportunity_from_post
CreateFromWatch ==
    /\ Room /\ Act
    /\ MayHold(watch.chatter)
    /\ queue' = Append(queue, Begun(watch.kind, watch.priority, watch.chatter))
    /\ UNCHANGED <<able, watch, alerts, results, predicted, outcomes, proven>>

\* create_creator_post_alert, create_own_post_alert
Alerted ==
    /\ queue' = Append(queue, Begun(watch.kind, watch.alert, watch.chatter))
    /\ alerts' = Append(alerts,
           [work |-> Len(queue) + 1, priority |-> watch.alert, status |-> "new",
            task |-> IF watch.kind = "own_post" THEN TaskPriority(watch.alert) ELSE "none"])
    /\ outcomes' = [outcomes EXCEPT ![0] = Learned(@, "unknown")]

Alert ==
    /\ Room
    /\ MayHold(watch.chatter)
    /\ Alerted
    /\ UNCHANGED <<able, watch, results, predicted, proven, acts>>

\* An own post is alerted by someone who may not create tasks: the message
\* says that nothing was created, and the work is committed without its alert.
AlertRefused ==
    /\ Room
    /\ MayHold(watch.chatter)
    /\ watch.kind = "own_post"
    /\ queue' = Append(queue, Begun(watch.kind, watch.alert, watch.chatter))
    /\ UNCHANGED <<able, watch, alerts, results, predicted, outcomes, proven, acts>>

\* mark_creator_post_alert_reviewed, mark_own_post_alert_reviewed
ReviewAlert(i) ==
    /\ Act
    /\ alerts' = [alerts EXCEPT ![i].status = "reviewed"]
    /\ UNCHANGED <<able, watch, queue, results, predicted, outcomes, proven>>

\* The score button of one opportunity.
Score(w) ==
    /\ queue' = [queue EXCEPT ![w] = Scored(@)]
    /\ UNCHANGED <<able, watch, alerts, results, predicted, outcomes, proven, acts>>

\* run_opportunity_scoring
ScoreAll ==
    /\ queue' = [w \in DOMAIN queue |->
                   IF queue[w].status \in {"discovered", "reviewing"} THEN Scored(queue[w])
                   ELSE queue[w]]
    /\ UNCHANGED <<able, watch, alerts, results, predicted, outcomes, proven, acts>>

\* assign_opportunity: any user, whatever became of the work.
Assign(w, c) ==
    /\ Act
    /\ queue' = [queue EXCEPT ![w].assignee = c, ![w].status = "assigned"]
    /\ UNCHANGED <<able, watch, alerts, results, predicted, outcomes, proven>>

\* update_opportunity_status: completed_at is set and never taken back.
SetStatus(w, status) ==
    /\ Act
    /\ queue' = [queue EXCEPT ![w].status = status, ![w].done = @ \/ status = "completed"]
    /\ UNCHANGED <<able, watch, alerts, results, predicted, outcomes, proven>>

-----------------------------------------------------------------------------
(* Results and predictions.                                                *)

\* What a result makes of the work.
Reported(work, status) ==
    IF status = "posted" THEN [work EXCEPT !.status = "completed", !.done = TRUE]
    ELSE IF status = "rejected" THEN [work EXCEPT !.status = "rejected"]
    ELSE IF status \in {"skipped", "failed"} THEN [work EXCEPT !.status = "reviewing"]
    ELSE work

\* record_opportunity_result: fruitful says that a post brought clicks or
\* conversions.
Record(w, status, fruitful) ==
    /\ Act
    /\ fruitful => status = "posted"
    /\ queue' = [queue EXCEPT ![w] = Reported(@, status)]
    /\ results' = Append(results,
           [work |-> w, status |-> status, fruitful |-> fruitful, prediction |-> predicted[w]])
    /\ outcomes' = [outcomes EXCEPT ![w] = Learned(@, Outcome(status, fruitful))]
    /\ proven' = IF predicted[w] = 0 THEN proven
                 ELSE [proven EXCEPT ![w][predicted[w]] =
                         Learned(@, PredictionOutcome(status, fruitful))]
    /\ UNCHANGED <<able, watch, alerts, predicted>>

\* predict_opportunity for each work of ws.
Predicted(ws) ==
    /\ Act
    /\ predicted' = [w \in Works |-> predicted[w] + (IF w \in ws THEN 1 ELSE 0)]
    /\ outcomes' = [w \in 0..MaxWork |->
                      IF w \in ws THEN Learned(outcomes[w], "partial") ELSE outcomes[w]]
    /\ UNCHANGED <<able, watch, queue, alerts, results, proven>>

\* best_opportunity_prediction: all open work, of which five at most.
PredictBest == OpenWork # {} /\ Predicted(OpenWork)

\* The details page predicts work that no prediction is there for.
PredictDetails(w) == predicted[w] = 0 /\ Predicted({w})

-----------------------------------------------------------------------------
Next ==
    \/ \E c \in Chatters : ChangeAccess(c)
    \/ \E c \in Chatters : AssignCreator(c)
    \/ \E c \in Chatters : AssignPost(c)
    \/ \E p \in Priorities : UpdateWatch(p)
    \/ \E p \in Priorities, c \in Chatters \cup {NoChatter} : Create(p, c)
    \/ CreateFromWatch
    \/ Alert
    \/ AlertRefused
    \/ \E i \in DOMAIN alerts : ReviewAlert(i)
    \/ \E w \in DOMAIN queue : Score(w)
    \/ ScoreAll
    \/ \E w \in DOMAIN queue, c \in Chatters : Assign(w, c)
    \/ \E w \in DOMAIN queue, s \in Statuses : SetStatus(w, s)
    \/ \E w \in DOMAIN queue, s \in ResultStatuses, fruitful \in BOOLEAN : Record(w, s, fruitful)
    \/ PredictBest
    \/ \E w \in DOMAIN queue : PredictDetails(w)

Spec == Init /\ [][Next]_vars

-----------------------------------------------------------------------------
(* Properties.                                                             *)

Work ==
    [source : {"manual", "creator", "own_post"}, priority : Priorities,
     assignee : Chatters \cup {NoChatter}, done : BOOLEAN, status : Statuses]

\* Type correctness of the queue, its alerts, results and memories
\* (models/opportunity.py, models/learning.py).
TypeOK ==
    /\ able \subseteq Chatters
    /\ watch \in Watches
    /\ queue \in Seq(Work) /\ Len(queue) <= MaxWork
    /\ alerts \in Seq([work : Works, priority : Priorities, status : {"new", "reviewed"},
                       task : {TaskPriority(p) : p \in Priorities} \cup {"none"}])
    /\ results \in Seq([work : Works, status : ResultStatuses, fruitful : BOOLEAN,
                        prediction : 0..MaxActs])
    /\ predicted \in [Works -> 0..MaxActs]
    /\ outcomes \in [0..MaxWork -> [Counters -> Nat]]
    /\ proven \in [Works -> [1..MaxActs -> [Counters -> Nat]]]
    /\ acts \in 0..MaxActs

Of(w) == {i \in DOMAIN results : results[i].work = w}
OfStatus(w, status) == {i \in Of(w) : results[i].status = status}
Fruitful(w) == {i \in Of(w) : results[i].fruitful}

\* The memory of an opportunity is its history, however results, predictions
\* and changes by hand alternate: every result and every prediction of it is
\* counted once, under what it was.  The memory of a prediction counts the
\* results that came in while it was the latest.
ResultsAreRemembered ==
    \A w \in Works :
        /\ outcomes[w]["occurrences"] = Cardinality(Of(w)) + predicted[w]
        /\ outcomes[w]["success"] = Cardinality(Fruitful(w))
        /\ outcomes[w]["failure"] = Cardinality(OfStatus(w, "failed"))
        /\ outcomes[w]["partial"] = Cardinality(OfStatus(w, "skipped")) + predicted[w]
        /\ outcomes[w]["ignored"] = Cardinality(OfStatus(w, "rejected"))
        /\ \A n \in 1..MaxActs :
             proven[w][n]["occurrences"] = Cardinality({i \in Of(w) : results[i].prediction = n})

\* An alert has work of its own, as urgent as the alert itself, whatever the
\* priority of the watch is, and an own post a task as well.
AlertsAreWhole ==
    /\ \A i \in DOMAIN alerts :
         /\ alerts[i].work \in DOMAIN queue
         /\ queue[alerts[i].work].source = watch.kind
         /\ queue[alerts[i].work].priority = alerts[i].priority
         /\ alerts[i].task = IF watch.kind = "own_post" THEN TaskPriority(alerts[i].priority) ELSE "none"
    /\ \A i, j \in DOMAIN alerts : alerts[i].work = alerts[j].work => i = j

\* Completed work, and work that a post was reported of, has its completion
\* date, whatever became of it later.
EndsAreDated ==
    /\ \A w \in DOMAIN queue : queue[w].status = "completed" => queue[w].done
    /\ \A i \in DOMAIN results : results[i].status = "posted" => queue[results[i].work].done

Ended(work) == work.status \in {"completed", "rejected", "archived"}

\* Work ends, and is taken up again, by people only: by a result of it or by
\* hand.  Scoring, alerts and predictions never do either.
PeopleDecide ==
    [][\A w \in DOMAIN queue :
         Ended(queue'[w]) # Ended(queue[w]) =>
            \/ acts' > acts /\ results' = results /\ predicted' = predicted
            \/ Len(results') > Len(results) /\ results'[Len(results')].work = w]_vars

\* The books of the queue agree: memories with results and predictions, alerts
\* with work and tasks, completion with its date, and nobody but people ends work.
BooksAgree ==
    /\ [](ResultsAreRemembered /\ AlertsAreWhole /\ EndsAreDated)
    /\ PeopleDecide
=============================================================================
