--------------------------- MODULE DecisionMemory ---------------------------
(***************************************************************************)
(* What the COO pages remember of one decision: the resolvers, the         *)
(* adjustments by memory and by quality, and the events of                 *)
(* app/services/decision_engine.py with the suppression of                 *)
(* app/services/decision_quality.py.                                       *)
(*                                                                         *)
(* Every generation sees the evidence anew, lets the resolvers speak and   *)
(* decides whether the decision is listed and whether it can wait.  The    *)
(* owner's feedback goes to the decision on top; a page that is no action  *)
(* is rolled back, so that its generation leaves nothing behind.           *)
(***************************************************************************)
EXTENDS Integers, Sequences

CONSTANTS
    Categories,     \* the categories followed
    Versions,       \* distinct wordings of the evidence
    NoMemory

VARIABLES
    category,       \* of the decision
    memory,         \* its row of decision_memories
    seen,           \* the evidence of the last page
    listed          \* the last page listed the decision

vars == <<category, memory, seen, listed>>

Severities == {"none", "needs_review", "needs_attention", "critical"}

Outcomes == {"shown", "acted_on", "stale", "dismissed", "resolved"}

Lifecycles == {"active", "opened", "in_progress", "waiting_for_evidence", "dismissed", "resolved"}

\* healthy: what the resolver of the category takes for a solution;
\* restore: the latest restore test behind a verified backup.
Evidence ==
    [severity : Severities, healthy : BOOLEAN, version : Versions,
     restore : {"none", "verified_only", "passed"}]

\* What each category may find (generate_decisions): a problem is never
\* healthy, and calm is healthy except where the resolver asks for more.
Possible(c) ==
    {e \in Evidence :
        /\ e.severity # "none" => ~e.healthy
        /\ c # "recovery" => e.restore = "none"
        /\ CASE c = "recovery" -> e.severity = "none" => e.healthy
             [] c = "telegram_bot" -> e.severity \in {"none", "critical"}
             [] c = "notification" -> e.severity = "none" => e.healthy
             [] c = "navigation" -> TRUE
             [] c = "platform_connection" -> e.severity \in {"none", "needs_attention"} /\ ~e.healthy
             [] c = "opportunity" -> e.severity \in {"none", "needs_review"} /\ ~e.healthy}

Init ==
    /\ category \in Categories
    /\ memory = NoMemory
    /\ seen \in {e \in Possible(category) : e.severity = "none"}
    /\ listed = FALSE

-----------------------------------------------------------------------------
(* A generation.                                                           *)

\* _adjust_score
Adjusted(score, delta) ==
    LET sum == score + delta IN IF sum > 100 THEN 100 ELSE IF sum < 0 THEN 0 ELSE sum

\* What solves a problem of each category is worth.
Worth == IF category \in {"recovery", "telegram_bot"} THEN 20 ELSE 15

\* A variant of Resolver: a problem that only needs a review is solved.
ResolverOfReviews(m, e) ==
    IF m = NoMemory \/ e.severity \notin {"none", "needs_review"} THEN m
    ELSE [m EXCEPT !.outcome = "resolved", !.lifecycle = "resolved"]

\* apply_decision_resolvers
Resolver(m, e) ==
    IF m = NoMemory \/ m.lifecycle \in {"resolved", "dismissed"} THEN m
    ELSE IF e.healthy
    THEN [m EXCEPT !.outcome = "resolved", !.lifecycle = "resolved",
                   !.useful = Adjusted(@, Worth)]
    ELSE IF e.restore # "none"
    THEN [m EXCEPT !.outcome = "acted_on", !.useful = Adjusted(@, 12),
                   !.lifecycle = IF e.restore = "passed" THEN "in_progress"
                                 ELSE "waiting_for_evidence"]
    ELSE IF category = "platform_connection"
    THEN [m EXCEPT !.lifecycle = "waiting_for_evidence"]
    ELSE m

\* _apply_memory_adjustments skips it.
Settled(m) ==
    \/ m.lifecycle = "resolved"
    \/ /\ m.outcome = "resolved"
       /\ ~(category = "platform_connection" /\ m.lifecycle \in {"dismissed", "waiting_for_evidence"})

\* The score where the code falls back to 50 on 0.
Usefulness(m) == IF m.useful = 0 THEN 50 ELSE m.useful

CanWait(m, e) ==
    \/ category \in {"notification", "navigation"} /\ e.severity = "needs_review"
    \/ /\ category = "platform_connection" /\ m # NoMemory
       /\ m.lifecycle \in {"dismissed", "waiting_for_evidence"}

\* evidence_version
Version(e) == <<e.severity, e.version>>

\* should_suppress_duplicate
Duplicate(m, e) ==
    /\ category \notin {"recovery", "telegram_bot"}
    /\ m.version = Version(e)
    /\ \/ m.lifecycle = "dismissed"
       \/ m.outcome \in {"dismissed", "stale"} /\ Usefulness(m) < 45
       \/ CanWait(m, e) /\ m.outcome = "stale"

\* A critical decision is never hidden.
Hidden(m, e) == m # NoMemory /\ e.severity # "critical" /\ (Settled(m) \/ Duplicate(m, e))

Listed(m, e) == e.severity # "none" /\ ~Hidden(m, e)

\* The version of the evidence that adjust_decisions notes.
Noted(m, e) == IF m # NoMemory /\ Listed(m, e) THEN [m EXCEPT !.version = Version(e)] ELSE m

-----------------------------------------------------------------------------
(* Events: record_decision_memory_event.                                   *)

\* get_or_create_decision_memory
Row(m) ==
    IF m = NoMemory
    THEN [outcome |-> "shown", lifecycle |-> "active", useful |-> 50, version |-> <<>>]
    ELSE m

Actions == {"shown", "helpful", "not_helpful", "remind_later", "learn_from_this", "dismissed"}

Delta(action) ==
    CASE action = "helpful" -> 12
      [] action = "not_helpful" -> -12
      [] action = "remind_later" -> -2
      [] action = "learn_from_this" -> 6
      [] action = "dismissed" -> -18
      [] OTHER -> 0

Moved(m, action) ==
    CASE action = "shown" ->
           IF m.outcome \in {"dismissed", "resolved"} THEN m
           ELSE [m EXCEPT !.outcome = "shown", !.lifecycle = "active"]
      [] action = "dismissed" -> [m EXCEPT !.outcome = "dismissed", !.lifecycle = "dismissed"]
      [] action = "remind_later" -> [m EXCEPT !.outcome = "stale", !.lifecycle = "waiting_for_evidence"]
      [] OTHER -> [m EXCEPT !.lifecycle = IF @ = "active" THEN "opened" ELSE @]

Recorded(m, action) ==
    [Moved(m, action) EXCEPT !.useful = Adjusted(Usefulness(m), Delta(action))]

-----------------------------------------------------------------------------
(* Pages.                                                                  *)

Generate(e) == Noted(Resolver(memory, e), e)

\* generate_coo_briefing: the decision is shown when it is among the first
\* five; the page may be kept or rolled back.
Briefing(e) ==
    /\ seen' = e
    /\ listed' = Listed(Resolver(memory, e), e)
    /\ \/ UNCHANGED memory
       \/ memory' = Generate(e)
       \/ listed' /\ memory' = Recorded(Row(Generate(e)), "shown")
    /\ UNCHANGED category

\* render_decision_feedback_page: the decision is on top, or another one is.
Feedback(e) ==
    LET m == Resolver(memory, e) IN
    /\ seen' = e
    /\ listed' = Listed(m, e)
    /\ \/ memory' = Generate(e)
       \/ /\ listed' /\ ~CanWait(m, e)
          /\ \E action \in Actions \ {"shown"} : memory' = Recorded(Row(Generate(e)), action)
    /\ UNCHANGED category

Next == \E e \in Possible(category) : Briefing(e) \/ Feedback(e)

Spec == Init /\ [][Next]_vars

-----------------------------------------------------------------------------
(* Properties.                                                             *)

\* Type correctness: the memory is a legal row of decision_memories.
TypeOK ==
    /\ category \in Categories /\ seen \in Possible(category) /\ listed \in BOOLEAN
    /\ memory # NoMemory =>
         memory \in [outcome : Outcomes, lifecycle : Lifecycles, useful : 0 .. 100,
                     version : (Severities \X Versions) \cup {<<>>}]

\* "Critical safety issues cannot be hidden only because they were ignored or
\* dismissed", nor by a resolution of long ago or by their old evidence.
CriticalIsListed == seen.severity = "critical" => listed

\* "Resolved requires proof from the relevant system record or health check":
\* no word of the owner and no page makes a memory resolved.
ResolvedByEvidence ==
    [][memory' # NoMemory /\ memory'.lifecycle = "resolved"
         => seen'.healthy \/ (memory # NoMemory /\ memory.lifecycle = "resolved")]_vars

\* A dismissal lasts, whatever the evidence and however often the decision is
\* shown, until the owner asks to be reminded.
DismissalLasts ==
    [][memory # NoMemory /\ memory.lifecycle = "dismissed"
         => \/ memory'.lifecycle = "dismissed"
            \/ memory'.lifecycle = "waiting_for_evidence" /\ memory'.outcome = "stale"]_vars

\* The memory of decisions is fair: a critical decision is listed whatever is
\* remembered, resolutions need evidence, and dismissals last.
MemoryIsFair == []CriticalIsListed /\ ResolvedByEvidence /\ DismissalLasts
=============================================================================
