----------------------------- MODULE MCServices -----------------------------
(***************************************************************************)
(* The services that keep records, the supervisor and a reader of the      *)
(* screens, explored one at a time: part says whose operations are taken,  *)
(* and the tables of the others stay as they start.                        *)
(***************************************************************************)
EXTENDS TeamAccess, ProxySessions, AccountDesk, Supervisor, Naturals, Sequences, FiniteSets

CONSTANTS
    Kinds, MaxPrompts, NoEntry,
    Accounts, MaxTests, NoProxy,
    Types, MaxFlows,
    Pages, Scanned, Announced, Limits, MaxTime,
    Categories, Versions, NoMemory,
    Rates, Domains, MaxPressure, MaxChanges,
    Threads, Truths, Pressures, Ttl, Nothing,
    Chatters, NoChatter, Priorities, MaxWork, MaxActs,
    Followed, Reporters, Committed, Gone, Idle, MaxPlans, MaxFindings

VARIABLES
    part,
    pending, asked, rendered, latest, text, saved,
    proxy, carriers, shelved,
    type, flows, followed,
    now, errors, success, recs, shown,
    category, recalled, seen, listed,
    evidence, changes,
    truth, pressure, cache, work, newest, disturbed,
    reader, place, keyboard, fate, leaving,
    able, watch, queue, alerts, results, predicted, outcomes, proven, acts,
    plan_key, plans, findings, drafts, overtaken

\* Truths of the instance: a percentage and the wording of its evidence, twice.
MCTruths == {<<50, 1>>, <<60, 1>>}

I == INSTANCE TextInput
P == INSTANCE Proxies
W == INSTANCE Autopilot
F == INSTANCE FailureReview
D == INSTANCE DecisionMemory WITH memory <- recalled
L == INSTANCE LiveScores
C == INSTANCE ScoreReports
B == INSTANCE Browsing
O == INSTANCE Opportunities
G == INSTANCE Drift

parts == {"team", "text", "proxy", "session", "account", "autopilot", "failures",
          "decisions", "supervisor", "scores", "reports", "pages", "opportunities", "drift"}

input == <<pending, asked, rendered, latest, text, saved>>
proxies == <<proxy, carriers, shelved>>
workflows == <<type, flows, followed>>
failures == <<now, errors, success, recs, shown>>
decisions == <<category, recalled, seen, listed>>
scores == <<evidence, changes>>
reports == <<truth, pressure, cache, work, newest, disturbed>>
browsing == <<reader, place, keyboard, fate, leaving>>
opportunities == <<able, watch, queue, alerts, results, predicted, outcomes, proven, acts>>
drift == <<plan_key, plans, findings, drafts, overtaken>>

vars == <<part, teamVars, input, proxies, rotationVars, signInVars, workflows, failures, decisions,
          parentVars, scores, reports, browsing, opportunities, drift>>

\* Where a part may start in several ways, the others are explored beside one.
Init ==
    /\ part \in parts
    /\ TeamInit /\ I!Init /\ P!Init /\ RotationInit /\ SignInInit /\ F!Init
    /\ W!Init
    /\ part # "autopilot" => type = "daily"
    /\ D!Init
    /\ part # "decisions" => category = "recovery" /\ seen.restore = "none"
    /\ ParentInit
    /\ part # "supervisor" => env = CHOOSE e \in Environments : TRUE
    /\ C!Init
    /\ part # "reports" => truth = CHOOSE t \in Truths : TRUE
    /\ L!Init
    /\ part # "scores" => evidence.active = 0
    /\ B!Init
    /\ part # "pages" => reader = "Viewer" /\ keyboard = CHOOSE k \in B!render_main_menu("Viewer") : TRUE
    /\ O!Init
    /\ part # "opportunities" => watch = CHOOSE w \in O!Watches : TRUE
    /\ G!Init
    /\ part # "drift" => plan_key = CHOOSE k \in Followed : TRUE

\* The parts with most to choose from come last, where the others are settled.
Next ==
    /\ UNCHANGED part
    /\ \/ part = "session" /\ RotationNext
       \/ part # "session" /\ UNCHANGED rotationVars
    /\ \/ part = "autopilot" /\ W!Next
       \/ part # "autopilot" /\ UNCHANGED workflows
    /\ \/ part = "account" /\ SignInNext
       \/ part # "account" /\ UNCHANGED signInVars
    /\ \/ part = "supervisor" /\ ParentNext
       \/ part # "supervisor" /\ UNCHANGED parentVars
    /\ \/ part = "scores" /\ L!Next
       \/ part # "scores" /\ UNCHANGED scores
    /\ \/ part = "pages" /\ B!Next
       \/ part # "pages" /\ UNCHANGED browsing
    /\ \/ part = "opportunities" /\ O!Next
       \/ part # "opportunities" /\ UNCHANGED opportunities
    /\ \/ part = "proxy" /\ P!Next
       \/ part # "proxy" /\ UNCHANGED proxies
    /\ \/ part = "text" /\ I!Next
       \/ part # "text" /\ UNCHANGED input
    /\ \/ part = "reports" /\ C!Next
       \/ part # "reports" /\ UNCHANGED reports
    /\ \/ part = "drift" /\ G!Next
       \/ part # "drift" /\ UNCHANGED drift
    /\ \/ part = "failures" /\ F!Next
       \/ part # "failures" /\ UNCHANGED failures
    /\ \/ part = "team" /\ TeamNext
       \/ part # "team" /\ UNCHANGED teamVars
    /\ \/ part = "decisions" /\ D!Next
       \/ part # "decisions" /\ UNCHANGED decisions

\* The supervisor promises progress (Supervisor.ParentFairness), and so does a reader who wants
\* to go back (Browsing.Fairness).
Fairness ==
    /\ WF_parentVars(part = "supervisor" /\ Steps)
    /\ WF_browsing(part = "pages" /\ leaving /\ B!Back)

Spec == Init /\ [][Next]_vars /\ Fairness

-----------------------------------------------------------------------------
(* The properties of the parts; those of the extended modules are theirs.  *)

\* Type correctness of every part: users and roles, pending inputs, proxy,
\* suffixes, sign-ins, workflows, failures, memory, supervisor, scores within
\* bounds, report cache, page, queue of work and drift.
TypeOK ==
    /\ TeamTypeOK /\ RotationTypeOK /\ SignInTypeOK /\ ParentTypeOK
    /\ CASE part = "text" -> I!TypeOK
         [] part = "proxy" -> P!TypeOK
         [] part = "autopilot" -> W!TypeOK
         [] part = "failures" -> F!TypeOK
         [] part = "decisions" -> D!TypeOK
         [] part = "scores" -> L!TypeOK
         [] part = "reports" -> C!TypeOK
         [] part = "pages" -> B!TypeOK
         [] part = "opportunities" -> O!TypeOK
         [] part = "drift" -> G!TypeOK
         [] OTHER -> TRUE

\* Answers meet the prompt they were given to (TextInput).
AnswersMeetTheirPrompt == part = "text" => I!AnswersMeetTheirPrompt

\* A proxy is used as its page shows it (Proxies), and a session that needs a
\* suffix gets one that the window has not seen (ProxySessions).
UseAsShown == P!UseAsShown /\ FreshRotation

\* Repeated runs of an autopilot keep their workflows (Autopilot).
FlowsAreKept == W!FlowsAreKept

\* The review of failures is fair (FailureReview).
ReviewIsFair == F!ReviewIsFair

\* The memory of decisions is fair (DecisionMemory).
MemoryIsFair == D!MemoryIsFair

\* The scores agree with their evidence and with each other (LiveScores).
ScoresAgree == L!ScoresAgree

\* Reports are recent and their movements real (ScoreReports).
ReportsAreRecent == C!ReportsAreRecent

\* Every rendered screen, which a working face is not, shows a way back, and a
\* proxy is archived or deleted from the page that asks for it (Browsing).
WayBack == [](part = "pages" => B!WayBack) /\ B!ConfirmedFirst

\* The books of the queue of work agree (Opportunities).
BooksAgree == O!BooksAgree

\* Drift is told as it is (Drift).
DriftIsHonest == G!DriftIsHonest

\* The owner's Back ends at home (Browsing).
BackReachesHome == (part = "pages" /\ leaving /\ reader = "Owner") ~> (keyboard.back = B!NoBack)
=============================================================================
