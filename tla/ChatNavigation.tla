--------------------------- MODULE ChatNavigation ---------------------------
(***************************************************************************)
(* The bot's menus in one chat: app/services/chat_cleanup.py and the       *)
(* handlers of app/bot/runner.py that send, edit and delete menus.         *)
(*                                                                         *)
(* A handler holds the heartbeat row of WorkerLoop until it first commits, *)
(* so most transactions exclude each other.  What a handler does after a   *)
(* commit is not excluded: all of the owner's /start, the screen of a slow *)
(* command, a press that starts a recovery job, the fallback of a press    *)
(* that failed.  An action is one transaction; a press on a current menu   *)
(* is two actions, and any other may commit between them, also those the   *)
(* row of most presses excludes.  Telegram is not part of a transaction: a *)
(* message that was sent or deleted stays so when the handler fails and is *)
(* rolled back.                                                            *)
(*                                                                         *)
(* A handler that waits for a row another one of the process has locked    *)
(* blocks the only loop; that is WorkerLoop's subject and not a step here. *)
(* Only temporary labels occur: no code of the application tracks a        *)
(* message under a persistent one.                                         *)
(***************************************************************************)
EXTENDS Integers, FiniteSets, FiniteSetsExt

CONSTANTS
    Users,          \* users of the chat who have access
    Owner,          \* the one of them whose /start commits first
    None,           \* no user, no message
    MaxMessages,    \* bound: messages the bot sends
    MaxFailures     \* bound: Telegram calls that fail and handlers that do

ASSUME ChatAssumption ==
    /\ Owner \in Users /\ None \notin Users \cup Nat
    /\ MaxMessages \in Nat \ {0} /\ MaxFailures \in Nat

Messages == 1 .. MaxMessages

VARIABLES
    record,     \* BotChatMessage of each message, or NoRecord
    shown,      \* messages of the bot that the chat shows
    sent,       \* messages sent so far; ids grow
    plain,      \* messages sent without buttons
    cleanOn,    \* clean_on_start of each user's preference
    press,      \* the press on a current menu that is in hand, if any
    screen,     \* the last menu a completed handler gave a user (history)
    doubled,    \* users two handlers gave a menu at once (history)
    failures

chat == <<shown, sent, plain>>
history == <<screen, doubled>>
vars == <<record, chat, cleanOn, press, history, failures>>

Labels == {"temporary_navigation", "temporary_status", "temporary_error"}

\* A press that was "accepted" has its page not shown yet; one that "failed"
\* was rolled back and logged, and its fallback is not shown yet.
PressStages == {"accepted", "failed"}

\* "refused" stands for forbidden, too_old and failed, which differ in wording
\* only; "cleanup_started" is overwritten in the same transaction.
Statuses == {"active", "deleted", "already_missing", "refused"}

NoRecord == [user |-> None, label |-> "none", active |-> FALSE,
             status |-> "none", version |-> 0]

Tracked(rec) == {m \in Messages : rec[m] # NoRecord}

-----------------------------------------------------------------------------
(* chat_cleanup.py, as functions of the table.                             *)

ActiveMenus(rec) ==
    {m \in Messages : /\ rec[m].active
                      /\ rec[m].label = "temporary_navigation"
                      /\ rec[m].status = "active"}

Newest(rec, S) == {m \in S : \A n \in S : rec[n].version <= rec[m].version}

\* current_active_navigation_message: the user's own newest menu, or else
\* the chat's.  Between equal versions of several users the last update
\* decides, which is left open.
Current(rec, u) ==
    LET own == {m \in ActiveMenus(rec) : rec[m].user = u}
    IN  IF own # {} THEN Newest(rec, own) ELSE Newest(rec, ActiveMenus(rec))

MaxVersion(rec, S) == Max({rec[m].version : m \in S} \cup {0})

\* next_navigation_version, for one user or (None) for the chat.
NextVersion(rec, u) ==
    MaxVersion(rec, {m \in Tracked(rec) : u = None \/ rec[m].user = u}) + 1

\* clear_active_navigation, for one user or (None) for the chat.
Clear(rec, u) ==
    [m \in Messages |->
        IF u = None \/ rec[m].user = u THEN [rec[m] EXCEPT !.active = FALSE]
                                       ELSE rec[m]]

\* What is recorded of a menu, and of a message that is none.
MenuRecord(u, version) ==
    [user |-> u, label |-> "temporary_navigation",
     active |-> TRUE, status |-> "active", version |-> version]

StatusRecord(u, label) ==
    [user |-> u, label |-> label, active |-> FALSE, status |-> "active", version |-> 0]

\* A variant of Track: the menu that was active before stays active.
TrackBeside(rec, u, m, version) == [rec EXCEPT ![m] = MenuRecord(u, version)]

\* track_bot_message for a menu, with its version chosen by the caller.
Track(rec, u, m, version) ==
    [Clear(rec, u) EXCEPT ![m] = MenuRecord(u, version)]

\* The version track_bot_message takes when the caller gives none.
InheritedVersions(rec, u) ==
    IF Current(rec, u) = {} THEN {NextVersion(rec, u)}
    ELSE {rec[m].version : m \in Current(rec, u)}

\* A variant of IsStale: any menu of the current version will do.
IsStaleByVersion(rec, u, m) ==
    LET current == Current(rec, u)
    IN  IF current = {} THEN {TRUE} ELSE {rec[m].version # rec[c].version : c \in current}

\* classify_navigation_callback: the ways a press on m may be classified.
IsStale(rec, u, m) ==
    LET current == Current(rec, u)
    IN  IF current = {} THEN {TRUE}
        ELSE {IF rec[m] = NoRecord THEN c # m
              ELSE ~rec[m].active \/ rec[m].version # rec[c].version \/ m # c
              : c \in current}

\* temporary_cleanup_messages.
Candidates(rec) == {m \in Tracked(rec) : rec[m].status = "active"}

-----------------------------------------------------------------------------
Init ==
    /\ record = [m \in Messages |-> NoRecord]
    /\ shown = {}
    /\ sent = 0
    /\ plain = {}
    /\ cleanOn = [u \in Users |-> TRUE]
    /\ press = {}
    /\ screen = [u \in Users |-> None]
    /\ doubled = {}
    /\ failures = 0

Fails == failures < MaxFailures /\ failures' = failures + 1

Succeeds == UNCHANGED failures

CanSend(n) == sent + n <= MaxMessages

\* n messages with buttons appear.
Sends(n) ==
    /\ CanSend(n)
    /\ sent' = sent + n
    /\ shown' = shown \cup (sent + 1 .. sent + n)
    /\ UNCHANGED plain

\* A send that fails may have reached the chat.
FailsToSend ==
    /\ Fails
    /\ UNCHANGED chat \/ Sends(1)

\* Status messages of /integrity, /botstatus and /debug_last_error have
\* buttons, the working message of a slow command has none.
Pressable == shown \ plain

\* The history when the user u is given the message m as menu.
GivenScreen(u, m) == [v \in Users |-> IF v = u THEN m ELSE IF screen[v] = m THEN None ELSE screen[v]]

\* The newest n candidates: what one foreground cleanup reaches within its
\* limit and time budget.  It attempts one at least.
Batches(rec) ==
    {S \in SUBSET Candidates(rec) :
        /\ \A m \in S, n \in Candidates(rec) \ S : m > n
        /\ Candidates(rec) # {} => S # {}}

\* A variant of Cleaned: a refused deletion counts as done.
CleanedAnyway(rec, batch, refused) ==
    [m \in Messages |->
        IF m \in batch THEN [rec[m] EXCEPT !.active = FALSE, !.status = "deleted"]
        ELSE rec[m]]

\* A variant of Cleaned: the status a refused deletion began with stays.
CleanedHalf(rec, batch, refused) ==
    [m \in Messages |->
        IF m \in batch \cap refused THEN [rec[m] EXCEPT !.status = "cleanup_started"]
        ELSE IF m \in batch THEN [rec[m] EXCEPT !.active = FALSE, !.status = "deleted"]
        ELSE rec[m]]

\* The records after the deletions of one cleanup.
Cleaned(rec, batch, refused) ==
    [m \in Messages |->
        IF m \notin batch THEN rec[m]
        ELSE [rec[m] EXCEPT !.active = FALSE,
              !.status = IF m \in refused THEN "refused"
                         ELSE IF m \notin shown THEN "already_missing" ELSE "deleted"]]

\* reset_navigation_session(user=None), as the cleanup calls it.
ResetChat(rec, u) == Clear(rec, None)

\* What _cleanup_navigation_messages_on_start may do to table and chat: with
\* the preference off or the cleanup lock taken it only resets.  Telegram
\* refuses some deletions.
CleanupOutcomes(u) ==
    {[record |-> ResetChat(record, u), shown |-> shown]} \cup
    (IF ~cleanOn[u] THEN {} ELSE
     UNION {{[record |-> Cleaned(ResetChat(record, u), batch, refused),
              shown |-> shown \ (batch \ refused)]
             : refused \in SUBSET (batch \cap shown)}
            : batch \in Batches(record)})

\* The transaction of /start, /clean and the Clean button: clean up, then
\* send a fresh Home.  When that cannot be sent the handler fails and is
\* rolled back.
Menu(u) ==
    /\ \/ /\ CanSend(1) /\ Succeeds
          /\ sent' = sent + 1
          /\ \E outcome \in CleanupOutcomes(u) :
                /\ record' = Track(outcome.record, u, sent + 1, NextVersion(record, None))
                /\ shown' = outcome.shown \cup {sent + 1}
          /\ screen' = [v \in Users |-> IF v = u THEN sent + 1 ELSE None]
          /\ doubled' = {}
       \/ /\ Fails
          /\ \E outcome \in CleanupOutcomes(u) :
                \/ shown' = outcome.shown /\ UNCHANGED sent
                \/ /\ CanSend(1)
                   /\ shown' = outcome.shown \cup {sent + 1} /\ sent' = sent + 1
          /\ screen' = [v \in Users |-> None]
          /\ UNCHANGED <<record, doubled>>
    /\ UNCHANGED <<plain, cleanOn, press>>

\* A stale press: the session is reset and a fresh Home is sent.  A failing
\* send is logged and the reset is committed all the same.
StalePress(u, m) ==
    /\ m \in Pressable /\ TRUE \in IsStale(record, u, m)
    /\ \/ /\ Sends(1) /\ Succeeds
          /\ record' = Track(Clear(record, u), u, sent + 1, NextVersion(record, u))
          /\ screen' = [screen EXCEPT ![u] = sent + 1]
       \/ /\ FailsToSend
          /\ record' = Clear(record, u)
          /\ screen' = [screen EXCEPT ![u] = None]
    /\ doubled' = doubled \ {u}
    /\ UNCHANGED <<cleanOn, press>>

\* Two handlers of a user without a menu send one each: a stale press that
\* has tracked its Home and still answers the callback, and the owner's
\* /start, or the screen of a slow command, which cannot see that Home yet.
Cross(u, m) ==
    /\ CanSend(2) /\ Succeeds
    /\ m \in Pressable /\ TRUE \in IsStale(record, u, m)
    /\ \A n \in Messages : record[n].active => record[n].user # u
    /\ \E new \in {sent + 1, sent + 2} :
          LET home == 2 * sent + 3 - new
              WithHome(rec) == [rec EXCEPT ![home] = MenuRecord(u, NextVersion(record, u))]
          IN  \/ /\ u = Owner
                 /\ \E outcome \in CleanupOutcomes(u) :
                       /\ record' = WithHome(Track(outcome.record, u, new, NextVersion(record, None)))
                       /\ shown' = outcome.shown \cup {new, home}
                 /\ screen' = [v \in Users |-> None]
                 /\ doubled' = {u}
              \/ /\ record' = WithHome(Track(record, u, new, NextVersion(record, u)))
                 /\ shown' = shown \cup {new, home}
                 /\ screen' = [screen EXCEPT ![u] = None]
                 /\ doubled' = doubled \cup {u}
    /\ sent' = sent + 2
    /\ UNCHANGED <<plain, cleanOn, press>>

InHand(u, m, stage) == [user |-> u, message |-> m, stage |-> stage]

\* A press on a current menu is accepted.
PressBegins(u, m) ==
    /\ press = {}
    /\ m \in Pressable /\ FALSE \in IsStale(record, u, m)
    /\ press' = {InHand(u, m, "accepted")}
    /\ UNCHANGED <<record, chat, cleanOn, history, failures>>

\* The page is edited into the message, which becomes the user's own menu
\* even when it was sent to another user or stopped acting in the meantime.
PressShown(u, m) ==
    /\ press = {InHand(u, m, "accepted")}
    /\ \/ /\ \E version \in InheritedVersions(record, u) :
                record' = Track(record, u, m, version)
          /\ screen' = GivenScreen(u, m)
          /\ doubled' = doubled \ {u}
       \/ UNCHANGED <<record, history>>   \* "message is not modified"
    /\ press' = {}
    /\ UNCHANGED <<chat, cleanOn, failures>>

\* The edit fails: the screen is sent as a new message; a slow page does so
\* for its working screen and again for the screen itself.
PressResent(u, m) ==
    /\ press = {InHand(u, m, "accepted")}
    /\ Fails
    /\ \E n \in 1 .. 2, version \in InheritedVersions(record, u) :
          LET first == Track(record, u, sent + 1, version) IN
          /\ Sends(n)
          /\ record' = IF n = 1 THEN first ELSE Track(first, u, sent + 2, version)
          /\ screen' = [screen EXCEPT ![u] = sent + n]
    /\ doubled' = doubled \ {u}
    /\ press' = {}
    /\ UNCHANGED cleanOn

\* Rendering fails: _handle_callback_failure rolls back, logs and commits.
PressFails(u, m) ==
    /\ press = {InHand(u, m, "accepted")}
    /\ Fails
    /\ press' = {InHand(u, m, "failed")}
    /\ UNCHANGED <<record, chat, cleanOn, history>>

\* The fallback screen is edited into the message, which stops being a menu,
\* or sent as a new one, or neither; the commit in the handler's last lines
\* keeps what was tracked.
Fallback(u, m) ==
    /\ press = {InHand(u, m, "failed")}
    /\ \/ /\ record' = [record EXCEPT ![m] = StatusRecord(u, "temporary_error")]
          /\ screen' = [v \in Users |-> IF screen[v] = m THEN None ELSE screen[v]]
          /\ UNCHANGED chat
       \/ /\ Sends(1)
          /\ record' = [record EXCEPT ![sent + 1] = StatusRecord(u, "temporary_error")]
          /\ UNCHANGED screen
       \/ UNCHANGED <<record, screen, chat>>
    /\ press' = {}
    /\ UNCHANGED <<cleanOn, doubled, failures>>

\* A slow command whose acknowledgement was not sent: a status message is
\* tracked and committed before the screen is rendered.
CommandWorking(u) ==
    /\ CanSend(1)
    /\ record' = [record EXCEPT ![sent + 1] = StatusRecord(u, "temporary_status")]
    /\ shown' = shown \cup {sent + 1}
    /\ sent' = sent + 1
    /\ plain' = plain \cup {sent + 1}
    /\ UNCHANGED <<cleanOn, press, history, failures>>

\* The owner's status commands send a tracked status message with buttons;
\* the report of /selftest has buttons and is not tracked.
CommandStatus ==
    /\ Sends(1)
    /\ \/ record' = [record EXCEPT ![sent + 1] = StatusRecord(Owner, "temporary_status")]
       \/ UNCHANGED record
    /\ UNCHANGED <<cleanOn, press, history, failures>>

\* A command's screen: the user's session is reset and the screen is sent as
\* the active menu.  A failing send rolls the reset back.
CommandScreen(u) ==
    /\ \/ /\ Sends(1) /\ Succeeds
          /\ record' = Track(Clear(record, u), u, sent + 1, NextVersion(record, u))
          /\ screen' = [screen EXCEPT ![u] = sent + 1]
          /\ doubled' = doubled \ {u}
       \/ FailsToSend /\ UNCHANGED <<record, history>>
    /\ UNCHANGED <<cleanOn, press>>

ToggleCleanup(u) ==
    /\ cleanOn' = [cleanOn EXCEPT ![u] = ~@]
    /\ UNCHANGED <<record, chat, press, history, failures>>

\* Somebody deletes a message of the bot in the chat.
Vanish(m) ==
    /\ m \in shown
    /\ shown' = shown \ {m}
    /\ UNCHANGED <<record, sent, plain, cleanOn, press, history, failures>>

Next ==
    \/ \E u \in Users :
         Menu(u) \/ CommandWorking(u) \/ CommandScreen(u) \/ ToggleCleanup(u)
    \/ \E u \in Users, m \in Messages :
         \/ StalePress(u, m) \/ Cross(u, m)
         \/ PressBegins(u, m) \/ PressShown(u, m) \/ PressResent(u, m)
         \/ PressFails(u, m) \/ Fallback(u, m)
    \/ CommandStatus
    \/ \E m \in Messages : Vanish(m)

Spec == Init /\ [][Next]_vars

-----------------------------------------------------------------------------
(* Properties.                                                             *)

\* Every variable keeps its type.
TypeOK ==
    /\ record \in [Messages -> {NoRecord} \cup
                     [user: Users, label: Labels, active: BOOLEAN,
                      status: Statuses, version: Nat]]
    /\ shown \subseteq Messages /\ plain \subseteq Messages
    /\ sent \in 0 .. MaxMessages
    /\ cleanOn \in [Users -> BOOLEAN]
    /\ press \in {{}} \cup
         {{InHand(u, m, stage)} : u \in Users, m \in Messages, stage \in PressStages}
    /\ screen \in [Users -> Messages \cup {None}]
    /\ doubled \subseteq Users
    /\ failures \in 0 .. MaxFailures

\* A user never has two active menus, however presses, commands, cleanups
\* and failures of several users of the chat follow each other, unless two
\* handlers of the user crossed: then until the user's next screen.
OneActivePerUser ==
    \A m, n \in ActiveMenus(record) :
        record[m].user = record[n].user => m = n \/ record[m].user \in doubled

\* The menu a user was given last is the one whose buttons act, and no other
\* message acts for that user, until somebody cleans the chat, the user's
\* press fails, or another user's press takes the menu over.
LastScreenActs ==
    \A u \in Users : screen[u] # None =>
        \A m \in Messages : (FALSE \in IsStale(record, u, m)) <=> m = screen[u]

\* A message the table calls deleted or missing is not shown any more, even
\* when handlers failed half way and were rolled back.
RecordedDeletionIsReal ==
    \A m \in Messages : record[m].status \in {"deleted", "already_missing"} => m \notin shown

\* After a /start that crosses no other handler the chat has a single active
\* menu, the fresh one, whatever the other users had open and whichever
\* deletions Telegram refused.
StartLeavesOneMenu ==
    [][\A u \in Users :
         screen'[u] = sent + 1 /\ Menu(u)
           => ActiveMenus(record') = {sent'}]_vars

\* The active menus of each user, as the abstract specification sees them.
Acting == [u \in Users |-> {m \in ActiveMenus(record) : record[m].user = u}]

\* The press in hand, which may bring back the menu it was made on.
Pressed == {<<p.user, p.message>> : p \in press}

AM == INSTANCE ActingMenus WITH acting <- Acting, last <- sent, pressed <- Pressed

\* Menus are handed out fresh, one to a user, except where two handlers
\* cross, and none that has stopped acting acts again, neither after a
\* rolled-back cleanup nor because somebody else presses it, except through
\* a press that was accepted while it acted; only such a press takes over the
\* menu of another user; and /start leaves no other.
MenusStayRetired == AM!Spec /\ StartLeavesOneMenu

\* A user has one menu that acts: the one that was given last, and no other.
OneMenuActs == OneActivePerUser /\ LastScreenActs
=============================================================================
