------------------------------ MODULE Browsing ------------------------------
(***************************************************************************)
(* A reader at the navigation message: the handler of a pressed button     *)
(* (navigate in app/bot/runner.py) and screen_for_page behind it           *)
(* (app/bot/navigation.py). The screens and the routes are those of the    *)
(* Screens modules and of Routes; here are the order of the checks, what   *)
(* is shown when one of them refuses, and the face of a screen that fails. *)
(* The reader is an active user. The records a screen names exist or do    *)
(* not: both answers are in the set of its keyboards. What an operation    *)
(* writes is in the module of its service; here only the page it ends on   *)
(* counts.                                                                 *)
(***************************************************************************)
EXTENDS Routes

VARIABLES
    reader,     \* the role of the user
    place,      \* the page on the message
    keyboard,   \* its buttons and where Back leads
    fate,       \* how it got there
    leaving     \* the reader presses nothing but Back from now on

vars == <<reader, place, keyboard, fate, leaving>>

Fates ==
    {"screen",       \* the page, or the one its operation ends on
     "home",         \* home, because nothing knows the page
     "placeholder",  \* the empty face of a page without a screen
     "working",      \* the face of the work in hand, and no screen after it
     "error"}        \* the face of a failed or late screen

TypeOK ==
    /\ reader \in Roles
    /\ place \in page_names
    /\ keyboard.buttons \subseteq page_names
    /\ keyboard.back \in page_names \cup {NoBack}
    /\ fate \in Fates
    /\ leaving \in BOOLEAN

-----------------------------------------------------------------------------
(* One press.                                                              *)

\* Pages that first put up a face without buttons that says what is being checked.
working_screen_for_page ==
    {"coo:briefing", "today_priorities", "ai_brain:evidence", "ai_brain:coo",
     "ai_brain:opportunity", "recovery:storage:@", "reliability", "callback_failure_review",
     "button_health", "production_observability", "reliability:verify"}

NoButtons == [buttons |-> {}, back |-> NoBack]

Show(p, faces, how) ==
    /\ place' = p
    /\ keyboard' \in faces
    /\ fate' = how

ShowHome(how) == Show("menu", render_main_menu(reader), how)

\* A name that stands for another page.
Normal(b) == IF b = "dashboard:refresh" THEN "dashboard" ELSE b

\* The checks of screen_for_page; home is for everybody.
Denied(b) == b # "menu" /\ ~May(reader, Normal(b))

\* screen_for_page after its checks: the operation, then the page it ends on.
screen_for_page(b) ==
    \E p \in Lands(Normal(b)) :
        \/ /\ p = "menu"
           /\ ShowHome("screen")
        \/ /\ p \notin routed \cup {"menu"}
           /\ ShowHome("home")
        \/ /\ p \in routed \cap DOMAIN screens
           /\ Show(p, screens[p], "screen")
        \/ /\ p \in routed \ DOMAIN screens
           /\ Show(p, placeholder, "placeholder")

\* The lock is taken, the press comes again too soon, the page or its operation is refused
\* with an alert, or Telegram takes neither an edit nor a new message: the reader keeps what
\* is shown, which is the face of the work in hand if that went up first.
keep(b) ==
    \/ UNCHANGED <<place, keyboard, fate>>
    \/ /\ b \in working_screen_for_page
       /\ Show(b, {NoButtons}, "working")

\* The pages the handler does not leave to screen_for_page, nor to its checks: a menu that is
\* no longer the current one and the cleaning of old menus end on a fresh Home, and some pages
\* start work in the background.
handled_here == DOMAIN started_pages \cup {"settings:chat_cleanup:clean"}

stale_press == ShowHome("screen")

handle_here(b) ==
    \/ /\ b = "settings:chat_cleanup:clean"
       /\ ShowHome("screen")
    \/ /\ b \in DOMAIN started_pages
       /\ Show(b, started_pages[b], "screen")

\* The handler of a button.
navigate(b) ==
    \/ stale_press
    \/ keep(b)
    \/ handle_here(b)
    \/ /\ b \notin handled_here
       /\ ~Denied(b)
       /\ screen_for_page(b)

Press ==
    /\ ~leaving
    /\ \E b \in keyboard.buttons : navigate(b)
    /\ UNCHANGED <<reader, leaving>>

Back ==
    /\ keyboard.back # NoBack
    /\ navigate(keyboard.back)
    /\ UNCHANGED <<reader, leaving>>

\* A press whose handling raises or takes too long, at whatever point: its page is on the
\* message with the face of the failure.
callback_failure ==
    /\ ~leaving
    /\ \E b \in keyboard.buttons : Show(b, render_callback_error_page(b), "error")
    /\ UNCHANGED <<reader, leaving>>

\* The command /start, which needs no button.
start ==
    /\ ~leaving
    /\ ShowHome("screen")
    /\ UNCHANGED <<reader, leaving>>

Leave ==
    /\ ~leaving
    /\ keyboard.back # NoBack
    /\ leaving' = TRUE
    /\ UNCHANGED <<reader, place, keyboard, fate>>

-----------------------------------------------------------------------------

Init ==
    /\ reader \in Roles
    /\ place = "menu"
    /\ keyboard \in render_main_menu(reader)
    /\ fate = "screen"
    /\ leaving = FALSE

Next == Press \/ Back \/ callback_failure \/ start \/ Leave

\* Someone who only wants to go back keeps pressing Back.
Fairness == WF_vars(leaving /\ Back)

Spec == Init /\ [][Next]_vars /\ Fairness

-----------------------------------------------------------------------------

\* On every page the scan of the buttons opens for the owner, whatever its data, Back leads to
\* the page that navigation_stack.py names as the parent, and Main Menu is offered. These are
\* the checks of audit_buttons (app/services/button_health.py), which sees one set of data.
BackIsParent ==
    /\ reader = "Owner"
    /\ fate = "screen"
    /\ place \in smoke_pages \ {"menu", "command_center"}
    => /\ keyboard.back = parent_page_for(place)
       /\ "menu" \in keyboard.buttons

\* Every screen that is rendered, for whatever data and reader, and every face of a failure
\* has buttons; a message without any shows the working face of one of the slow pages. That
\* face stays when the page is then refused or cannot be shown, which is less than "Every
\* screen should expose Back and Main Menu controls" (docs/agency_os_master_spec.md).
ButtonsUnlessWorking ==
    keyboard.buttons = {} => fate = "working" /\ place \in working_screen_for_page

\* Back only shows a page: no screen leads back through an operation or through a page whose
\* rendering writes, so that going back decides, assigns, sends or repeats nothing.
BackRunsNothing == keyboard.back \notin DOMAIN operations \cup acting_pages

\* The operations that ask first, the page that asks and the page that says it is done.
asked_first ==
    {[page |-> "proxy:#:archive", confirm |-> "proxy:#:archive_confirm", done |-> "proxy:#:archive_result"],
     [page |-> "proxy:#:delete", confirm |-> "proxy:#:delete_confirm", done |-> "proxy:#:delete_result"]}

\* No path of presses, late answers and retries archives or deletes a proxy except from the
\* page that asks for it, or from its own failed attempt.
ConfirmedFirst ==
    [][\A op \in asked_first :
          place' \in {op.page, op.done} \ {place} => place \in {op.page, op.confirm}]_vars

\* From wherever the owner is, pressing Back again and again ends on a page without Back:
\* the Back buttons of the screens form no cycle.
BackReachesHome == (leaving /\ reader = "Owner") ~> (keyboard.back = NoBack)

\* The screens that are rendered lead on and back: to the parent, with buttons, and without
\* running anything. The working face of a slow page, and what a refusal leaves of it, is not
\* one of them.
WayBack == BackIsParent /\ ButtonsUnlessWorking /\ BackRunsNothing
=============================================================================
