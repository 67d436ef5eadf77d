---------------------------- MODULE ActingMenus ----------------------------
(***************************************************************************)
(* What chat_cleanup.py promises about the menus of a chat: a user has one *)
(* at most; it is the newest message when it starts to act; one that has   *)
(* stopped acts again only through a press that was accepted while it      *)
(* acted; and only by such a press it changes hands, from a user who had   *)
(* it to one who had none.  A user without a menu may get two at once from *)
(* two handlers, and gives both up for the next.                           *)
(***************************************************************************)
EXTENDS Naturals

CONSTANT Users

VARIABLES
    acting,     \* the menus that act of each user: a set of one or none
    last,       \* the newest message of the bot
    pressed     \* the press in hand: user and message, or nothing

Init == acting = [u \in Users |-> {}] /\ last = 0 /\ pressed = {}

\* The press in hand has ended, or goes on.
MayEnd == pressed' \in {pressed, {}}

\* The user gets a fresh menu, in place of the one there was.
Give(u) == last' > last /\ acting' = [acting EXCEPT ![u] = {last'}] /\ MayEnd

\* After /start it is the only one of the chat.
Start(u) ==
    /\ last' > last
    /\ acting' = [v \in Users |-> IF v = u THEN {last'} ELSE {}]
    /\ UNCHANGED pressed

\* Two handlers of a user without a menu give one each.
GiveTwo(u) ==
    /\ acting[u] = {} /\ last' = last + 2
    /\ \/ acting' = [acting EXCEPT ![u] = {last + 1, last + 2}]
       \/ acting' = [v \in Users |-> IF v = u THEN {last + 1, last + 2} ELSE {}]
    /\ UNCHANGED pressed

Withdraw(u) ==
    /\ last' >= last /\ acting' = [acting EXCEPT ![u] = {}]
    /\ UNCHANGED pressed

\* The user presses the own menu or, without one, that of another.
Press(u) ==
    /\ pressed = {}
    /\ \E v \in Users : \E m \in acting[v] :
          /\ u = v \/ acting[u] = {}
          /\ pressed' = {<<u, m>>}
    /\ UNCHANGED <<acting, last>>

\* The press ends: its menu is the user's, and nobody else's.
Keep(u) ==
    /\ \E p \in pressed :
          /\ p[1] = u
          /\ acting' = [v \in Users |-> IF v = u THEN {p[2]} ELSE acting[v] \ {p[2]}]
    /\ pressed' = {}
    /\ UNCHANGED last

\* The press fails: its menu is nobody's.
Drop ==
    /\ \E p \in pressed : acting' = [v \in Users |-> acting[v] \ {p[2]}]
    /\ pressed' = {}
    /\ UNCHANGED last

\* A message that is no menu, or a press that shows nothing.
Send == last' >= last /\ UNCHANGED acting /\ MayEnd

Next ==
    \/ \E u \in Users :
         Give(u) \/ Start(u) \/ GiveTwo(u) \/ Withdraw(u) \/ Press(u) \/ Keep(u)
    \/ Drop
    \/ Send

Spec == Init /\ [][Next]_<<acting, last, pressed>>
=============================================================================
