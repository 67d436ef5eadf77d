------------------------------ MODULE TextInput ------------------------------
(***************************************************************************)
(* What becomes of a text a user types: text_input in app/bot/runner.py.   *)
(*                                                                         *)
(* Pages ask for input by leaving an entry for the user in one of thirteen *)
(* dictionaries of the process; a text goes to the first dictionary, in a  *)
(* fixed order, whose entry takes text.  A page that navigate renders      *)
(* forgets the entries of five dictionaries before it is shown; the others *)
(* outlive it.  Screens that are shown otherwise forget nothing: Home by   *)
(* /start, /clean or a stale button, commands, jobs that are started,      *)
(* refusals and fallbacks.  A text is committed after Telegram has taken   *)
(* the replies, and no press is handled meanwhile, because each handler    *)
(* begins by writing the heartbeat row (WorkerLoop).  The dictionaries are *)
(* keyed by user, so one user is modelled.                                 *)
(***************************************************************************)
EXTENDS Naturals, Sequences, FiniteSets

CONSTANTS
    Kinds,          \* the dictionaries in use
    MaxPrompts,     \* bound on the prompts shown
    NoEntry

VARIABLES
    pending,        \* the entry of the user in each dictionary
    asked,          \* the kind of each prompt
    rendered,       \* the prompt of the last page rendered; 0 when it has none
    latest,         \* the prompt of the last screen shown; 0 when it has none
    text,           \* the text that is being handled
    saved           \* how often the answer of a prompt was committed

vars == <<pending, asked, rendered, latest, text, saved>>

Prompts == 1 .. MaxPrompts

\* The order in which text_input looks.
Order == <<"model_edit", "proxy_location", "report", "proxy", "setup", "account",
           "code", "creator_alert", "post_alert",
           "creator", "opportunity", "post", "result">>

Place(k) == CHOOSE i \in DOMAIN Order : Order[i] = k

\* Kinds that a rendered page forgets, whatever it is.
Volatile == {"account", "code", "report", "creator_alert", "post_alert"}

\* Kinds whose entry is taken out before the text is looked at.
TakenFirst == Volatile \cup {"model_edit", "proxy_location"}

\* The steps of the guided intakes; every other kind has the one "answer".
Steps(k) ==
    CASE k = "creator" -> <<"platform", "username", "display_name", "niche",
                            "priority", "model", "chatter", "notes">>
      [] k = "opportunity" -> <<"source", "platform", "title", "url", "niche",
                                "priority", "model", "chatter", "notes">>
      [] k = "post" -> <<"model", "platform", "post_reference", "post_type",
                         "attention", "chatter", "notes">>
      [] k = "result" -> <<"notes", "clicks", "conversions">>
      [] OTHER -> <<"answer">>

Buttons == {"platform", "source", "priority", "model", "chatter", "post_type", "attention"}

StepsOf(k) == {Steps(k)[i] : i \in DOMAIN Steps(k)}

Following(k, s) ==
    LET i == CHOOSE j \in DOMAIN Steps(k) : Steps(k)[j] = s IN Steps(k)[i + 1]

Final(k, s) == s = "edit_niche" \/ s = Steps(k)[Len(Steps(k))]

AllSteps == UNION {StepsOf(k) : k \in Kinds}

Entry == [prompt : Prompts, step : AllSteps \cup {"edit_niche"}, given : SUBSET AllSteps]

NoText == [stage |-> "none", kind |-> NoEntry, entry |-> NoEntry, typedFor |-> NoEntry]

Init ==
    /\ pending = [k \in Kinds |-> NoEntry]
    /\ asked = <<>>
    /\ rendered = 0
    /\ latest = 0
    /\ text = NoText
    /\ saved = [p \in Prompts |-> 0]

-----------------------------------------------------------------------------
(* Screens.                                                                *)

\* A variant of Forgotten: a page forgets only the codes.
ForgottenCodes == [k \in Kinds |-> IF k = "code" THEN NoEntry ELSE pending[k]]

\* _set_pending_callback_state
Forgotten == [k \in Kinds |-> IF k \in Volatile THEN NoEntry ELSE pending[k]]

\* The page that was rendered is shown; or Telegram refuses it, and a fallback
\* is shown or nothing.
Shown(prompt) == latest' \in {prompt, 0, latest}

\* A prompt with an entry of its own, the number of the prompt and the step.
Ask(k, s, given) ==
    /\ text = NoText /\ Len(asked) < MaxPrompts
    /\ asked' = Append(asked, k)
    /\ rendered' = Len(asked')
    /\ pending' = [Forgotten EXCEPT ![k] = 
                        [prompt |-> Len(asked'), step |-> s, given |-> given]]
    /\ Shown(Len(asked'))

OpenPage ==
    /\ \E k \in Kinds : \/ Ask(k, Steps(k)[1], {})
                        \/ k = "creator" /\ Ask(k, "edit_niche", {})
    /\ UNCHANGED <<text, saved>>

\* A button of an intake, perhaps an old one: its answer is noted and the
\* step set to the next.  The first button begins anew; without an entry, as
\* after a restart, one is made.
Button(k, s) ==
    /\ k \in {"creator", "opportunity", "post"} /\ s \in StepsOf(k) \cap Buttons
    /\ IF pending[k] = NoEntry THEN Ask(k, Following(k, s), {s})
       ELSE /\ text = NoText
            /\ pending' = [Forgotten EXCEPT
                   ![k].step = Following(k, s),
                   ![k].given = (IF s = Steps(k)[1] THEN {} ELSE @) \cup {s}]
            /\ rendered' = 0
            /\ Shown(0)
            /\ UNCHANGED asked
    /\ UNCHANGED <<text, saved>>

\* A page that is rendered and asks for nothing.
PlainPage ==
    /\ text = NoText
    /\ pending' = Forgotten
    /\ rendered' = 0
    /\ Shown(0)
    /\ UNCHANGED <<asked, text, saved>>

\* A screen that no call of _set_pending_callback_state precedes.
OtherScreen ==
    /\ text = NoText
    /\ latest' = 0
    /\ UNCHANGED <<pending, asked, rendered, text, saved>>

-----------------------------------------------------------------------------
(* Texts: text_input, up to its next await.                                *)

TakesText(k) == pending[k] # NoEntry /\ pending[k].step \notin Buttons

\* The text goes to kind k.
Routed(k) ==
    /\ text = NoText
    /\ TakesText(k)
    /\ \A j \in Kinds : TakesText(j) => Place(k) <= Place(j)

\* What the latest screen asked for.
TypedFor == IF latest = 0 THEN NoEntry ELSE asked[latest]

Await(stage, k) ==
    text' = [stage |-> stage, kind |-> k, entry |-> pending[k], typedFor |-> TypedFor]

\* The keys an intake cannot do without: their absence is a KeyError, which
\* leaves the entry as it is.
Complete(k) ==
    CASE k = "creator" /\ pending[k].step = "notes" -> "platform" \in pending[k].given
      [] k = "post" -> "model" \in pending[k].given
      [] OTHER -> TRUE

\* The text completes the answer: the record is written and the entry gone.
Answer(k) ==
    /\ Routed(k) /\ Final(k, pending[k].step) /\ Complete(k)
    /\ pending' = [pending EXCEPT ![k] = NoEntry]
    /\ Await("saving", k)
    /\ UNCHANGED <<asked, rendered, latest, saved>>

\* A step of an intake before the last.
Advance(k) ==
    /\ Routed(k) /\ ~Final(k, pending[k].step)
    /\ pending' = [pending EXCEPT ![k].step = Following(k, @),
                                  ![k].given = @ \cup {pending[k].step}]
    /\ UNCHANGED <<asked, rendered, latest, text, saved>>

\* The text is incomplete or the service refuses it.  A kind that is not taken
\* first keeps its entry, and so do, when the text is incomplete, the proxy
\* location and the creator alert; a report is put back after the answer.
Decline(k) ==
    /\ Routed(k) /\ k \in TakenFirst
    /\ pending' = [pending EXCEPT ![k] = NoEntry]
    /\ IF k = "report" THEN Await("returning", k) ELSE UNCHANGED text
    /\ UNCHANGED <<asked, rendered, latest, saved>>

\* The row the entry speaks of is gone, or secrets are not safe to take.
Drop(k) ==
    /\ Routed(k)
    /\ \/ k \in {"proxy", "setup", "result"}
       \/ k = "post" /\ Complete(k)
       \/ pending[k].step = "edit_niche"
    /\ Final(k, pending[k].step)
    /\ pending' = [pending EXCEPT ![k] = NoEntry]
    /\ UNCHANGED <<asked, rendered, latest, text, saved>>

\* After the reply to an incomplete report.
ReturnReport ==
    /\ text.stage = "returning"
    /\ pending' = [pending EXCEPT !["report"] = text.entry]
    /\ text' = NoText
    /\ UNCHANGED <<asked, rendered, latest, saved>>

Save ==
    /\ text.stage = "saving"
    /\ saved' = [saved EXCEPT ![text.entry.prompt] = @ + 1]
    /\ text' = NoText
    /\ UNCHANGED <<pending, asked, rendered, latest>>

\* Telegram fails on a reply: the session is rolled back, the entry stays
\* away.
Lose ==
    /\ text # NoText
    /\ text' = NoText
    /\ UNCHANGED <<pending, asked, rendered, latest, saved>>

-----------------------------------------------------------------------------
\* The process is replaced: the dictionaries and the text are lost.
Restart ==
    /\ pending' = [k \in Kinds |-> NoEntry]
    /\ rendered' = 0
    /\ text' = NoText
    /\ UNCHANGED <<asked, latest, saved>>

Next ==
    \/ OpenPage
    \/ \E k \in Kinds, s \in Buttons : Button(k, s)
    \/ PlainPage
    \/ OtherScreen
    \/ \E k \in Kinds : Answer(k) \/ Advance(k) \/ Decline(k) \/ Drop(k)
    \/ ReturnReport
    \/ Save
    \/ Lose
    \/ Restart

Spec == Init /\ [][Next]_vars

-----------------------------------------------------------------------------
(* Properties.                                                             *)

\* Type correctness of the dictionaries of text_input and of the text.
TypeOK ==
    /\ pending \in [Kinds -> Entry \cup {NoEntry}]
    /\ Len(asked) <= MaxPrompts /\ \A i \in DOMAIN asked : asked[i] \in Kinds
    /\ rendered \in 0 .. Len(asked) /\ latest \in 0 .. Len(asked)
    /\ text.stage \in {"none", "returning", "saving"}
    /\ text # NoText => text.entry \in Entry /\ text.kind \in Kinds
    /\ \A k \in Kinds : pending[k] # NoEntry =>
         pending[k].step \in StepsOf(k) \cup {"edit_niche"}
    /\ saved \in [Prompts -> Nat]

\* An answer is recorded once for the prompt it answers, whatever Telegram
\* loses and whichever buttons, old or new, are pressed in between.
OncePerPrompt == \A p \in Prompts : saved[p] <= 1

\* An input that a rendered page forgets was asked for by the last of them, also
\* when it is put back after a reply, so that a code, a report or an alert is
\* never taken for the question of an older page.
VolatileIsLatest ==
    /\ \A k \in Kinds \cap Volatile :
         pending[k] # NoEntry => pending[k].prompt = rendered
    /\ text # NoText /\ text.kind \in Volatile => text.entry.prompt = rendered

\* Buttons of old messages and restarts in the middle of an intake make no
\* record without its subject: a creator's platform, a post's model.
IntakeKnowsItsSubject ==
    text.stage = "saving" =>
        /\ text.kind = "creator" /\ text.entry.step = "notes"
              => "platform" \in text.entry.given
        /\ text.kind = "post" => "model" \in text.entry.given

\* "Plaintext 2FA codes must never be stored": a text typed when the screen asks
\* for a verification code is not committed as the answer to something else.
CodesReachTheirSession ==
    [][Save /\ text.typedFor = "code" => text.kind = "code"]_vars

\* Answers meet a prompt of their own: each at most once, that of the last
\* rendered page where a page forgets the others, and with the subject of the
\* intake (bot/runner.py).
AnswersMeetTheirPrompt == OncePerPrompt /\ VolatileIsLatest /\ IntakeKnowsItsSubject
=============================================================================
