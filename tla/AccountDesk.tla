----------------------------- MODULE AccountDesk -----------------------------
(***************************************************************************)
(* Signing in to one platform account: the authentication sessions of      *)
(* app/services/accounts.py, their codes, and the auth_status that the     *)
(* account shows.  Several users may have sessions of one account open; a  *)
(* code goes to the session its user's page was about, which may be an old *)
(* one.  Overdue sessions are noticed only when a code comes too late.     *)
(* mark_auth_session_failed has no caller.                                 *)
(***************************************************************************)
EXTENDS Naturals, Sequences

CONSTANTS
    MaxSessions     \* bound on the sessions of the account

VARIABLES
    standing,       \* account.status
    auth,           \* account.auth_status
    sessions,       \* account_auth_sessions, oldest first
    codes           \* the number of verification codes of each session

signInVars == <<standing, auth, sessions, codes>>

Sessions == [status : {"waiting_for_code", "submitted", "success", "expired"},
             overdue : BOOLEAN]

\* create_account
SignInInit ==
    /\ standing = "healthy" /\ auth = "not_connected"
    /\ sessions = <<>> /\ codes = <<>>

\* start_auth_session
Start ==
    /\ Len(sessions) < MaxSessions
    /\ sessions' = Append(sessions, [status |-> "waiting_for_code", overdue |-> FALSE])
    /\ codes' = Append(codes, 0)
    /\ auth' = "needs_2fa"
    /\ UNCHANGED standing

\* The ten minutes of the session are over; sessions run out in their order.
RunOut(i) ==
    /\ \A j \in 1 .. i - 1 : sessions[j].overdue
    /\ sessions' = [sessions EXCEPT ![i].overdue = TRUE]
    /\ UNCHANGED <<standing, auth, codes>>

\* A variant of Expirable: whatever became of it, an old session expires.
ExpirableAlways(s) == s.overdue

Expirable(s) == s.status \in {"waiting_for_code", "submitted"} /\ s.overdue

\* expire_auth_sessions
Expire ==
    /\ sessions' = [i \in DOMAIN sessions |->
                      IF Expirable(sessions[i]) THEN [sessions[i] EXCEPT !.status = "expired"]
                      ELSE sessions[i]]
    /\ auth' = IF \E i \in DOMAIN sessions : Expirable(sessions[i]) THEN "expired" ELSE auth
    /\ UNCHANGED <<standing, codes>>

Accepts(s) == s.status = "waiting_for_code" /\ ~s.overdue

\* submit_verification_code; a refusal commits the expiry it found.
Submit(i) ==
    \/ /\ Accepts(sessions[i])
       /\ sessions' = [sessions EXCEPT ![i].status = "submitted"]
       /\ codes' = [codes EXCEPT ![i] = @ + 1]
       /\ UNCHANGED <<standing, auth>>
    \/ ~Accepts(sessions[i]) /\ Expire

\* mark_auth_session_success on the latest session, whatever its status, as
\* the page asks for it; update_account when there is none.
Connect ==
    /\ auth' = "connected"
    /\ sessions' = [i \in DOMAIN sessions |->
                      IF i = Len(sessions) THEN [sessions[i] EXCEPT !.status = "success"]
                      ELSE sessions[i]]
    /\ UNCHANGED <<standing, codes>>

\* update_account
NeedsLogin == auth' = "needs_login" /\ UNCHANGED <<standing, sessions, codes>>

Disable == standing' = "disabled" /\ UNCHANGED <<auth, sessions, codes>>

\* archive_account
Archive == standing' = "archived" /\ UNCHANGED <<auth, sessions, codes>>

SignInNext ==
    \/ Start
    \/ \E i \in DOMAIN sessions : RunOut(i) \/ Submit(i)
    \/ Connect
    \/ NeedsLogin
    \/ Disable
    \/ Archive

SignInSpec == SignInInit /\ [][SignInNext]_signInVars

-----------------------------------------------------------------------------
(* Properties.                                                             *)

\* Type correctness of the account and its sessions (models/account.py).
SignInTypeOK ==
    /\ standing \in {"healthy", "disabled", "archived"}
    /\ auth \in {"not_connected", "needs_login", "needs_2fa", "connected", "expired"}
    /\ Len(sessions) <= MaxSessions
    /\ \A i \in DOMAIN sessions : sessions[i] \in Sessions
    /\ DOMAIN codes = DOMAIN sessions /\ \A i \in DOMAIN codes : codes[i] \in Nat

\* A session takes one code, however many users have its page open, and a
\* session that nobody answered holds none.
OneCodePerSession ==
    \A i \in DOMAIN sessions :
        /\ codes[i] <= 1
        /\ sessions[i].status = "waiting_for_code" => codes[i] = 0

\* An account is shown as connected on the word of its latest session: no
\* expiry and no code of an older one, and no newer attempt, leaves it so.
ConnectedByLatest ==
    auth = "connected" /\ sessions # <<>>
        => sessions[Len(sessions)].status = "success"

\* A session that succeeded keeps its outcome when it runs out.
SuccessIsKept ==
    [][\A i \in DOMAIN sessions :
          sessions[i].status = "success" => sessions'[i].status = "success"]_signInVars

\* Signing in is sound: one code per session, a connection only on the word of
\* the latest session, and no success undone (services/accounts.py).
SignInIsSound == []OneCodePerSession /\ []ConnectedByLatest /\ SuccessIsKept
=============================================================================
