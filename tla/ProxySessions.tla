---------------------------- MODULE ProxySessions ----------------------------
(***************************************************************************)
(* The session suffixes of one proxy, which decide the address it shows:   *)
(* app/services/proxies.py.                                                *)
(*                                                                         *)
(* Every suffix that is taken up, by creation, rotation or rollback, is    *)
(* remembered with the time; a rotation refuses the suffixes remembered    *)
(* within a window, the one in use and the one before it.  Time is counted *)
(* in periods, and an age stops counting when it has left the window.      *)
(***************************************************************************)
EXTENDS Naturals

CONSTANTS
    Suffixes,
    Window,         \* 30 days, in periods
    NoSuffix

VARIABLES
    suffix,         \* session_suffix
    previous,       \* previous_session_suffix
    memory,         \* age of the newest proxy_session_memory row of a suffix
    since           \* age of the last time a suffix was taken up (history)

rotationVars == <<suffix, previous, memory, since>>

Forgotten == Window + 1

Ages == 0 .. Forgotten

RotationInit ==
    /\ suffix = NoSuffix /\ previous = NoSuffix
    /\ memory = [s \in Suffixes |-> Forgotten]
    /\ since = [s \in Suffixes |-> Forgotten]

\* remember_proxy_session
Remember(s) == memory' = [memory EXCEPT ![s] = 0]

TakeUp(s) ==
    /\ suffix' = s
    /\ since' = [since EXCEPT ![s] = 0]

\* create_proxy
Create(s) ==
    /\ suffix = NoSuffix
    /\ TakeUp(s) /\ Remember(s)
    /\ UNCHANGED previous

\* recent_proxy_session_hashes
Recent == {s \in Suffixes : memory[s] <= Window} \cup ({suffix, previous} \ {NoSuffix})

\* rotate_session, with a suffix drawn by _generate_unique_olympix_session_suffix
\* or given; a recent one is refused.
Rotate(s) ==
    /\ suffix # NoSuffix /\ s \notin Recent
    /\ previous' = suffix
    /\ TakeUp(s) /\ Remember(s)

\* rollback_session
Rollback ==
    /\ previous # NoSuffix
    /\ previous' = suffix
    /\ TakeUp(previous) /\ Remember(previous)

Aged(ages) == [s \in Suffixes |-> IF ages[s] < Forgotten THEN ages[s] + 1 ELSE ages[s]]

Tick ==
    /\ memory' = Aged(memory) /\ since' = Aged(since)
    /\ UNCHANGED <<suffix, previous>>

RotationNext ==
    \/ \E s \in Suffixes : Create(s) \/ Rotate(s)
    \/ Rollback
    \/ Tick

RotationSpec == RotationInit /\ [][RotationNext]_rotationVars

-----------------------------------------------------------------------------
(* Properties.                                                             *)

\* Type correctness of the suffixes and of their ages.
RotationTypeOK ==
    /\ suffix \in Suffixes \cup {NoSuffix} /\ previous \in Suffixes \cup {NoSuffix}
    /\ memory \in [Suffixes -> Ages] /\ since \in [Suffixes -> Ages]
    /\ suffix = NoSuffix => previous = NoSuffix
    /\ suffix # NoSuffix => suffix # previous

\* "Rotation refuses recently used suffixes": a rotation never takes up a
\* suffix that the proxy took up within the window, along whatever sequence
\* of rotations and rollbacks.
FreshRotation ==
    [][\A s \in Suffixes : Rotate(s) => since[s] > Window]_rotationVars
=============================================================================
