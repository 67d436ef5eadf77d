---------------------------- MODULE SinglePoller ----------------------------
(***************************************************************************)
(* What the polling guard promises: Telegram's getUpdates is read by at    *)
(* most one bot process, and a handover passes through nobody polling.     *)
(***************************************************************************)
CONSTANT Instances
VARIABLE pollers

Init == pollers = {}

Begin(i) == pollers = {} /\ pollers' = {i}

End(i) == pollers = {i} /\ pollers' = {}

Next == \E i \in Instances : Begin(i) \/ End(i)

Spec == Init /\ [][Next]_pollers
=============================================================================
