-------------------------- MODULE MCChatNavigation --------------------------
(***************************************************************************)
(* Instances of ChatNavigation for TLC: the owner and another user of one  *)
(* chat.                                                                   *)
(***************************************************************************)
EXTENDS ChatNavigation

CONSTANTS a, b

TwoUsers == {a, b}
=============================================================================
