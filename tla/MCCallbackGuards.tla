--------------------------- MODULE MCCallbackGuards ---------------------------
(***************************************************************************)
(* Instances of CallbackGuards for TLC: three presses of one user, two of  *)
(* them received by one process.                                           *)
(***************************************************************************)
EXTENDS CallbackGuards, TLC

CONSTANTS w1, w2, h1, h2, h3

TwoProcs == {w1, w2}

ThreePresses == {h1, h2, h3}

Received == h1 :> w1 @@ h2 :> w1 @@ h3 :> w2
===============================================================================
