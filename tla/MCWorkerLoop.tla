---------------------------- MODULE MCWorkerLoop ----------------------------
(***************************************************************************)
(* Instances of WorkerLoop for TLC: two processes that share the database, *)
(* as in a rolling deployment, or one worker with one user.                *)
(***************************************************************************)
EXTENDS WorkerLoop, TLC

CONSTANTS w1, w2, u1, u2, u3, chat

TwoProcs == {w1, w2}

OneProc == {w1}

ThreeUpdates == {u1, u2, u3}

TwoUpdates == {u1, u2}

OneChat == {chat}

Spread == u1 :> w1 @@ u2 :> w1 @@ u3 :> w2

AllToOne == u1 :> w1 @@ u2 :> w1

InOneChat == [u \in Updates |-> chat]
=============================================================================
