------------------------- MODULE MCPollingOwnership -------------------------
(***************************************************************************)
(* Instances of PollingOwnership for TLC.  The times are the code's, in    *)
(* minutes: time to live 5, refresh every 1, wait 7.                       *)
(***************************************************************************)
EXTENDS PollingOwnership, TLC

CONSTANTS a, b, a1, a2, b1

TwoInstances == {a, b}

AllTokens == {a1, a2, b1}

\* a draws a fresh id at each start, b has BOT_INSTANCE_ID configured.
DistinctTokens == a :> {a1, a2} @@ b :> {b1}

NobodyStalls == {}

OneStalls == {a}

WithRedis ==
    {[production |-> TRUE, redisUrl |-> TRUE, override |-> FALSE,
      primary |-> TwoInstances]}

AnyDeployment ==
    [production: BOOLEAN, redisUrl: BOOLEAN, override: BOOLEAN,
     primary: {{a}, TwoInstances}]
=============================================================================
