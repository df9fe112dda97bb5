---------------------------- MODULE MCDeployment ----------------------------
(* Two terminals, two mints, and migrate with the timelocks of devnet.      *)
EXTENDS Deployment

Spec1 == [mint |-> "wsol", denomination |-> 1, timelock |-> 2]
Spec2 == [mint |-> "wsol", denomination |-> 2, timelock |-> 2]

MCStandardPools == <<Spec1>>
\* The same address as Spec1 with a longer timelock, and a pool of another mint
\* whose timelock is too short.
MCMigratePools ==
  <<[Spec1 EXCEPT !.timelock = 3], [mint |-> "usdc", denomination |-> 1, timelock |-> 1]>>
MCMigrateMints == <<"wsol", "usdc">>
MCWsolPool == Spec1
MCScriptsAt ==
  [t \in Terminals |->
     IF t = "t1" THEN Needed \union {"init-mainnet-staking"}
                 ELSE {"migrate", "init-wsol-pool-v2", "init-mainnet-staking"}]
MCFees == {<<1, 2>>}
=============================================================================
