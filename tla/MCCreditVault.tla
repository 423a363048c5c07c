--------------------------- MODULE MCCreditVault ----------------------------
(***************************************************************************)
(* Values of the constants of the vault modules for model checking.        *)
(***************************************************************************)
EXTENDS VaultEvents

None == {}

\* An instalment of one unit every time unit, due from the start.
UnitSchedule == {[amount |-> 1, period |-> 1, due |-> 0]}

\* A deployment with the configuration that config::init stores and a reserve.
Plain == [source |-> CHOOSE s \in Sources : s # Self, treasury |-> NoAccount, bounty |-> NoAccount,
          min_ratio |-> (BPS * 3) \div 2, weight |-> BPS, fee |-> 0, share |-> BPS]

\* The same with fees switched on, a quarter of them to the treasury.
WithFees == [Plain EXCEPT !.treasury = CHOOSE t \in Treasuries : TRUE,
                          !.bounty   = CHOOSE t \in Bounties : TRUE,
                          !.fee      = MaxProtocolFee, !.share = BPS \div 4]

PlainOnly == {Plain}
FeesOnly  == {WithFees}

\* The settings of the collateral, or those of the fees, differ from the deployment's; largest
\* amounts per call are set beside none of them.
Focus ==
  \E d \in Deployments :
    LET changed == {f \in {"min_ratio", "weight", "fee", "share"} : vault[f] # d[f]}
    IN  /\ changed \subseteq {"min_ratio", "weight"} \/ changed \subseteq {"fee", "share"}
        /\ cfg.max_draw > 0 \/ cfg.max_repay > 0 => changed = {}
=============================================================================
