----------------------------- MODULE Governance -----------------------------
(***************************************************************************)
(* The parts of the credit contract that decide who may do what and at     *)
(* which price, and the contracts beside it, in one specification: the     *)
(* controls with their notices, the price feeds, the rate policy, the      *)
(* numbering of lines and the companion contracts, on one clock.  Any call *)
(* of any of them may come next.  The clock is past 0, as the risk         *)
(* cooldowns take a timestamp of 0 for none.                               *)
(***************************************************************************)
EXTENDS Notices, RatePolicy, LineIndex, Companions

governanceVars == <<now, controlVars, feedVars, policyVars, indexVars, companionVars, notices>>

GovernanceInit ==
  /\ now \in 1..MaxTime
  /\ ControlsInit /\ FeedsInit /\ NoticesInit /\ PolicyInit /\ IndexInit /\ CompanionsInit

\* Calls of the controls; those on lines leave the price of the line alone, the calls that
\* price one are the policy's.
ControlsCall ==
  /\ \/ RotationNoticed
     \/ PauseNoticed
     \/ FreezeNoticed
     \/ (LineNext \/ CooldownNext) /\ UNCHANGED notices
     \/ Tick /\ UNCHANGED <<controlVars, notices>>
  /\ UNCHANGED <<feedVars, policyVars, indexVars, companionVars>>

FeedCall ==
  /\ RegistryNoticed \/ (BreakerNext /\ UNCHANGED notices)
  /\ UNCHANGED <<policyVars, indexVars, companionVars>>

PolicyCall ==
  /\ PricingNext \/ AttestationNext
  /\ UNCHANGED <<feedVars, indexVars, companionVars, notices>>

BesideCall ==
  /\ \/ IndexNext /\ UNCHANGED <<now, companionVars>>
     \/ CompanionsNext /\ UNCHANGED indexVars
  /\ UNCHANGED <<controlVars, feedVars, policyVars, notices>>

GovernanceNext == ControlsCall \/ FeedCall \/ PolicyCall \/ BesideCall

GovernanceSpec == GovernanceInit /\ [][GovernanceNext]_governanceVars
=============================================================================
