------------------------------- MODULE Beside -------------------------------
(***************************************************************************)
(* The contracts of the repository that never call the credit contract, in *)
(* one specification on one clock: creditra-credit with its settings, the  *)
(* escrow with its milestones, and crowdpay.  Any call of any of them may  *)
(* come next.                                                              *)
(***************************************************************************)
EXTENDS Escrow, CrowdPay, CosmCredit, CosmSettings

besideVars == <<now, cosmVars, settingsVars, escrowVars, crowdVars>>

BesideInit ==
  /\ now \in 0..MaxTime
  /\ CosmInit /\ SettingsInit
  /\ EscrowInit /\ CrowdInit

CosmCall ==
  /\ \/ (LedgerNext \/ ReaderNext \/ FeeNext \/ CollateralNext) /\ UNCHANGED settingsVars
     \/ (OracleNext \/ PriceNext \/ PolicyNext) /\ UNCHANGED cosmVars
  /\ UNCHANGED <<escrowVars, crowdVars>>

EscrowCall == EscrowNext /\ UNCHANGED <<crowdVars, cosmVars, settingsVars>>

CrowdCall == CrowdNext /\ UNCHANGED <<escrowVars, cosmVars, settingsVars>>

BesideNext == CosmCall \/ EscrowCall \/ CrowdCall

BesideSpec == BesideInit /\ [][BesideNext]_besideVars
=============================================================================
