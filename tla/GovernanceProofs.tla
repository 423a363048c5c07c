-------------------------- MODULE GovernanceProofs --------------------------
(***************************************************************************)
(* Theorems about Governance, for any number of admins, borrowers, users,  *)
(* oracles, scores and lines, any cooldowns and any clock: what the        *)
(* contract tells about itself is so, the admin changes along a proposal   *)
(* that waited, critical actions keep their distance, a watcher of the     *)
(* events is current, a repricing follows the policy, a walk through the   *)
(* index misses nothing, and the two companion contracts keep their        *)
(* promises.                                                               *)
(***************************************************************************)
EXTENDS Governance, SumTheorems, SequenceTheorems

-----------------------------------------------------------------------------
(* The controls *)

Proposal == [to : Admins, made : Nat, delay : Nat, accept_after : Nat]

RotationInv ==
  /\ admin \in Admins
  /\ proposal # Nobody => /\ proposal \in Proposal
                          /\ proposal.accept_after = proposal.made + proposal.delay

PauseInv == halted \in BOOLEAN /\ PauseReasonCurrent

FreezeInv ==
  /\ line_freeze \in [Holders -> FreezeReasons \cup {Nobody}]
  /\ frozen_until \in [Holders -> Expiries \cup {Nobody}]
  /\ blocked \subseteq Holders

LineInv == lineStatus \in [Holders -> LineStatuses] /\ indebted \subseteq Holders

\* The stamps the contract compares with are those of the actions, and none is 0 or in the future.
CooldownInv ==
  /\ cooldown \in [Kinds -> Cooldowns]
  /\ acted = last_action
  /\ last_action \in [Kinds -> [Keys -> 1..now \cup {Nobody}]]

ControlsInv ==
  now \in 1..MaxTime /\ RotationInv /\ PauseInv /\ FreezeInv /\ LineInv /\ CooldownInv

\* The two action properties, of one step.
HandedOver ==
  admin' # admin => /\ proposal # Nobody
                    /\ admin' = proposal.to
                    /\ now >= proposal.made + proposal.delay
Spaced ==
  \A k \in Kinds, x \in Keys :
    cooldown[k] > 0 /\ acted'[k][x] # acted[k][x] /\ acted[k][x] # Nobody
      => now >= acted[k][x] + cooldown[k]

\* A step that leaves a group of variables and the clock alone keeps what is said of the group.
LEMMA GroupsKept ==
  ASSUME ControlsInv, UNCHANGED now
  PROVE  /\ UNCHANGED rotationVars => RotationInv' /\ HandedOver
         /\ UNCHANGED pauseVars => PauseInv'
         /\ UNCHANGED freezeVars => FreezeInv'
         /\ UNCHANGED lineVars => LineInv'
         /\ UNCHANGED cooldownVars => CooldownInv' /\ Spaced
<1>1. UNCHANGED rotationVars => RotationInv' /\ HandedOver
  BY DEF ControlsInv, RotationInv, rotationVars, HandedOver
<1>2. UNCHANGED pauseVars => PauseInv'
  BY DEF ControlsInv, PauseInv, PauseReasonCurrent, pauseVars
<1>3. UNCHANGED freezeVars => FreezeInv'
  BY DEF ControlsInv, FreezeInv, freezeVars
<1>4. UNCHANGED lineVars => LineInv'
  BY DEF ControlsInv, LineInv, lineVars
<1>5. UNCHANGED cooldownVars => CooldownInv' /\ Spaced
  BY DEF ControlsInv, CooldownInv, cooldownVars, Spaced
<1> QED
  BY <1>1, <1>2, <1>3, <1>4, <1>5

\* enforce_*_admin_cooldown: the stamps move together, and only where the cooldown is over.
LEMMA EnforceSpaces ==
  ASSUME ControlsInv, UNCHANGED now, NEW K \in SUBSET Kinds, NEW B \in SUBSET Keys, Enforce(K, B)
  PROVE  CooldownInv' /\ Spaced
<1>1. /\ now \in 1..MaxTime /\ cooldown \in [Kinds -> Cooldowns] /\ Cooldowns \subseteq Nat
      /\ acted = last_action /\ last_action \in [Kinds -> [Keys -> 1..now \cup {Nobody}]]
      /\ Nobody \notin Nat /\ MaxTime \in Nat
  BY ControlsAssumption, MaxTimeAssumption DEF ControlsInv, CooldownInv
<1>2. \A k \in Kinds, x \in Keys :
        last_action'[k][x] = IF k \in K /\ x \in B /\ Records(k) THEN now ELSE last_action[k][x]
  BY DEF Enforce, Stamped
<1>3. acted' = last_action' /\ cooldown' = cooldown
  <2>1. \A k \in Kinds : Records(k) <=> (k \in {"borrow", "accrual"} => cooldown[k] > 0)
    BY DEF Records, Kinds
  <2>2. Stamped(K, B) = Witnessed(K, B)
    BY <1>1, <2>1, Zenon DEF Stamped, Witnessed
  <2> QED
    BY <2>2 DEF Enforce
<1>4. last_action' \in [Kinds -> [Keys -> 1..now \cup {Nobody}]]
  <2>1. \A k \in Kinds, x \in Keys : last_action[k][x] \in 1..now \cup {Nobody} /\ now \in 1..now
    BY <1>1
  <2> QED
    BY <2>1 DEF Enforce, Stamped
<1>5. ASSUME NEW k \in Kinds, NEW x \in Keys, cooldown[k] > 0, acted'[k][x] # acted[k][x],
             acted[k][x] # Nobody
      PROVE  now >= acted[k][x] + cooldown[k]
  <2>1. k \in K /\ x \in B
    BY <1>1, <1>2, <1>3, <1>5
  <2>2. Elapsed(k, x)
    BY <2>1 DEF Enforce
  <2>3. last_action[k][x] \in 1..now
    BY <1>1, <1>5
  <2> QED
    BY <1>1, <1>5, <2>2, <2>3 DEF Elapsed
<1> QED
  BY <1>1, <1>3, <1>4, <1>5 DEF CooldownInv, Spaced

\* A rotation: the new admin is the proposed one, after the delay of that proposal.
LEMMA RotationKeeps ==
  ASSUME ControlsInv, \/ \E to \in Admins, d \in Delays : ProposeAdmin(to, d)
                      \/ AcceptAdmin
  PROVE  ControlsInv' /\ HandedOver /\ Spaced
<1>1. UNCHANGED <<now, pauseVars, freezeVars, lineVars, cooldownVars>>
  BY DEF ProposeAdmin, AcceptAdmin
<1>2. PauseInv' /\ FreezeInv' /\ LineInv' /\ CooldownInv' /\ Spaced
  BY <1>1, GroupsKept
<1>3. /\ now \in Nat /\ Delays \subseteq Nat /\ admin \in Admins
      /\ proposal # Nobody => /\ proposal \in Proposal
                              /\ proposal.accept_after = proposal.made + proposal.delay
  BY ControlsAssumption, MaxTimeAssumption DEF ControlsInv, RotationInv
<1>4. CASE \E to \in Admins, d \in Delays : ProposeAdmin(to, d)
  <2>1. PICK to \in Admins, d \in Delays : ProposeAdmin(to, d)
    BY <1>4
  <2>2. /\ admin' = admin
        /\ proposal' = [to |-> to, made |-> now, delay |-> d, accept_after |-> now + d]
    BY <2>1 DEF ProposeAdmin
  <2>3. d \in Nat /\ now + d \in Nat
    BY <1>3
  <2>4. proposal' \in Proposal
    BY <1>3, <2>2, <2>3 DEF Proposal
  <2>5. RotationInv' /\ HandedOver
    BY <1>3, <2>2, <2>4 DEF RotationInv, HandedOver
  <2> QED
    BY <1>1, <1>2, <2>5 DEF ControlsInv
<1>5. CASE AcceptAdmin
  <2>1. /\ proposal # Nobody /\ now >= proposal.accept_after
        /\ admin' = proposal.to /\ proposal' = Nobody
    BY <1>5 DEF AcceptAdmin
  <2>2. RotationInv' /\ HandedOver
    BY <1>3, <2>1 DEF RotationInv, HandedOver, Proposal
  <2> QED
    BY <1>1, <1>2, <2>2 DEF ControlsInv
<1> QED
  BY <1>4, <1>5

\* A pause, its end and their repetition.
LEMMA PauseKeeps ==
  ASSUME ControlsInv, NEW on \in BOOLEAN,
         SetHalted(on) \/ \E r \in Reasons : SetHaltedWithReason(on, r)
  PROVE  ControlsInv' /\ HandedOver /\ Spaced
<1>1. UNCHANGED <<now, rotationVars, freezeVars, lineVars, cooldownVars>>
  BY DEF SetHalted, SetHaltedWithReason
<1>2. RotationInv' /\ HandedOver /\ FreezeInv' /\ LineInv' /\ CooldownInv' /\ Spaced
  BY <1>1, GroupsKept
<1>3. halted \in BOOLEAN /\ pause_reason = IF halted THEN pauseCall ELSE Nobody
  BY DEF ControlsInv, PauseInv, PauseReasonCurrent
<1>4. PauseInv'
  BY <1>3 DEF SetHalted, SetHaltedWithReason, PauseInv, PauseReasonCurrent
<1> QED
  BY <1>1, <1>2, <1>4 DEF ControlsInv

\* Setting a cooldown stamps nothing, but for the collateral cooldown, which waits for itself.
LEMMA CooldownKeeps ==
  ASSUME ControlsInv, CooldownNext
  PROVE  ControlsInv' /\ HandedOver /\ Spaced
<1>1. UNCHANGED <<now, rotationVars, pauseVars, freezeVars, lineVars>>
  BY DEF CooldownNext, SetCooldown, SetCollateralCooldown, SetCollateralPolicy
<1>2. RotationInv' /\ HandedOver /\ PauseInv' /\ FreezeInv' /\ LineInv'
  BY <1>1, GroupsKept
<1>3. /\ now \in 1..MaxTime /\ cooldown \in [Kinds -> Cooldowns] /\ Cooldowns \subseteq Nat
      /\ acted = last_action /\ last_action \in [Kinds -> [Keys -> 1..now \cup {Nobody}]]
      /\ Nobody \notin Nat /\ MaxTime \in Nat /\ now \in 1..now
  BY ControlsAssumption, MaxTimeAssumption DEF ControlsInv, CooldownInv
<1>4. CASE \E k \in Kinds \ {"collateral"}, s \in Cooldowns : SetCooldown(k, s)
  <2>1. CooldownInv' /\ Spaced
    BY <1>1, <1>3, <1>4 DEF SetCooldown, CooldownInv, Spaced
  <2> QED
    BY <1>1, <1>2, <2>1 DEF ControlsInv
<1>5. CASE \E s \in Cooldowns : SetCollateralCooldown(s)
  <2>1. PICK s \in Cooldowns : SetCollateralCooldown(s)
    BY <1>5
  <2>2. /\ cooldown' = [cooldown EXCEPT !["collateral"] = s]
        /\ last_action' = [last_action EXCEPT !["collateral"][Nobody] = now]
        /\ acted' = last_action' /\ Elapsed("collateral", Nobody)
    <3>1. /\ cooldown' = [cooldown EXCEPT !["collateral"] = s]
          /\ last_action' = [last_action EXCEPT !["collateral"][Nobody] = now]
          /\ acted' = Witnessed({"collateral"}, {Nobody}) /\ Elapsed("collateral", Nobody)
      BY <2>1 DEF SetCollateralCooldown
    <3>2. Witnessed({"collateral"}, {Nobody})
            = [k \in Kinds |-> [x \in Keys |->
                 IF k = "collateral" /\ x = Nobody THEN now ELSE last_action[k][x]]]
      BY <1>3 DEF Witnessed
    <3>3. [last_action EXCEPT !["collateral"][Nobody] = now]
            = [k \in Kinds |-> [x \in Keys |->
                 IF k = "collateral" /\ x = Nobody THEN now ELSE last_action[k][x]]]
      BY <1>3
    <3> QED
      BY <3>1, <3>2, <3>3
  <2>3. "collateral" \in Kinds /\ Nobody \in Keys
    BY DEF Kinds, Keys
  <2>4. CooldownInv'
    BY <1>1, <1>3, <2>2, <2>3 DEF CooldownInv
  <2>5. ASSUME NEW k \in Kinds, NEW x \in Keys, cooldown[k] > 0, acted'[k][x] # acted[k][x],
               acted[k][x] # Nobody
        PROVE  now >= acted[k][x] + cooldown[k]
    <3>1. k = "collateral" /\ x = Nobody
      BY <1>3, <2>2, <2>3, <2>5
    <3>2. last_action["collateral"][Nobody] \in 1..now
      BY <1>3, <2>3, <2>5, <3>1
    <3> QED
      BY <1>3, <2>2, <2>5, <3>1, <3>2 DEF Elapsed
  <2> QED
    BY <1>1, <1>2, <2>4, <2>5 DEF ControlsInv, Spaced
<1>6. CASE SetCollateralPolicy
  <2>1. Enforce({"collateral"}, {Nobody})
    BY <1>6 DEF SetCollateralPolicy
  <2>2. {"collateral"} \in SUBSET Kinds /\ {Nobody} \in SUBSET Keys
    BY DEF Kinds, Keys
  <2>3. CooldownInv' /\ Spaced
    BY <1>1, <2>1, <2>2, EnforceSpaces
  <2> QED
    BY <1>1, <1>2, <2>3 DEF ControlsInv
<1> QED
  BY <1>4, <1>5, <1>6 DEF CooldownNext

\* A call on one borrower that leaves rotation and pause alone enforces a cooldown or leaves
\* the stamps alone.
LEMMA BorrowerCallKeeps ==
  ASSUME ControlsInv, UNCHANGED <<now, rotationVars, pauseVars>>, FreezeInv', LineInv',
         \/ UNCHANGED cooldownVars
         \/ \E K \in SUBSET Kinds, B \in SUBSET Keys : Enforce(K, B)
  PROVE  ControlsInv' /\ HandedOver /\ Spaced
<1>1. RotationInv' /\ HandedOver /\ PauseInv'
  BY GroupsKept
<1>2. CooldownInv' /\ Spaced
  BY GroupsKept, EnforceSpaces
<1> QED
  BY <1>1, <1>2 DEF ControlsInv

\* Opening, moving and drawing on lines.
LEMMA LinesKeep ==
  ASSUME ControlsInv, LineNext
  PROVE  ControlsInv' /\ HandedOver /\ Spaced
<1>1. PICK b \in Holders : \/ OpenLine(b)
                           \/ \E op \in DOMAIN From : AdminTransition(op, b)
                           \/ OwnTransition(b) \/ Forgive(b) \/ UpdateRisk(b) \/ Draw(b) \/ Repay(b)
  BY DEF LineNext
<1>2. /\ UNCHANGED <<now, rotationVars, pauseVars, freezeVars>>
      /\ \/ UNCHANGED cooldownVars
         \/ \E K \in SUBSET Kinds, B \in SUBSET Keys : Enforce(K, B)
  <2>1. {b} \in SUBSET Keys /\ {"borrow"} \in SUBSET Kinds /\ {"accrual"} \in SUBSET Kinds
        /\ {"accrual", "risk"} \in SUBSET Kinds
    BY DEF Keys, Kinds
  <2> QED
    BY <1>1, <2>1 DEF OpenLine, AdminTransition, OwnTransition, Forgive, UpdateRisk, Draw, Repay
<1>3. lineStatus \in [Holders -> LineStatuses] /\ indebted \subseteq Holders
  BY DEF ControlsInv, LineInv
<1>4. FreezeInv'
  BY <1>2, GroupsKept
<1>5. LineInv'
  <2>1. CASE OpenLine(b) \/ Forgive(b) \/ Draw(b) \/ Repay(b)
    BY <1>3, <2>1 DEF OpenLine, Forgive, Draw, Repay, LineInv, LineStatuses
  <2>2. CASE OwnTransition(b) \/ UpdateRisk(b)
    BY <1>3, <2>2 DEF OwnTransition, UpdateRisk, LineInv, LineStatuses
  <2>3. CASE \E op \in DOMAIN From : AdminTransition(op, b)
    <3>1. PICK op \in DOMAIN From : AdminTransition(op, b)
      BY <2>3
    <3>2. op \in {"suspend", "unsuspend", "close", "default", "reinstate"}
      BY DEF From
    <3>3. To[op] \subseteq LineStatuses
      BY <3>2 DEF To, LineStatuses
    <3> QED
      BY <1>3, <3>1, <3>3 DEF AdminTransition, LineInv
  <2> QED
    BY <1>1, <2>1, <2>2, <2>3
<1> QED
  BY <1>2, <1>4, <1>5, BorrowerCallKeeps

\* Freezes and the blocklist.
FreezeCall ==
  \/ \E r \in FreezeReasons : FreezeDraws(r)
  \/ UnfreezeDraws
  \/ \E b \in Holders : \/ \E r \in FreezeReasons : FreezeCreditLine(b, r)
                        \/ UnfreezeCreditLine(b)
                        \/ \E e \in Expiries : FreezeBorrowerUntil(b, e)
                        \/ UnfreezeBorrower(b)
  \/ \E group \in SUBSET Holders, on \in BOOLEAN : SetBlocked(group, on)

LEMMA FreezesKeep ==
  ASSUME ControlsInv, FreezeCall
  PROVE  ControlsInv' /\ HandedOver /\ Spaced
<1>1. UNCHANGED <<now, rotationVars, pauseVars, lineVars>>
  BY DEF FreezeCall, FreezeDraws, UnfreezeDraws, FreezeCreditLine, UnfreezeCreditLine,
         FreezeBorrowerUntil, UnfreezeBorrower, SetBlocked
<1>2. \/ UNCHANGED cooldownVars
      \/ \E K \in SUBSET Kinds, B \in SUBSET Keys : Enforce(K, B)
  <2>1. \A b \in Holders : {b} \in SUBSET Keys /\ {"borrow"} \in SUBSET Kinds
    BY DEF Keys, Kinds
  <2> QED
    BY <2>1 DEF FreezeCall, FreezeDraws, UnfreezeDraws, FreezeCreditLine, UnfreezeCreditLine,
                FreezeBorrowerUntil, UnfreezeBorrower, SetBlocked
<1>3. LineInv'
  BY <1>1, GroupsKept
<1>4. FreezeInv'
  <2>1. /\ line_freeze \in [Holders -> FreezeReasons \cup {Nobody}]
        /\ frozen_until \in [Holders -> Expiries \cup {Nobody}] /\ blocked \subseteq Holders
    BY DEF ControlsInv, FreezeInv
  <2>2. line_freeze' \in [Holders -> FreezeReasons \cup {Nobody}]
    BY <2>1 DEF FreezeCall, FreezeDraws, UnfreezeDraws, FreezeCreditLine, UnfreezeCreditLine,
                FreezeBorrowerUntil, UnfreezeBorrower, SetBlocked
  <2>3. frozen_until' \in [Holders -> Expiries \cup {Nobody}]
    BY <2>1 DEF FreezeCall, FreezeDraws, UnfreezeDraws, FreezeCreditLine, UnfreezeCreditLine,
                FreezeBorrowerUntil, UnfreezeBorrower, SetBlocked
  <2>4. blocked' \subseteq Holders
    BY <2>1 DEF FreezeCall, FreezeDraws, UnfreezeDraws, FreezeCreditLine, UnfreezeCreditLine,
                FreezeBorrowerUntil, UnfreezeBorrower, SetBlocked
  <2> QED
    BY <2>2, <2>3, <2>4 DEF FreezeInv
<1> QED
  BY <1>1, <1>2, <1>3, <1>4, BorrowerCallKeeps

\* Time passes, or a call leaves the controls alone.
LEMMA QuietKeeps ==
  ASSUME ControlsInv, UNCHANGED now \/ Tick, UNCHANGED controlVars
  PROVE  ControlsInv' /\ HandedOver /\ Spaced
<1>1. now \in 1..MaxTime /\ now' \in 1..MaxTime /\ now' >= now
  BY MaxTimeAssumption DEF ControlsInv, Tick
<1>2. UNCHANGED <<rotationVars, pauseVars, freezeVars, lineVars, cooldownVars>>
  BY DEF controlVars
<1>3. CooldownInv'
  <2>1. 1..now \cup {Nobody} \subseteq 1..now' \cup {Nobody}
    BY <1>1
  <2>2. /\ cooldown \in [Kinds -> Cooldowns] /\ acted = last_action
        /\ last_action \in [Kinds -> [Keys -> 1..now \cup {Nobody}]]
    BY DEF ControlsInv, CooldownInv
  <2>3. last_action \in [Kinds -> [Keys -> 1..now' \cup {Nobody}]]
    BY <2>1, <2>2
  <2> QED
    BY <1>2, <2>2, <2>3 DEF CooldownInv, cooldownVars
<1>4. RotationInv' /\ PauseInv' /\ FreezeInv' /\ LineInv'
  BY <1>2 DEF ControlsInv, RotationInv, PauseInv, PauseReasonCurrent, FreezeInv, LineInv,
              rotationVars, pauseVars, freezeVars, lineVars
<1>5. HandedOver /\ Spaced
  BY <1>2 DEF HandedOver, Spaced, rotationVars, cooldownVars
<1> QED
  BY <1>1, <1>3, <1>4, <1>5 DEF ControlsInv

\* Every call keeps the invariant of the controls and both action properties.
LEMMA NextControlsInv ==
  ASSUME ControlsInv, [GovernanceNext]_governanceVars
  PROVE  ControlsInv' /\ HandedOver /\ Spaced
<1>1. CASE RotationNoticed
  BY <1>1, RotationKeeps DEF RotationNoticed
<1>2. CASE PauseNoticed
  BY <1>2, PauseKeeps DEF PauseNoticed
<1>3. CASE FreezeNoticed
  <2>1. FreezeCall
    BY <1>3 DEF FreezeNoticed, FreezeCall
  <2> QED
    BY <2>1, FreezesKeep
<1>4. CASE LineNext \/ CooldownNext
  BY <1>4, LinesKeep, CooldownKeeps
<1>5. CASE FeedCall
  <2>1. UNCHANGED <<now, controlVars>>
    BY <1>5 DEF FeedCall, RegistryNoticed, BreakerNext
  <2> QED
    BY <2>1, QuietKeeps
<1>6. CASE PolicyCall
  <2>1. CASE UNCHANGED <<now, controlVars>>
    BY <2>1, QuietKeeps
  <2>2. CASE \E b \in Holders, l \in Limits, r \in Rates, s \in Scores :
               OpenCreditLine(b, l, r, s) \/ UpdateRiskParameters(b, l, r, s)
    <3>1. LineNext
      BY <2>2 DEF OpenCreditLine, UpdateRiskParameters, LineNext
    <3> QED
      BY <3>1, LinesKeep
  <2> QED
    BY <1>6, <2>1, <2>2 DEF PolicyCall, PricingNext, AttestationNext
<1>7. CASE BesideCall
  <2>1. UNCHANGED <<now, controlVars>>
    BY <1>7 DEF BesideCall, CompanionsNext
  <2> QED
    BY <2>1, QuietKeeps
<1>8. CASE Tick /\ UNCHANGED controlVars
  BY <1>8, QuietKeeps
<1>9. CASE UNCHANGED governanceVars
  <2>1. UNCHANGED <<now, controlVars>>
    BY <1>9 DEF governanceVars
  <2> QED
    BY <2>1, QuietKeeps
<1> QED
  BY <1>1, <1>2, <1>3, <1>4, <1>5, <1>6, <1>7, <1>8, <1>9 DEF GovernanceNext, ControlsCall

LEMMA InitControlsInv == GovernanceInit => ControlsInv
<1> SUFFICES ASSUME GovernanceInit PROVE ControlsInv
  OBVIOUS
<1>1. 0 \in Cooldowns /\ now \in 1..MaxTime
  BY ControlsAssumption DEF GovernanceInit
<1> QED
  BY <1>1 DEF GovernanceInit, ControlsInit, ControlsInv, RotationInv, PauseInv,
       PauseReasonCurrent, FreezeInv, LineInv, CooldownInv, LineStatuses

\* Every reachable state satisfies the invariant of the controls.
THEOREM ControlsInvariance == GovernanceSpec => []ControlsInv
<1>1. ControlsInv /\ [GovernanceNext]_governanceVars => ControlsInv'
  BY NextControlsInv
<1> QED
  BY <1>1, InitControlsInv, PTL DEF GovernanceSpec

\* What the capability views promise follows from the state the entrypoints decide on.
LEMMA ViewsHonest == ControlsInv => DrawViewHonest /\ LifecycleViewHonest
<1> SUFFICES ASSUME ControlsInv, NEW b \in Holders
             PROVE  /\ BorrowCapabilities(b).can_draw <=> DrawGate(b)
                    /\ BorrowCapabilities(b).can_repay <=> RepayGate(b)
                    /\ \A op \in {"suspend", "close", "default", "reinstate"} :
                         Capabilities(b)[op] <=> ~halted /\ lineStatus[b] \in From[op]
                    /\ Capabilities(b).close_own <=> CloseOwnGate(b)
                    /\ Capabilities(b).self_suspend <=> SelfSuspendGate(b)
                    /\ ~halted => (BorrowCapabilities(b).can_self_suspend <=> SelfSuspendGate(b))
  BY DEF DrawViewHonest, LifecycleViewHonest
<1>1. /\ now \in Nat /\ frozen_until[b] \in Nat \cup {Nobody} /\ Nobody \notin Nat
      /\ lineStatus[b] \in LineStatuses
  <2>1. now \in 1..MaxTime /\ MaxTime \in Nat /\ Expiries \subseteq Nat /\ Nobody \notin Nat
    BY ControlsAssumption, MaxTimeAssumption DEF ControlsInv
  <2>2. /\ frozen_until \in [Holders -> Expiries \cup {Nobody}]
        /\ lineStatus \in [Holders -> LineStatuses]
    BY DEF ControlsInv, FreezeInv, LineInv
  <2>3. frozen_until[b] \in Expiries \cup {Nobody} /\ lineStatus[b] \in LineStatuses
    BY <2>2
  <2>4. now \in Nat
    BY <2>1
  <2> QED
    BY <2>1, <2>3, <2>4
<1>2. (frozen_until[b] # Nobody => now >= frozen_until[b]) <=> ~IsBorrowerFrozen(b)
  BY <1>1 DEF IsBorrowerFrozen
<1>3. BorrowCapabilities(b).can_draw <=> DrawGate(b)
  BY <1>2, Zenon DEF BorrowCapabilities, DrawGate
<1>4. BorrowCapabilities(b).can_repay <=> RepayGate(b)
  BY DEF BorrowCapabilities, RepayGate
<1>5. \A op \in {"suspend", "close", "default", "reinstate"} :
        Capabilities(b)[op] <=> ~halted /\ lineStatus[b] \in From[op]
  <2>1. Capabilities(b)["suspend"] <=> ~halted /\ lineStatus[b] \in From["suspend"]
    BY <1>1 DEF Capabilities, From, LineStatuses
  <2>2. Capabilities(b)["close"] <=> ~halted /\ lineStatus[b] \in From["close"]
    BY <1>1 DEF Capabilities, From, LineStatuses
  <2>3. Capabilities(b)["default"] <=> ~halted /\ lineStatus[b] \in From["default"]
    BY <1>1 DEF Capabilities, From, LineStatuses
  <2>4. Capabilities(b)["reinstate"] <=> ~halted /\ lineStatus[b] \in From["reinstate"]
    BY <1>1 DEF Capabilities, From, LineStatuses
  <2> QED
    BY <2>1, <2>2, <2>3, <2>4
<1>6. Capabilities(b).close_own <=> CloseOwnGate(b)
  BY <1>1 DEF Capabilities, CloseOwnGate, From, LineStatuses
<1>7. Capabilities(b).self_suspend <=> SelfSuspendGate(b)
  BY DEF Capabilities, SelfSuspendGate
<1>8. ~halted => (BorrowCapabilities(b).can_self_suspend <=> SelfSuspendGate(b))
  BY DEF BorrowCapabilities, SelfSuspendGate
<1> QED
  BY <1>3, <1>4, <1>5, <1>6, <1>7, <1>8

\* The reason of a pause on file is the current one, and the capability views agree with the
\* entrypoints as far as status, debt, pause, freezes and the blocklist decide; can_self_suspend
\* does so only while the protocol is not paused.
THEOREM ControlsTold == GovernanceSpec => []ControlsSound
<1>1. ControlsInv => ControlsSound
  <2> SUFFICES ASSUME ControlsInv PROVE ControlsTypeOK
    BY ViewsHonest DEF ControlsSound, ControlsInv, PauseInv
  <2>1. now \in 1..MaxTime /\ MaxTime \in Nat
    BY MaxTimeAssumption DEF ControlsInv
  <2>2. 1..now \cup {Nobody} \subseteq Times
    BY <2>1 DEF Times
  <2>3. last_action \in [Kinds -> [Keys -> Times]]
    BY <2>2 DEF ControlsInv, CooldownInv
  <2> QED
    BY <2>3 DEF ControlsInv, ControlsTypeOK, RotationInv, PauseInv, FreezeInv, LineInv, CooldownInv
<1> QED
  BY <1>1, ControlsInvariance, PTL

\* The admin changes only to the address of the latest proposal and after its own delay, and two
\* admin actions of one kind on one borrower are at least the cooldown of the second apart.
THEOREM AdministrationInOrder == GovernanceSpec => AdministrationOrderly
<1>1. ControlsInv /\ [GovernanceNext]_governanceVars => [HandedOver]_<<now, controlVars>>
  BY NextControlsInv
<1>2. ControlsInv /\ [GovernanceNext]_governanceVars => [Spaced]_<<now, controlVars>>
  BY NextControlsInv
<1>3. GovernanceSpec => [][HandedOver]_<<now, controlVars>>
  BY <1>1, ControlsInvariance, PTL DEF GovernanceSpec
<1>4. GovernanceSpec => [][Spaced]_<<now, controlVars>>
  BY <1>2, ControlsInvariance, PTL DEF GovernanceSpec
<1> QED
  BY <1>3, <1>4 DEF AdministrationOrderly, HandoverFollowsProposal, AdminActionsSpaced, HandedOver, Spaced
-----------------------------------------------------------------------------
(* The notices *)

told == <<admin, proposal, halted, draws_frozen, line_freeze, frozen_until, blocked,
          oracle_weight, oracle_report, quorum_threshold, reporting_window>>

\* The watcher knows every control and setting, except that a freeze lifted before its expiry is
\* not reported: it may take a borrower to be frozen who is not.
NoticesShaped ==
  notices = [admin |-> notices.admin, proposal |-> notices.proposal, halted |-> notices.halted,
             draws_frozen |-> notices.draws_frozen, line_freeze |-> notices.line_freeze,
             frozen_until |-> notices.frozen_until, blocked |-> notices.blocked,
             weight |-> notices.weight, report |-> notices.report,
             threshold |-> notices.threshold, window |-> notices.window]

RotationTold ==
  /\ notices.admin = admin
  /\ notices.proposal = IF proposal = Nobody THEN Nobody
                        ELSE [to |-> proposal.to, accept_after |-> proposal.accept_after]

DrawsFrozenTold ==
  /\ draws_frozen # Nobody => draws_frozen \in [frozen : BOOLEAN, reason : FreezeReasons]
  /\ notices.draws_frozen \in BOOLEAN
  /\ notices.draws_frozen <=> IsDrawsFrozen

BorrowersTold ==
  /\ notices.line_freeze = line_freeze
  /\ DOMAIN notices.frozen_until = Holders
  /\ \A b \in Holders : frozen_until[b] # Nobody => notices.frozen_until[b] = frozen_until[b]
  /\ notices.blocked = blocked

NoticesInv ==
  /\ NoticesShaped /\ RotationTold
  /\ notices.halted \in BOOLEAN /\ (notices.halted <=> halted)
  /\ DrawsFrozenTold /\ BorrowersTold /\ RegistryFollowed

\* A step of which the events tell nothing leaves all of it alone.
LEMMA UntoldKeeps ==
  ASSUME NoticesInv, UNCHANGED <<notices, told>>
  PROVE  NoticesInv'
BY DEF NoticesInv, NoticesShaped, RotationTold, DrawsFrozenTold, IsDrawsFrozen, BorrowersTold,
       RegistryFollowed, told

LEMMA RotationTells ==
  ASSUME NoticesInv, ControlsInv, RotationNoticed, UNCHANGED feedVars
  PROVE  NoticesInv'
<1>1. UNCHANGED <<halted, draws_frozen, line_freeze, frozen_until, blocked,
                  oracle_weight, oracle_report, quorum_threshold, reporting_window>>
  BY DEF RotationNoticed, ProposeAdmin, AcceptAdmin, pauseVars, freezeVars, feedVars, registryVars
<1>2. CASE \E to \in Admins, d \in Delays :
             ProposeAdmin(to, d) /\ notices' = AdminRotationProposed(to, now + d)
  <2>1. PICK to \in Admins, d \in Delays :
               ProposeAdmin(to, d) /\ notices' = AdminRotationProposed(to, now + d)
    BY <1>2
  <2>2. /\ proposal' = [to |-> to, made |-> now, delay |-> d, accept_after |-> now + d]
        /\ admin' = admin
        /\ notices' = [notices EXCEPT !.proposal = [to |-> to, accept_after |-> now + d]]
    BY <2>1 DEF ProposeAdmin, AdminRotationProposed
  <2>3. proposal' # Nobody
    <3>1. now \in Nat /\ d \in Nat /\ now + d \in Nat
      BY ControlsAssumption, MaxTimeAssumption DEF ControlsInv
    <3> QED
      BY <2>2, <3>1, ControlsAssumption
  <2>4. proposal'.to = to /\ proposal'.accept_after = now + d
    BY <2>2
  <2> QED
    BY <1>1, <2>2, <2>3, <2>4 DEF NoticesInv, NoticesShaped, RotationTold, DrawsFrozenTold,
         IsDrawsFrozen, BorrowersTold, RegistryFollowed
<1>3. CASE AcceptAdmin /\ notices' = AdminRotationAccepted(proposal.to)
  <2>1. /\ admin' = proposal.to /\ proposal' = Nobody
        /\ notices' = [notices EXCEPT !.admin = proposal.to, !.proposal = Nobody]
    BY <1>3 DEF AcceptAdmin, AdminRotationAccepted
  <2> QED
    BY <1>1, <2>1 DEF NoticesInv, NoticesShaped, RotationTold, DrawsFrozenTold,
         IsDrawsFrozen, BorrowersTold, RegistryFollowed
<1> QED
  BY <1>2, <1>3 DEF RotationNoticed

LEMMA PauseTells ==
  ASSUME NoticesInv, ControlsInv, PauseNoticed, UNCHANGED feedVars
  PROVE  NoticesInv'
<1>1. PICK on \in BOOLEAN : /\ \/ SetHalted(on)
                               \/ \E r \in Reasons : SetHaltedWithReason(on, r)
                            /\ notices' = PausedEvent(on)
  BY DEF PauseNoticed
<1>2. /\ halted' = on
      /\ UNCHANGED <<admin, proposal, draws_frozen, line_freeze, frozen_until, blocked,
                     oracle_weight, oracle_report, quorum_threshold, reporting_window>>
  BY <1>1 DEF SetHalted, SetHaltedWithReason, rotationVars, freezeVars, feedVars, registryVars
<1>3. CASE on = halted
  <2>1. UNCHANGED <<notices, told>>
    BY <1>1, <1>2, <1>3 DEF PausedEvent, told
  <2> QED
    BY <2>1, UntoldKeeps
<1>4. CASE on # halted
  <2>1. notices' = [notices EXCEPT !.halted = on]
    BY <1>1, <1>4 DEF PausedEvent
  <2>2. notices'.halted = on
    BY <2>1 DEF NoticesInv, NoticesShaped
  <2>3. NoticesShaped' /\ RotationTold' /\ DrawsFrozenTold' /\ BorrowersTold' /\ RegistryFollowed'
    BY <1>2, <2>1 DEF NoticesInv, NoticesShaped, RotationTold, DrawsFrozenTold,
         IsDrawsFrozen, BorrowersTold, RegistryFollowed
  <2> QED
    BY <1>2, <2>2, <2>3 DEF NoticesInv
<1> QED
  BY <1>3, <1>4

LEMMA FreezeTells ==
  ASSUME NoticesInv, ControlsInv, FreezeNoticed, UNCHANGED feedVars
  PROVE  NoticesInv'
<1>1. UNCHANGED <<admin, proposal, halted, oracle_weight, oracle_report, quorum_threshold,
                  reporting_window>>
  BY DEF FreezeNoticed, FreezeDraws, UnfreezeDraws, FreezeCreditLine, UnfreezeCreditLine,
         FreezeBorrowerUntil, UnfreezeBorrower, SetBlocked, rotationVars, pauseVars,
         feedVars, registryVars
<1>2. /\ line_freeze \in [Holders -> FreezeReasons \cup {Nobody}]
      /\ frozen_until \in [Holders -> Expiries \cup {Nobody}] /\ blocked \subseteq Holders
  BY DEF ControlsInv, FreezeInv
<1>3. ASSUME NEW on \in BOOLEAN, NEW r \in FreezeReasons,
             draws_frozen' = [frozen |-> on, reason |-> r],
             UNCHANGED <<line_freeze, frozen_until, blocked>>, notices' = DrawsFrozenEvent(on)
      PROVE  NoticesInv'
  <2>1. notices' = [notices EXCEPT !.draws_frozen = on]
    BY <1>3 DEF DrawsFrozenEvent
  <2>2. /\ draws_frozen' \in [frozen : BOOLEAN, reason : FreezeReasons]
        /\ draws_frozen' # Nobody /\ draws_frozen'.frozen = on
    BY <1>3, ControlsAssumption
  <2>3. notices'.draws_frozen = on
    BY <2>1 DEF NoticesInv, NoticesShaped
  <2>4. DrawsFrozenTold'
    BY <2>2, <2>3 DEF DrawsFrozenTold, IsDrawsFrozen
  <2>5. NoticesShaped' /\ RotationTold' /\ BorrowersTold' /\ RegistryFollowed'
        /\ notices'.halted = notices.halted
    BY <1>1, <1>3, <2>1 DEF NoticesInv, NoticesShaped, RotationTold, BorrowersTold, RegistryFollowed
  <2> QED
    BY <1>1, <2>4, <2>5 DEF NoticesInv
<1>4. CASE \E r \in FreezeReasons : FreezeDraws(r) /\ notices' = DrawsFrozenEvent(TRUE)
  BY <1>3, <1>4 DEF FreezeDraws
<1>5. CASE UnfreezeDraws /\ notices' = DrawsFrozenEvent(FALSE)
  <2>1. PICK default \in FreezeReasons :
          draws_frozen' = [frozen |-> FALSE,
                           reason |-> IF draws_frozen = Nobody THEN default ELSE draws_frozen.reason]
    BY <1>5 DEF UnfreezeDraws
  <2>2. (IF draws_frozen = Nobody THEN default ELSE draws_frozen.reason) \in FreezeReasons
    BY DEF NoticesInv, DrawsFrozenTold
  <2>3. UNCHANGED <<line_freeze, frozen_until, blocked>>
    BY <1>5 DEF UnfreezeDraws
  <2> QED
    BY <1>3, <1>5, <2>1, <2>2, <2>3
<1>6. ASSUME NEW b \in Holders, NEW r, line_freeze' = [line_freeze EXCEPT ![b] = r],
             UNCHANGED <<draws_frozen, frozen_until, blocked>>,
             notices' = CreditLineFreezeEvent(b, r)
      PROVE  NoticesInv'
  <2>1. notices' = [notices EXCEPT !.line_freeze = [notices.line_freeze EXCEPT ![b] = r]]
    BY <1>6 DEF CreditLineFreezeEvent, NoticesInv, NoticesShaped
  <2> QED
    BY <1>1, <1>6, <2>1 DEF NoticesInv, NoticesShaped, RotationTold, DrawsFrozenTold,
         IsDrawsFrozen, BorrowersTold, RegistryFollowed
<1>7. CASE \E b \in Holders :
             \/ \E r \in FreezeReasons : FreezeCreditLine(b, r) /\ notices' = CreditLineFreezeEvent(b, r)
             \/ UnfreezeCreditLine(b) /\ notices' = CreditLineFreezeEvent(b, Nobody)
  BY <1>6, <1>7 DEF FreezeCreditLine, UnfreezeCreditLine
<1>8. CASE \E b \in Holders, e \in Expiries :
             FreezeBorrowerUntil(b, e) /\ notices' = BorrowerFrozenEvent(b, e)
  <2>1. PICK b \in Holders, e \in Expiries :
               FreezeBorrowerUntil(b, e) /\ notices' = BorrowerFrozenEvent(b, e)
    BY <1>8
  <2>2. /\ frozen_until' = [frozen_until EXCEPT ![b] = e]
        /\ UNCHANGED <<draws_frozen, line_freeze, blocked>>
    BY <2>1 DEF FreezeBorrowerUntil
  <2>3. notices' = [notices EXCEPT !.frozen_until = [notices.frozen_until EXCEPT ![b] = e]]
    BY <2>1 DEF BorrowerFrozenEvent, NoticesInv, NoticesShaped
  <2>4. BorrowersTold'
    BY <1>2, <2>2, <2>3 DEF NoticesInv, NoticesShaped, BorrowersTold
  <2>5. NoticesShaped' /\ RotationTold' /\ DrawsFrozenTold' /\ RegistryFollowed'
        /\ notices'.halted = notices.halted
    BY <1>1, <2>2, <2>3 DEF NoticesInv, NoticesShaped, RotationTold, DrawsFrozenTold,
         IsDrawsFrozen, RegistryFollowed
  <2> QED
    BY <1>1, <2>4, <2>5 DEF NoticesInv
<1>9. CASE \E b \in Holders : UnfreezeBorrower(b) /\ UNCHANGED notices
  <2>1. PICK b \in Holders : UnfreezeBorrower(b) /\ UNCHANGED notices
    BY <1>9
  <2>2. /\ frozen_until' = [frozen_until EXCEPT ![b] = Nobody]
        /\ UNCHANGED <<draws_frozen, line_freeze, blocked, notices>>
    BY <2>1 DEF UnfreezeBorrower
  <2> QED
    BY <1>1, <1>2, <2>2 DEF NoticesInv, NoticesShaped, RotationTold, DrawsFrozenTold,
         IsDrawsFrozen, BorrowersTold, RegistryFollowed
<1>10. ASSUME NEW group \in SUBSET Holders, NEW on \in BOOLEAN, SetBlocked(group, on),
              notices' = BorrowerBlockedEvents(group, on)
       PROVE  NoticesInv'
  <2>1. /\ blocked' = IF on THEN blocked \cup group ELSE blocked \ group
        /\ UNCHANGED <<draws_frozen, line_freeze, frozen_until>>
    BY <1>10 DEF SetBlocked
  <2>2. notices' = [notices EXCEPT !.blocked = IF on THEN notices.blocked \cup group
                                               ELSE notices.blocked \ group]
    BY <1>10 DEF BorrowerBlockedEvents, NoticesInv, NoticesShaped
  <2>3. notices'.blocked = blocked'
    BY <2>1, <2>2 DEF NoticesInv, NoticesShaped, BorrowersTold
  <2>4. NoticesShaped' /\ RotationTold' /\ DrawsFrozenTold' /\ RegistryFollowed'
        /\ notices'.halted = notices.halted /\ notices'.line_freeze = notices.line_freeze
        /\ notices'.frozen_until = notices.frozen_until
    BY <1>1, <2>1, <2>2 DEF NoticesInv, NoticesShaped, RotationTold, DrawsFrozenTold,
         IsDrawsFrozen, RegistryFollowed
  <2> QED
    BY <1>1, <2>1, <2>3, <2>4 DEF NoticesInv, BorrowersTold
<1> QED
  BY <1>4, <1>5, <1>7, <1>8, <1>9, <1>10 DEF FreezeNoticed

LEMMA RegistryTells ==
  ASSUME NoticesInv, RegistryNoticed
  PROVE  NoticesInv'
<1>1. UNCHANGED <<admin, proposal, halted, draws_frozen, line_freeze, frozen_until, blocked>>
  BY DEF RegistryNoticed, controlVars, rotationVars, pauseVars, freezeVars
<1>2. /\ NoticesShaped' /\ RegistryFollowed'
      /\ notices'.admin = notices.admin /\ notices'.proposal = notices.proposal
      /\ notices'.halted = notices.halted /\ notices'.draws_frozen = notices.draws_frozen
      /\ notices'.line_freeze = notices.line_freeze /\ notices'.blocked = notices.blocked
      /\ notices'.frozen_until = notices.frozen_until
  <2>1. NoticesShaped /\ RegistryFollowed
    BY DEF NoticesInv
  <2>2. CASE \E o \in Feeders, w \in Weights : AddOracle(o, w) /\ notices' = OracleAddedEvent(o, w)
    BY <2>1, <2>2 DEF AddOracle, OracleAddedEvent, NoticesShaped, RegistryFollowed
  <2>3. CASE \E o \in Feeders : RemoveOracle(o) /\ notices' = OracleRemovedEvent(o)
    BY <2>1, <2>3 DEF RemoveOracle, OracleRemovedEvent, NoticesShaped, RegistryFollowed
  <2>4. CASE \E o \in Feeders, v \in Values : ReportValue(o, v) /\ notices' = OracleValueReportedEvent(o, v)
    BY <2>1, <2>4 DEF ReportValue, OracleValueReportedEvent, NoticesShaped, RegistryFollowed
  <2>5. CASE \E t \in Thresholds : SetQuorumThreshold(t) /\ notices' = OracleQuorumThresholdSetEvent(t)
    BY <2>1, <2>5 DEF SetQuorumThreshold, OracleQuorumThresholdSetEvent, NoticesShaped, RegistryFollowed
  <2>6. CASE \E w \in Windows : SetReportingWindow(w) /\ notices' = OracleReportingWindowSetEvent(w)
    BY <2>1, <2>6 DEF SetReportingWindow, OracleReportingWindowSetEvent, NoticesShaped, RegistryFollowed
  <2> QED
    BY <2>2, <2>3, <2>4, <2>5, <2>6 DEF RegistryNoticed
<1> QED
  BY <1>1, <1>2 DEF NoticesInv, RotationTold, DrawsFrozenTold, IsDrawsFrozen, BorrowersTold

\* Every call keeps the watcher informed.
LEMMA NextNoticesInv ==
  ASSUME NoticesInv, ControlsInv, [GovernanceNext]_governanceVars
  PROVE  NoticesInv'
<1>1. CASE ControlsCall
  <2>1. UNCHANGED feedVars
    BY <1>1 DEF ControlsCall
  <2>2. CASE LineNext /\ UNCHANGED notices
    <3>1. UNCHANGED <<rotationVars, pauseVars, freezeVars>>
      BY <2>2 DEF LineNext, OpenLine, AdminTransition, OwnTransition, Forgive, UpdateRisk, Draw, Repay
    <3>2. UNCHANGED told
      BY <2>1, <3>1 DEF told, rotationVars, pauseVars, freezeVars, feedVars, registryVars
    <3> QED
      BY <2>2, <3>2, UntoldKeeps
  <2>3. CASE CooldownNext /\ UNCHANGED notices
    <3>1. UNCHANGED <<rotationVars, pauseVars, freezeVars>>
      BY <2>3 DEF CooldownNext, SetCooldown, SetCollateralCooldown, SetCollateralPolicy
    <3>2. UNCHANGED told
      BY <2>1, <3>1 DEF told, rotationVars, pauseVars, freezeVars, feedVars, registryVars
    <3> QED
      BY <2>3, <3>2, UntoldKeeps
  <2>4. CASE Tick /\ UNCHANGED <<controlVars, notices>>
    <3>1. UNCHANGED told
      BY <2>1, <2>4 DEF told, controlVars, rotationVars, pauseVars, freezeVars, feedVars, registryVars
    <3> QED
      BY <2>4, <3>1, UntoldKeeps
  <2> QED
    BY <1>1, <2>1, <2>2, <2>3, <2>4, RotationTells, PauseTells, FreezeTells DEF ControlsCall
<1>2. CASE FeedCall
  <2>1. CASE BreakerNext /\ UNCHANGED notices
    <3>1. UNCHANGED <<controlVars, registryVars>>
      BY <2>1 DEF BreakerNext, SetOracleConfig, SetOracleQuorumConfig, SubmitOraclePrices, SettleWithPrice
    <3>2. UNCHANGED told
      BY <3>1 DEF told, controlVars, rotationVars, pauseVars, freezeVars, registryVars
    <3> QED
      BY <2>1, <3>2, UntoldKeeps
  <2> QED
    BY <1>2, <2>1, RegistryTells DEF FeedCall
<1>3. CASE PolicyCall
  <2>1. UNCHANGED <<rotationVars, pauseVars, freezeVars, feedVars, notices>>
    <3>1. UNCHANGED <<feedVars, notices>>
      BY <1>3 DEF PolicyCall
    <3>2. CASE UNCHANGED controlVars
      BY <3>1, <3>2 DEF controlVars
    <3>3. CASE \E b \in Holders, l \in Limits, r \in Rates, s \in Scores :
                 OpenCreditLine(b, l, r, s) \/ UpdateRiskParameters(b, l, r, s)
      BY <3>1, <3>3 DEF OpenCreditLine, OpenLine, UpdateRiskParameters, UpdateRisk
    <3> QED
      BY <1>3, <3>2, <3>3 DEF PolicyCall, PricingNext, AttestationNext
  <2>2. UNCHANGED told
    BY <2>1 DEF told, rotationVars, pauseVars, freezeVars, feedVars, registryVars
  <2> QED
    BY <2>1, <2>2, UntoldKeeps
<1>4. CASE BesideCall \/ UNCHANGED governanceVars
  <2>1. UNCHANGED <<notices, told>>
    BY <1>4 DEF BesideCall, governanceVars, told, controlVars, rotationVars, pauseVars, freezeVars,
                feedVars, registryVars
  <2> QED
    BY <2>1, UntoldKeeps
<1> QED
  BY <1>1, <1>2, <1>3, <1>4 DEF GovernanceNext

\* A watcher of the notices is never surprised by a refused draw, knows the admin and the
\* pending proposal, and can rebuild the oracle registry.
THEOREM NoticesSuffice == GovernanceSpec => []FollowersCurrent
<1>1. GovernanceInit => NoticesInv
  BY DEF GovernanceInit, ControlsInit, FeedsInit, NoticesInit, NoticesInv, NoticesShaped, RotationTold,
         DrawsFrozenTold, IsDrawsFrozen, BorrowersTold, RegistryFollowed
<1>2. NoticesInv /\ ControlsInv /\ [GovernanceNext]_governanceVars => NoticesInv'
  BY NextNoticesInv
<1>3. NoticesInv => FollowersCurrent
  <2> SUFFICES ASSUME NoticesInv, NEW b \in Holders, WatcherSaysFree(b), DrawStatusOK(lineStatus[b])
               PROVE  DrawGate(b)
    BY DEF FollowersCurrent, WatcherNotSurprised, NoticesInv, RotationTold
  <2>1. ~halted /\ ~IsDrawsFrozen
    BY Zenon DEF NoticesInv, WatcherSaysFree, DrawsFrozenTold
  <2>3. b \notin blocked /\ line_freeze[b] = Nobody
    BY Zenon DEF NoticesInv, WatcherSaysFree, BorrowersTold
  <2>2. frozen_until[b] # Nobody => now >= frozen_until[b]
    BY Zenon DEF NoticesInv, WatcherSaysFree, BorrowersTold
  <2> QED
    BY <2>1, <2>2, <2>3 DEF DrawGate
<1> QED
  BY <1>1, <1>2, <1>3, ControlsInvariance, PTL DEF GovernanceSpec
-----------------------------------------------------------------------------
(* The companion contracts *)

\* The stamp the risk contract compares with is that of the latest action, and it is not 0.
CompanionsInv ==
  /\ legacy \in [Users -> Int \cup {Absent}] /\ versioned \in [Users -> Int \cup {Absent}]
  /\ books \in [Users -> Int]
  /\ BalancesCarriedOver /\ StoredOnce
  /\ rest \in Nat /\ last_ts \in Nat
  /\ recorded # Absent => recorded = last_ts /\ last_ts > 0

RiskSpaced == recorded' # recorded /\ recorded # Absent /\ rest > 0 => now >= recorded + rest

\* A deposit or a withdrawal moves an entry of the old format and changes the balance by the amount.
LEMMA BalanceMoves ==
  ASSUME CompanionsInv, NEW u \in Users, NEW d \in Int,
         StoreBalance(u, LoadBalance(u).amount + d), books' = [books EXCEPT ![u] = books[u] + d]
  PROVE  /\ legacy' \in [Users -> Int \cup {Absent}] /\ versioned' \in [Users -> Int \cup {Absent}]
         /\ books' \in [Users -> Int] /\ BalancesCarriedOver' /\ StoredOnce'
<1>1. /\ legacy \in [Users -> Int \cup {Absent}] /\ versioned \in [Users -> Int \cup {Absent}]
      /\ books \in [Users -> Int] /\ Absent \notin Int
      /\ \A x \in Users : LoadBalance(x).amount = books[x]
      /\ \A x \in Users : legacy[x] = Absent \/ versioned[x] = Absent
  BY CompanionsAssumption DEF CompanionsInv, BalancesCarriedOver, StoredOnce
<1> DEFINE new == books[u] + d
<1>2. new \in Int /\ LoadBalance(u).amount + d = new
  BY <1>1
<1> HIDE DEF new
<1>3. /\ versioned' = [versioned EXCEPT ![u] = new]
      /\ legacy' = IF LoadBalance(u).migrate THEN [legacy EXCEPT ![u] = Absent] ELSE legacy
      /\ books' = [books EXCEPT ![u] = new]
  BY <1>2 DEF StoreBalance, new
<1>4. /\ legacy' \in [Users -> Int \cup {Absent}] /\ versioned' \in [Users -> Int \cup {Absent}]
      /\ books' \in [Users -> Int]
  BY <1>1, <1>2, <1>3
<1>5. legacy'[u] = Absent
  <2>1. CASE versioned[u] # Absent
    BY <1>1, <1>3, <2>1
  <2>2. CASE versioned[u] = Absent /\ legacy[u] # Absent
    <3>1. LoadBalance(u).migrate
      BY <2>2 DEF LoadBalance
    <3> QED
      BY <1>1, <1>3, <3>1
  <2>3. CASE versioned[u] = Absent /\ legacy[u] = Absent
    BY <1>1, <1>3, <2>3
  <2> QED
    BY <2>1, <2>2, <2>3
<1>6. \A x \in Users : x # u => legacy'[x] = legacy[x] /\ versioned'[x] = versioned[x] /\ books'[x] = books[x]
  BY <1>1, <1>3
<1>7. StoredOnce'
  BY <1>1, <1>5, <1>6 DEF StoredOnce
<1>8. BalancesCarriedOver'
  <2>1. LoadBalance(u)'.amount = new /\ books'[u] = new
    BY <1>1, <1>2, <1>3 DEF LoadBalance
  <2>2. \A x \in Users : x # u => LoadBalance(x)' = LoadBalance(x)
    BY <1>6 DEF LoadBalance
  <2> QED
    BY <1>1, <1>6, <2>1, <2>2 DEF BalancesCarriedOver
<1> QED
  BY <1>4, <1>7, <1>8

LEMMA NextCompanionsInv ==
  ASSUME CompanionsInv, now \in Nat \ {0}, [GovernanceNext]_governanceVars
  PROVE  CompanionsInv' /\ RiskSpaced
<1>1. CASE UNCHANGED companionVars
  BY <1>1 DEF companionVars, balanceVars, keeperVars, CompanionsInv, BalancesCarriedOver, StoredOnce,
              LoadBalance, RiskSpaced
<1>2. CASE CompanionsNext
  <2>1. CASE /\ \E u \in Users, amount \in Sums : Deposit(u, amount) \/ Withdraw(u, amount)
             /\ UNCHANGED <<now, keeperVars>>
    <3>1. PICK u \in Users, amount \in Sums : Deposit(u, amount) \/ Withdraw(u, amount)
      BY <2>1
    <3>2. amount \in Int /\ Sums \subseteq Int /\ LoadBalance(u).amount \in Int /\ books[u] \in Int
      BY CompanionsAssumption DEF CompanionsInv, BalancesCarriedOver
    <3>3. \E d \in Int : /\ StoreBalance(u, LoadBalance(u).amount + d)
                         /\ books' = [books EXCEPT ![u] = books[u] + d]
      <4>1. CASE Deposit(u, amount)
        BY <3>2, <4>1 DEF Deposit
      <4>2. CASE Withdraw(u, amount)
        <5>1. /\ LoadBalance(u).amount - amount = LoadBalance(u).amount + (-amount)
              /\ books[u] - amount = books[u] + (-amount) /\ -amount \in Int
          BY <3>2
        <5> QED
          BY <4>2, <5>1 DEF Withdraw
      <4> QED
        BY <3>1, <4>1, <4>2
    <3>4. /\ legacy' \in [Users -> Int \cup {Absent}] /\ versioned' \in [Users -> Int \cup {Absent}]
          /\ books' \in [Users -> Int] /\ BalancesCarriedOver' /\ StoredOnce'
      BY <3>3, BalanceMoves
    <3>5. UNCHANGED keeperVars
      BY <2>1
    <3> QED
      BY <3>4, <3>5 DEF CompanionsInv, RiskSpaced, keeperVars
  <2>2. CASE /\ \/ \E a \in Keepers : InitRisk(a)
                \/ \E on \in BOOLEAN : SetPaused(on)
                \/ \E s \in RestTimes : SetRiskAdminCooldown(s)
                \/ RecordRiskAdminAction
             /\ UNCHANGED <<now, balanceVars>>
    <3>1. /\ legacy' \in [Users -> Int \cup {Absent}] /\ versioned' \in [Users -> Int \cup {Absent}]
          /\ books' \in [Users -> Int] /\ BalancesCarriedOver' /\ StoredOnce'
      BY <2>2 DEF balanceVars, CompanionsInv, BalancesCarriedOver, StoredOnce, LoadBalance
    <3>2. /\ rest' \in Nat /\ last_ts' \in Nat
          /\ recorded' # Absent => recorded' = last_ts' /\ last_ts' > 0
      BY <2>2, CompanionsAssumption DEF CompanionsInv, InitRisk, SetPaused, SetRiskAdminCooldown,
                                        RecordRiskAdminAction
    <3>3. RiskSpaced
      BY <2>2 DEF CompanionsInv, RiskSpaced, InitRisk, SetPaused, SetRiskAdminCooldown,
                  RecordRiskAdminAction, CooldownElapsed
    <3> QED
      BY <3>1, <3>2, <3>3 DEF CompanionsInv
  <2> QED
    BY <1>2, <2>1, <2>2 DEF CompanionsNext
<1> QED
  BY <1>1, <1>2 DEF GovernanceNext, ControlsCall, FeedCall, PolicyCall, BesideCall, governanceVars

\* No balance is lost or counted twice in the move to the versioned entry, and recorded risk
\* actions keep the distance configured when they were made.
THEOREM CompanionsCorrect == GovernanceSpec => CompanionsSound
<1>1. GovernanceInit => CompanionsInv
  <2> SUFFICES ASSUME GovernanceInit PROVE CompanionsInv
    OBVIOUS
  <2>1. OldBalances \subseteq Int /\ Absent \notin Int
    BY CompanionsAssumption
  <2>2. /\ legacy \in [Users -> OldBalances \cup {Absent}] /\ versioned = [u \in Users |-> Absent]
        /\ books = [u \in Users |-> IF legacy[u] = Absent THEN 0 ELSE legacy[u]]
        /\ rest = 0 /\ last_ts = 0 /\ recorded = Absent
    BY DEF GovernanceInit, CompanionsInit
  <2>3. \A u \in Users : legacy[u] \in OldBalances \/ legacy[u] = Absent
    BY <2>2
  <2>4. legacy \in [Users -> Int \cup {Absent}] /\ books \in [Users -> Int]
    <3>1. \A x \in OldBalances : x \in Int
      BY <2>1
    <3>2. \A u \in Users : legacy[u] \in Int \/ legacy[u] = Absent
      BY <2>3, <3>1
    <3>3. legacy \in [Users -> Int \cup {Absent}]
      BY <2>2, <3>2, Zenon
    <3>4. \A u \in Users : (IF legacy[u] = Absent THEN 0 ELSE legacy[u]) \in Int
      BY <3>2
    <3> QED
      BY <2>2, <3>3, <3>4
  <2>5. ASSUME NEW u \in Users PROVE LoadBalance(u).amount = books[u]
    <3>1. versioned[u] = Absent /\ books[u] = IF legacy[u] = Absent THEN 0 ELSE legacy[u]
      BY <2>2
    <3> QED
      BY <3>1 DEF LoadBalance
  <2>6. versioned \in [Users -> Int \cup {Absent}] /\ StoredOnce
    BY <2>2 DEF StoredOnce
  <2> QED
    BY <2>2, <2>4, <2>5, <2>6 DEF CompanionsInv, BalancesCarriedOver
<1>2. ControlsInv /\ CompanionsInv /\ [GovernanceNext]_governanceVars => CompanionsInv' /\ RiskSpaced
  <2>1. ControlsInv => now \in Nat \ {0}
    BY MaxTimeAssumption DEF ControlsInv
  <2> QED
    BY <2>1, NextCompanionsInv
<1>3. CompanionsInv => BalancesCarriedOver /\ StoredOnce
  BY DEF CompanionsInv
<1>4. RiskSpaced => [RiskSpaced]_<<now, companionVars>>
  OBVIOUS
<1>5. GovernanceSpec => [](BalancesCarriedOver /\ StoredOnce) /\ [][RiskSpaced]_<<now, companionVars>>
  BY <1>1, <1>2, <1>3, <1>4, ControlsInvariance, PTL DEF GovernanceSpec
<1> QED
  BY <1>5 DEF CompanionsSound, RiskActionsSpaced, RiskSpaced
-----------------------------------------------------------------------------
(* The price of a line *)

\* The settings and the prices have their types, a formula on file is one the setter let through,
\* and no rate was changed in the future.
PolicyInv ==
  /\ now \in Nat
  /\ rate \in [Holders -> Nat] /\ score \in [Holders -> Nat] /\ rate_ts \in [Holders -> Nat]
  /\ \A b \in Holders : rate_ts[b] <= now
  /\ rate_floor \in [Holders -> Nat \cup {Nobody}] /\ rate_ceiling \in [Holders -> Nat \cup {Nobody}]
  /\ formula # Nobody => formula \in Formulas /\ ValidFormula(formula)
  /\ change_rule # Nobody => change_rule \in ChangeRules
  /\ batch \in [Holders -> Trees \cup {Nobody}]

\* compute_rate_from_score stays in the band of a formula the setter let through.
LEMMA RateInFormulaBand ==
  ASSUME NEW f \in Formulas, ValidFormula(f), NEW s \in Nat
  PROVE  /\ RateFromScore(f, s) \in Nat
         /\ f.min <= RateFromScore(f, s) /\ RateFromScore(f, s) <= f.max
<1>1. f.base \in Nat /\ f.slope \in Nat /\ f.min \in Nat /\ f.max \in Nat /\ TopRate \in Nat /\ TopU32 \in Nat
  BY PolicyAssumption
<1>2. f.min <= f.max /\ f.max <= TopRate
  BY DEF ValidFormula
<1> DEFINE raw == AtMost(f.base + AtMost(s * f.slope, TopU32), TopU32)
<1>3. raw \in Nat
  BY <1>1 DEF AtMost
<1> HIDE DEF raw
<1>4. AtMost(f.max, TopRate) = f.max /\ AtMost(f.min, f.max) = f.min
  BY <1>1, <1>2 DEF AtMost
<1>5. RateFromScore(f, s) = AtMost(AtLeast(raw, f.min), f.max)
  BY <1>4 DEF RateFromScore, raw
<1> QED
  BY <1>1, <1>2, <1>3, <1>5 DEF AtMost, AtLeast

\* It is monotone in the score, saturation included.
LEMMA RateMonotone ==
  ASSUME NEW f \in Formulas, NEW s \in Nat, NEW t \in Nat, s <= t
  PROVE  RateFromScore(f, s) <= RateFromScore(f, t)
<1>1. f.base \in Nat /\ f.slope \in Nat /\ f.min \in Nat /\ f.max \in Nat /\ TopRate \in Nat /\ TopU32 \in Nat
  BY PolicyAssumption
<1> DEFINE p == s * f.slope
           q == t * f.slope
<1>2. p \in Nat /\ q \in Nat /\ p <= q
  <2> DEFINE k == f.slope
  <2>1. k \in Nat
    BY <1>1
  <2> HIDE DEF k
  <2>2. s * k \in Nat /\ t * k \in Nat /\ s * k <= t * k
    BY <2>1
  <2> QED
    BY <2>2 DEF k
<1> HIDE DEF p, q
<1> DEFINE x == AtMost(f.base + AtMost(p, TopU32), TopU32)
           y == AtMost(f.base + AtMost(q, TopU32), TopU32)
           upper == AtMost(f.max, TopRate)
           lower == AtMost(f.min, upper)
<1>3. x \in Nat /\ y \in Nat /\ x <= y
  BY <1>1, <1>2 DEF AtMost
<1>4. upper \in Nat /\ lower \in Nat
  BY <1>1 DEF AtMost
<1>5. RateFromScore(f, s) = AtMost(AtLeast(x, lower), upper) /\ RateFromScore(f, t) = AtMost(AtLeast(y, lower), upper)
  BY DEF RateFromScore, p, q
<1> HIDE DEF x, y, upper, lower
<1> QED
  BY <1>3, <1>4, <1>5 DEF AtMost, AtLeast

\* What the floor and the ceiling make of a price.
LEMMA FinalRateInBand ==
  ASSUME PolicyInv, NEW b \in Holders, NEW r \in Nat, NEW s \in Nat
  PROVE  /\ FinalRate(b, r, s) \in Nat
         /\ rate_ceiling[b] # Nobody => FinalRate(b, r, s) <= rate_ceiling[b]
         /\ rate_floor[b] # Nobody => FinalRate(b, r, s) >= rate_floor[b] \/ FinalRate(b, r, s) = rate_ceiling[b]
         /\ formula # Nobody =>
              /\ FinalRate(b, r, s) > formula.max =>
                   \/ FinalRate(b, r, s) = rate_floor[b]
                   \/ FinalRate(b, r, s) = rate_ceiling[b] /\ rate_ceiling[b] < rate_floor[b]
              /\ FinalRate(b, r, s) < formula.min => FinalRate(b, r, s) = rate_ceiling[b]
<1> DEFINE priced == IF formula # Nobody THEN RateFromScore(formula, s) ELSE r
           low == rate_floor[b]
           high == rate_ceiling[b]
           floored == IF low # Nobody THEN AtLeast(priced, low) ELSE priced
<1>1. priced \in Nat /\ (formula # Nobody => /\ formula.min \in Nat /\ formula.max \in Nat
                                             /\ formula.min <= priced /\ priced <= formula.max)
  BY RateInFormulaBand, PolicyAssumption DEF PolicyInv
<1>2. low \in Nat \cup {Nobody} /\ high \in Nat \cup {Nobody} /\ Nobody \notin Nat
  BY ControlsAssumption DEF PolicyInv
<1>3. FinalRate(b, r, s) = IF high # Nobody THEN AtMost(floored, high) ELSE floored
  BY DEF FinalRate
<1> HIDE DEF priced, low, high
<1>4. floored \in Nat /\ floored >= priced /\ (low = Nobody => floored = priced)
      /\ (low # Nobody => floored >= low /\ (floored = priced \/ floored = low))
  BY <1>1, <1>2 DEF AtLeast
<1> HIDE DEF floored
<1> DEFINE x == IF high # Nobody THEN AtMost(floored, high) ELSE floored
<1>5. x \in Nat /\ (high = Nobody => x = floored)
      /\ (high # Nobody => x <= high /\ x <= floored /\ (x = floored \/ x = high))
  BY <1>2, <1>4 DEF AtMost
<1> HIDE DEF x
<1>6. /\ high # Nobody => x <= high
      /\ low # Nobody => x >= low \/ x = high
  BY <1>2, <1>4, <1>5
<1>7. ASSUME formula # Nobody
      PROVE  /\ x > formula.max => x = low \/ (x = high /\ high < low)
             /\ x < formula.min => x = high
  <2> DEFINE fmin == formula.min
             fmax == formula.max
  <2>1. fmin \in Nat /\ fmax \in Nat /\ fmin <= priced /\ priced <= fmax
    BY <1>1, <1>7
  <2> HIDE DEF fmin, fmax
  <2>2. /\ x > fmax => x = low \/ (x = high /\ high < low)
        /\ x < fmin => x = high
    BY <1>1, <1>2, <1>4, <1>5, <2>1
  <2> QED
    BY <2>2 DEF fmin, fmax
<1> QED
  BY <1>3, <1>5, <1>6, <1>7 DEF x, low, high

\* The three action properties, of one step.
BandStep ==
  \A b \in Holders : Repriced(b) =>
    /\ rate_ceiling[b] # Nobody => rate'[b] <= rate_ceiling[b]
    /\ rate_floor[b] # Nobody => rate'[b] >= rate_floor[b] \/ rate'[b] = rate_ceiling[b]
    /\ formula # Nobody =>
         /\ rate'[b] > formula.max => \/ rate'[b] = rate_floor[b]
                                      \/ rate'[b] = rate_ceiling[b] /\ rate_ceiling[b] < rate_floor[b]
         /\ rate'[b] < formula.min => rate'[b] = rate_ceiling[b]
LimitedStep ==
  \A b \in Holders : Repriced(b) /\ change_rule # Nobody =>
    /\ rate'[b] - rate[b] \in -change_rule.delta..change_rule.delta
    /\ rate_ts[b] > 0 => now >= rate_ts[b] + change_rule.interval
    /\ rate_ts'[b] = now
ScoreStep ==
  \A b \in Holders :
    score'[b] # score[b] /\ commitment[b] # Nobody /\ lineStatus[b] = "Active"
      => score'[b] = DeriveScore(commitment[b])

\* A step that prices no line.
LEMMA Unpriced ==
  ASSUME UNCHANGED <<rate, score>>
  PROVE  BandStep /\ LimitedStep /\ ScoreStep
BY DEF BandStep, LimitedStep, ScoreStep, Repriced

\* A new setting is one its setter let through.
LEMMA SettingsKeep ==
  ASSUME PolicyInv, SettingsStep, UNCHANGED <<now, controlVars>>
  PROVE  PolicyInv' /\ UNCHANGED <<rate, score>>
<1>1. UNCHANGED <<rate, score, limit, rate_ts, batch>>
  BY DEF SettingsStep, SetRateFormula, ClearRateFormula, SetRateChangeLimits, SetCreditLimitBounds,
         SetBorrowerRateFloor, SetBorrowerRateCeiling, priceVars
<1>2. formula' # Nobody => formula' \in Formulas /\ ValidFormula(formula)'
  BY DEF SettingsStep, SetRateFormula, ClearRateFormula, SetRateChangeLimits, SetCreditLimitBounds,
         SetBorrowerRateFloor, SetBorrowerRateCeiling, PolicyInv, ValidFormula
<1>3. change_rule' # Nobody => change_rule' \in ChangeRules
  BY DEF SettingsStep, SetRateFormula, ClearRateFormula, SetRateChangeLimits, SetCreditLimitBounds,
         SetBorrowerRateFloor, SetBorrowerRateCeiling, PolicyInv
<1>4. Floors \subseteq Nat
  BY PolicyAssumption
<1>5. rate_floor' \in [Holders -> Nat \cup {Nobody}] /\ rate_ceiling' \in [Holders -> Nat \cup {Nobody}]
  <2>1. rate_floor \in [Holders -> Nat \cup {Nobody}] /\ rate_ceiling \in [Holders -> Nat \cup {Nobody}]
    BY DEF PolicyInv
  <2>2. ASSUME NEW b \in Holders, NEW x \in Floors, SetBorrowerRateFloor(b, x) \/ SetBorrowerRateCeiling(b, x)
        PROVE  rate_floor' \in [Holders -> Nat \cup {Nobody}] /\ rate_ceiling' \in [Holders -> Nat \cup {Nobody}]
    BY <1>4, <2>1, <2>2 DEF SetBorrowerRateFloor, SetBorrowerRateCeiling
  <2>3. CASE UNCHANGED <<rate_floor, rate_ceiling>>
    BY <2>1, <2>3
  <2> QED
    BY <2>2, <2>3 DEF SettingsStep, SetRateFormula, ClearRateFormula, SetRateChangeLimits, SetCreditLimitBounds
<1> QED
  BY <1>1, <1>2, <1>3, <1>5 DEF PolicyInv

\* An opening prices a line that was not Active.
LEMMA OpeningPrices ==
  ASSUME PolicyInv, LineInv, NEW b \in Holders, NEW l \in Limits, NEW r \in Rates, NEW s \in Scores,
         OpenCreditLine(b, l, r, s)
  PROVE  PolicyInv' /\ BandStep /\ LimitedStep /\ ScoreStep
<1>1. /\ UNCHANGED <<now, formula, change_rule, rate_floor, rate_ceiling, batch>> /\ lineStatus[b] # "Active"
      /\ rate' = [rate EXCEPT ![b] = r] /\ score' = [score EXCEPT ![b] = s] /\ rate_ts' = [rate_ts EXCEPT ![b] = 0]
  BY DEF OpenCreditLine, OpenLine, termVars
<1>2. r \in Nat /\ s \in Nat
  BY PolicyAssumption
<1>3. PolicyInv'
  BY <1>1, <1>2 DEF PolicyInv, ValidFormula
<1>4. \A c \in Holders : c # b => rate'[c] = rate[c] /\ score'[c] = score[c]
  BY <1>1 DEF PolicyInv
<1>5. BandStep /\ LimitedStep /\ ScoreStep
  BY <1>1, <1>4 DEF BandStep, LimitedStep, ScoreStep, Repriced
<1> QED
  BY <1>3, <1>5

\* A risk update prices the line it names and no other, as the terms in force allow.
LEMMA UpdatePrices ==
  ASSUME PolicyInv, NEW b \in Holders, NEW l \in Limits, NEW r \in Rates, NEW s \in Scores,
         UpdateRiskParameters(b, l, r, s)
  PROVE  PolicyInv' /\ BandStep /\ LimitedStep /\ ScoreStep
<1> DEFINE final == FinalRate(b, r, s)
<1>1. /\ UNCHANGED <<now, formula, change_rule, rate_floor, rate_ceiling, batch>>
      /\ ScoreAllowed(b, s) /\ ChangeAllowed(b, final)
      /\ rate' = [rate EXCEPT ![b] = final] /\ score' = [score EXCEPT ![b] = s]
      /\ rate_ts' = IF change_rule # Nobody /\ final # rate[b] THEN [rate_ts EXCEPT ![b] = now] ELSE rate_ts
  BY DEF UpdateRiskParameters, UpdateRisk, termVars
<1>2. r \in Nat /\ s \in Nat
  BY PolicyAssumption
<1>3. /\ final \in Nat
      /\ rate_ceiling[b] # Nobody => final <= rate_ceiling[b]
      /\ rate_floor[b] # Nobody => final >= rate_floor[b] \/ final = rate_ceiling[b]
      /\ formula # Nobody =>
           /\ final > formula.max => \/ final = rate_floor[b]
                                     \/ final = rate_ceiling[b] /\ rate_ceiling[b] < rate_floor[b]
           /\ final < formula.min => final = rate_ceiling[b]
  BY <1>2, FinalRateInBand
<1> HIDE DEF final
<1>4. PolicyInv'
  BY <1>1, <1>2, <1>3 DEF PolicyInv, ValidFormula
<1>5. /\ \A c \in Holders : c # b => rate'[c] = rate[c] /\ score'[c] = score[c]
      /\ rate'[b] = final /\ score'[b] = s
  BY <1>1 DEF PolicyInv
<1>6. BandStep
  BY <1>3, <1>5 DEF BandStep, Repriced
<1>7. ASSUME change_rule # Nobody, final # rate[b]
      PROVE  /\ final - rate[b] \in -change_rule.delta..change_rule.delta
             /\ rate_ts[b] > 0 => now >= rate_ts[b] + change_rule.interval
             /\ rate_ts'[b] = now
  <2> DEFINE delta == change_rule.delta
             interval == change_rule.interval
             old == rate[b]
             last == rate_ts[b]
  <2>1. delta \in Nat /\ interval \in Nat /\ old \in Nat /\ last \in Nat /\ last <= now /\ now \in Nat
    BY <1>7, PolicyAssumption DEF PolicyInv
  <2>2. Difference(final, old) <= delta /\ (interval > 0 /\ last > 0 => now - last >= interval)
    BY <1>1, <1>7 DEF ChangeAllowed
  <2>3. rate_ts'[b] = now
    BY <1>1, <1>7 DEF PolicyInv
  <2> HIDE DEF delta, interval, old, last
  <2>4. final - old \in -delta..delta /\ (last > 0 => now >= last + interval)
    BY <1>3, <2>1, <2>2 DEF Difference
  <2> QED
    BY <2>3, <2>4 DEF delta, interval, old, last
<1>8. LimitedStep
  BY <1>5, <1>7 DEF LimitedStep, Repriced
<1>9. ScoreStep
  BY <1>1, <1>5 DEF ScoreStep, ScoreAllowed
<1> QED
  BY <1>4, <1>6, <1>8, <1>9

\* Every call keeps the invariant of the prices and the three action properties.
LEMMA NextPolicyInv ==
  ASSUME PolicyInv, ControlsInv, [GovernanceNext]_governanceVars
  PROVE  PolicyInv' /\ BandStep /\ LimitedStep /\ ScoreStep
<1>1. CASE UNCHANGED policyVars /\ ~PolicyCall
  <2>1. UNCHANGED <<formula, change_rule, rate_floor, rate_ceiling, rate, score, rate_ts, batch>>
    BY <1>1 DEF policyVars, termVars, priceVars
  <2>2. now' = now \/ now' = now + 1
    <3>1. CASE ControlsCall
      <4>1. CASE Tick
        BY <4>1 DEF Tick
      <4>2. CASE ~Tick
        BY <3>1, <4>2 DEF ControlsCall, RotationNoticed, PauseNoticed, FreezeNoticed, LineNext, CooldownNext,
          ProposeAdmin, AcceptAdmin, SetHalted, SetHaltedWithReason, FreezeDraws, UnfreezeDraws,
          FreezeCreditLine, UnfreezeCreditLine, FreezeBorrowerUntil, UnfreezeBorrower, SetBlocked,
          OpenLine, AdminTransition, OwnTransition, Forgive, UpdateRisk, Draw, Repay,
          SetCooldown, SetCollateralCooldown, SetCollateralPolicy
      <4> QED
        BY <4>1, <4>2
    <3>2. CASE FeedCall
      BY <3>2 DEF FeedCall, RegistryNoticed, BreakerNext
    <3>3. CASE BesideCall
      BY <3>3 DEF BesideCall, CompanionsNext
    <3>4. CASE UNCHANGED governanceVars
      BY <3>4 DEF governanceVars
    <3> QED
      BY <1>1, <3>1, <3>2, <3>3, <3>4 DEF GovernanceNext
  <2>3. PolicyInv'
    BY <2>1, <2>2 DEF PolicyInv, ValidFormula
  <2> QED
    BY <2>1, <2>3, Unpriced
<1>2. CASE PolicyCall
  <2>1. CASE SettingsStep /\ UNCHANGED <<now, controlVars>>
    BY <2>1, SettingsKeep, Unpriced
  <2>2. CASE \E b \in Holders : /\ \/ ClearVrfCommitment(b)
                                   \/ \E h \in Hashes : CommitVrfOutput(b, h)
                                /\ UNCHANGED <<now, controlVars>>
    <3>1. UNCHANGED <<now, formula, change_rule, rate_floor, rate_ceiling, rate, score, rate_ts, batch>>
      BY <2>2 DEF ClearVrfCommitment, CommitVrfOutput, termVars, priceVars
    <3>2. PolicyInv'
      BY <3>1 DEF PolicyInv, ValidFormula
    <3> QED
      BY <3>1, <3>2, Unpriced
  <2>3. CASE \E b \in Holders, l \in Limits, r \in Rates, s \in Scores :
               OpenCreditLine(b, l, r, s) \/ UpdateRiskParameters(b, l, r, s)
    BY <2>3, OpeningPrices, UpdatePrices DEF ControlsInv
  <2>4. CASE AttestationNext
    <3>1. PICK b \in Holders, t \in Trees \cup {Nobody} : batch' = [batch EXCEPT ![b] = t]
      BY <2>4 DEF AttestationNext, ClearAttestationBatch, CommitAttestationBatch
    <3>2. UNCHANGED <<now, formula, change_rule, rate_floor, rate_ceiling, rate, score, rate_ts>>
      BY <2>4 DEF AttestationNext, ClearAttestationBatch, CommitAttestationBatch, termVars, priceVars
    <3>3. PolicyInv'
      BY <3>1, <3>2 DEF PolicyInv, ValidFormula
    <3> QED
      BY <3>2, <3>3, Unpriced
  <2> QED
    BY <1>2, <2>1, <2>2, <2>3, <2>4 DEF PolicyCall, PricingNext
<1> QED
  BY <1>1, <1>2 DEF GovernanceNext, ControlsCall, FeedCall, BesideCall, governanceVars

\* A formula the setter let through is monotone and stays in its band.
LEMMA FormulasMonotone == PolicyInv => FormulaMonotone
<1> SUFFICES ASSUME PolicyInv, formula # Nobody, NEW s \in 0..TopScore, NEW t \in 0..TopScore
             PROVE  /\ s <= t => RateFromScore(formula, s) <= RateFromScore(formula, t)
                    /\ formula.min <= RateFromScore(formula, s) /\ RateFromScore(formula, s) <= formula.max
  BY DEF FormulaMonotone
<1>1. formula \in Formulas /\ ValidFormula(formula)
  BY DEF PolicyInv
<1>2. s \in Nat /\ t \in Nat
  BY PolicyAssumption
<1> QED
  BY <1>1, <1>2, RateMonotone, RateInFormulaBand
-----------------------------------------------------------------------------
(* Attestations *)

FH == INSTANCE SeqFolds WITH Op <- HashPair

\* compute_root along a proof of two hashes.
LEMMA RootOfTwo ==
  ASSUME NEW leaf, NEW sibling, NEW uncle
  PROVE  ComputeRoot(leaf, <<sibling, uncle>>) = HashPair(HashPair(leaf, sibling), uncle)
<1>1. \A s : ComputeRoot(leaf, s) = FH!Folded(leaf, s)
  BY DEF ComputeRoot, FH!Folded, FH!FoldTable, FH!FoldTabulates, FH!LastIndex, FoldLeft, MapThenFoldSet, Max
<1> QED
  BY <1>1, FH!FoldTwo

\* Two pairs with the same hash have the same members.
LEMMA HashesApart ==
  ASSUME NEW p, NEW q, NEW r, NEW s, HashPair(p, q) = HashPair(r, s)
  PROVE  {p, q} = {r, s}
<1>1. HashPair(p, q).children = HashPair(r, s).children
  OBVIOUS
<1> QED
  BY <1>1 DEF HashPair

\* The order of a pair does not matter.
LEMMA HashesSorted ==
  ASSUME NEW p, NEW q
  PROVE  HashPair(p, q) = HashPair(q, p)
<1>1. {p, q} = {q, p}
  OBVIOUS
<1> QED
  BY <1>1 DEF HashPair

\* Along which pairs the root of a tree of four leaves is reached.
LEMMA PathsOfTree ==
  ASSUME NEW a1, NEW a2, NEW c1, NEW c2, NEW leaf, NEW uncles,
         HashPair(a1, a2) \in uncles, HashPair(c1, c2) \in uncles
  PROVE  /\ leaf \in {a1, a2, c1, c2} =>
              \E x \in {a1, a2, c1, c2}, y \in uncles :
                HashPair(HashPair(leaf, x), y) = HashPair(HashPair(a1, a2), HashPair(c1, c2))
         /\ \A x, y : HashPair(HashPair(leaf, x), y) = HashPair(HashPair(a1, a2), HashPair(c1, c2))
              => leaf \in {a1, a2, c1, c2}
<1> DEFINE A == HashPair(a1, a2)
           C == HashPair(c1, c2)
<1>1. HashPair(a2, a1) = A /\ HashPair(c2, c1) = C /\ HashPair(C, A) = HashPair(A, C)
  BY HashesSorted
<1>2. A \in uncles /\ C \in uncles
  OBVIOUS
<1>3. HashPair(a1, a2) = A /\ HashPair(c1, c2) = C
  OBVIOUS
<1> HIDE DEF A, C
<1>4. leaf \in {a1, a2, c1, c2} =>
        \E x \in {a1, a2, c1, c2}, y \in uncles : HashPair(HashPair(leaf, x), y) = HashPair(A, C)
  BY <1>1, <1>2, <1>3
<1>5. ASSUME NEW x, NEW y, HashPair(HashPair(leaf, x), y) = HashPair(A, C)
      PROVE  leaf \in {a1, a2, c1, c2}
  <2> DEFINE L == HashPair(leaf, x)
  <2>1. {L, y} = {A, C}
    BY <1>5, HashesApart
  <2>2. L = A \/ L = C
    BY <2>1
  <2>3. L = A => {leaf, x} = {a1, a2}
    BY <1>3, HashesApart
  <2>4. L = C => {leaf, x} = {c1, c2}
    BY <1>3, HashesApart
  <2> QED
    BY <2>2, <2>3, <2>4
<1> QED
  BY <1>3, <1>4, <1>5

\* A proof of two hashes is accepted exactly for a leaf beside its sibling and its uncle.
LEMMA ProofsFollow == PolicyInv => ProofsFollowBatch
<1> SUFFICES ASSUME PolicyInv, NEW b \in Holders, batch[b] # Nobody, NEW leaf \in Leaves
             PROVE  /\ leaf \in Members(batch[b]) =>
                         \E sibling \in Members(batch[b]), uncle \in Uncles :
                           VerifyAttestationProof(b, leaf, <<sibling, uncle>>)
                    /\ leaf \notin Members(batch[b]) =>
                         \A sibling \in Leaves, uncle \in Uncles :
                           ~VerifyAttestationProof(b, leaf, <<sibling, uncle>>)
  BY DEF ProofsFollowBatch
<1>1. batch[b] \in Trees
  BY DEF PolicyInv
<1> DEFINE tree == batch[b]
           Path(x, y) == HashPair(HashPair(leaf, x), y)
                           = HashPair(HashPair(tree[1][1], tree[1][2]), HashPair(tree[2][1], tree[2][2]))
<1>2. Members(tree) \subseteq Leaves
  BY <1>1 DEF Leaves
<1>3. HashPair(tree[1][1], tree[1][2]) \in Uncles /\ HashPair(tree[2][1], tree[2][2]) \in Uncles
  BY <1>2 DEF Uncles, Members
<1>4. \A x, y : VerifyAttestationProof(b, leaf, <<x, y>>) <=> Path(x, y)
  <2> TAKE x, y
  <2>1. ComputeRoot(leaf, <<x, y>>) = HashPair(HashPair(leaf, x), y)
    BY RootOfTwo
  <2>2. VerifyAttestationProof(b, leaf, <<x, y>>) <=> ComputeRoot(leaf, <<x, y>>) = Root(tree)
    BY DEF VerifyAttestationProof
  <2> QED
    BY <2>1, <2>2 DEF Root
<1>5. /\ leaf \in Members(tree) => \E x \in Members(tree), y \in Uncles : Path(x, y)
      /\ \A x, y : Path(x, y) => leaf \in Members(tree)
  BY <1>3, PathsOfTree, SMTT(30) DEF Members
<1> HIDE DEF Path
<1> QED
  BY <1>4, <1>5

\* Whatever the terms in force, a repriced line keeps to its band and to the limits on changes, a
\* committed score is kept, a formula is monotone, and an attestation is believed only for a leaf
\* of the batch on file.
THEOREM PricesFollowPolicy == GovernanceSpec => PolicySound
<1>1. GovernanceInit => PolicyInv
  <2> SUFFICES ASSUME GovernanceInit PROVE PolicyInv
    OBVIOUS
  <2>1. now \in Nat
    BY MaxTimeAssumption DEF GovernanceInit
  <2> QED
    BY <2>1 DEF GovernanceInit, PolicyInit, PolicyInv
<1>2. PolicyInv /\ ControlsInv /\ [GovernanceNext]_governanceVars
        => PolicyInv' /\ BandStep /\ LimitedStep /\ ScoreStep
  BY NextPolicyInv
<1>3. PolicyInv => FormulaMonotone /\ ProofsFollowBatch
  BY FormulasMonotone, ProofsFollow
<1>4. BandStep /\ LimitedStep /\ ScoreStep
        => /\ [BandStep]_<<now, controlVars, policyVars>> /\ [LimitedStep]_<<now, controlVars, policyVars>>
           /\ [ScoreStep]_<<now, controlVars, policyVars>>
  OBVIOUS
<1>5. GovernanceSpec => /\ [][BandStep]_<<now, controlVars, policyVars>>
                        /\ [][LimitedStep]_<<now, controlVars, policyVars>>
                        /\ [][ScoreStep]_<<now, controlVars, policyVars>>
                        /\ [](FormulaMonotone /\ ProofsFollowBatch)
  BY <1>1, <1>2, <1>3, <1>4, ControlsInvariance, PTL DEF GovernanceSpec
<1> QED
  BY <1>5 DEF PolicySound, RateInBand, RepricingLimited, CommittedScoreKept, BandStep, LimitedStep, ScoreStep
-----------------------------------------------------------------------------
(* The numbering of lines *)

\* A walk of enumerate_credit_lines has read the first ids, one each.
EnumerateInv ==
  walk.view = "enumerate" =>
    /\ \A i \in 1..Len(walk.read) : walk.read[i] = i - 1
    /\ Len(walk.read) = 0 => walk.cursor = NoCursor
    /\ Len(walk.read) > 0 => walk.cursor = Len(walk.read) - 1
    /\ Len(walk.read) <= walk.count
    /\ walk.over => Len(walk.read) = walk.count

\* The ids read are those up to the last one, going back by no more than to that one.
Gapless(s) ==
  /\ Len(s) > 0 => /\ \A i \in 1..Len(s) : s[i] <= s[Len(s)]
                   /\ \A v \in 0..s[Len(s)] : \E i \in 1..Len(s) : s[i] = v
  /\ \A i \in 2..Len(s) : s[i] \in {s[i - 1], s[i - 1] + 1}

\* A walk of get_credit_lines_paginated has its cursor at the last id it read or after it, on a
\* line there is, and ends at the last line of all.
PaginatedInv ==
  walk.view = "paginated" =>
    LET s == walk.read
        n == Len(walk.read)
    IN  /\ Gapless(s)
        /\ n = 0 => walk.cursor = NoCursor /\ (walk.over => walk.count = 0)
        /\ n > 0 => /\ walk.over => s[n] = walk.count - 1
                    /\ ~walk.over => walk.cursor \in {s[n], s[n] + 1} /\ walk.cursor < walk.count

IndexInv ==
  /\ index \in Seq(Owners)
  /\ \A i, j \in 1..Len(index) : index[i] = index[j] => i = j
  /\ walk \in [view : {"enumerate", "paginated"}, size : PageSizes, cursor : Nat \cup {NoCursor},
               read : Seq(Nat), over : BOOLEAN, count : Nat]
  /\ walk.count <= Len(index)
  /\ EnumerateInv
  /\ PaginatedInv

\* What a page adds to the ids read.
LEMMA PageAppended ==
  ASSUME NEW s \in Seq(Nat), NEW from \in Nat, NEW k \in Nat
  PROVE  /\ Ids(from, k) \in Seq(Nat) /\ Len(Ids(from, k)) = k
         /\ Ids(from, k) = << >> <=> k = 0
         /\ k > 0 => Ids(from, k)[k] = from + k - 1
         /\ s \o Ids(from, k) \in Seq(Nat)
         /\ Len(s \o Ids(from, k)) = Len(s) + k
         /\ \A i \in 1..Len(s) : (s \o Ids(from, k))[i] = s[i]
         /\ \A i \in Len(s) + 1..Len(s) + k : (s \o Ids(from, k))[i] = from + (i - Len(s)) - 1
<1> DEFINE p == Ids(from, k)
<1>1. p \in Seq(Nat) /\ Len(p) = k /\ \A i \in 1..k : p[i] = from + i - 1
  <2>1. \A i \in 1..k : from + i - 1 \in Nat
    OBVIOUS
  <2>2. p = [i \in 1..k |-> from + i - 1]
    BY DEF Ids
  <2>3. p \in [1..k -> Nat] /\ DOMAIN p = 1..k
    BY <2>1, <2>2
  <2>4. p \in Seq(Nat)
    BY <2>3, SeqDef
  <2>5. Len(p) = k
    BY <2>3, <2>4, LenProperties
  <2> QED
    BY <2>2, <2>4, <2>5
<1> HIDE DEF p
<1>2. p = << >> <=> k = 0
  BY <1>1, EmptySeq
<1>3. /\ s \o p \in Seq(Nat) /\ Len(s \o p) = Len(s) + k
      /\ \A i \in 1..Len(s) : (s \o p)[i] = s[i]
      /\ \A i \in Len(s) + 1..Len(s) + k : (s \o p)[i] = p[i - Len(s)]
  <2>1. /\ s \o p \in Seq(Nat) /\ Len(s \o p) = Len(s) + Len(p)
        /\ \A i \in 1..Len(s) + Len(p) : (s \o p)[i] = IF i <= Len(s) THEN s[i] ELSE p[i - Len(s)]
    BY <1>1, ConcatProperties
  <2>2. Len(p) = k /\ Len(s) \in Nat
    BY <1>1
  <2> DEFINE r == s \o p
             m == Len(s)
  <2> HIDE DEF r, m
  <2>3. /\ r \in Seq(Nat) /\ Len(r) = m + k /\ m \in Nat
        /\ \A i \in 1..m + k : r[i] = IF i <= m THEN s[i] ELSE p[i - m]
    BY <2>1, <2>2 DEF r, m
  <2>4. /\ \A i \in 1..m : r[i] = s[i]
        /\ \A i \in m + 1..m + k : r[i] = p[i - m]
    BY <2>3, SMTT(30)
  <2> QED
    BY <2>3, <2>4 DEF r, m
<1>4. \A i \in Len(s) + 1..Len(s) + k : p[i - Len(s)] = from + (i - Len(s)) - 1
  <2> TAKE i \in Len(s) + 1..Len(s) + k
  <2>1. i - Len(s) \in 1..k
    OBVIOUS
  <2> QED
    BY <1>1, <2>1
<1> QED
  BY <1>1, <1>2, <1>3, <1>4 DEF p

\* A line opened for the first time gets the next id, and no other borrower gets it.
LEMMA NumberingKeeps ==
  ASSUME IndexInv, NEW b \in Owners, EnsureCreditLineId(b)
  PROVE  IndexInv'
<1>1. walk' = walk
  BY DEF EnsureCreditLineId
<1>2. /\ index' \in Seq(Owners) /\ Len(index') >= Len(index)
      /\ \A i, j \in 1..Len(index') : index'[i] = index'[j] => i = j
  <2>1. CASE Contains(index, b)
    BY <2>1 DEF EnsureCreditLineId, IndexInv
  <2>2. CASE ~Contains(index, b)
    <3>1. index' = Append(index, b) /\ index \in Seq(Owners) /\ Len(index) \in Nat
      BY <2>2 DEF EnsureCreditLineId, IndexInv
    <3>2. /\ index' \in Seq(Owners) /\ Len(index') = Len(index) + 1
          /\ \A i \in 1..Len(index) : index'[i] = index[i]
          /\ index'[Len(index) + 1] = b
      BY <3>1, AppendProperties
    <3>3. \A i \in 1..Len(index) : index[i] # b
      BY <2>2 DEF Contains
    <3> DEFINE n == Len(index)
               x == index'
    <3>4. /\ n \in Nat /\ Len(x) = n + 1 /\ x[n + 1] = b
          /\ \A i \in 1..n : x[i] = index[i] /\ index[i] # b
          /\ \A i, j \in 1..n : index[i] = index[j] => i = j
      BY <3>1, <3>2, <3>3 DEF IndexInv
    <3> HIDE DEF n, x
    <3>5. \A i \in 1..n + 1 : i \in 1..n \/ i = n + 1
      BY <3>4
    <3>6. \A i, j \in 1..n + 1 : x[i] = x[j] => i = j
      BY <3>4, <3>5
    <3>7. \A i, j \in 1..Len(x) : x[i] = x[j] => i = j
      BY <3>4, <3>6
    <3>8. Len(index') >= Len(index)
      BY <3>1, <3>2
    <3> QED
      BY <3>2, <3>7, <3>8 DEF x
  <2> QED
    BY <2>1, <2>2
<1>3. /\ walk.count <= Len(index')
  <2>1. walk.count \in Nat /\ Len(index) \in Nat /\ Len(index') \in Nat /\ walk.count <= Len(index)
    BY <1>2 DEF IndexInv
  <2> QED
    BY <1>2, <2>1
<1>4. EnumerateInv' /\ PaginatedInv'
  BY <1>1 DEF IndexInv, EnumerateInv, PaginatedInv
<1> QED
  BY <1>1, <1>2, <1>3, <1>4 DEF IndexInv

\* How many lines are left from an id on.
LEMMA LinesLeft ==
  ASSUME NEW from \in Nat, index \in Seq(Owners), from <= Len(index)
  PROVE  Left(from) \in Nat /\ from + Left(from) = Len(index) /\ Len(index) \in Nat
<1>1. Len(index) \in Nat
  OBVIOUS
<1> QED
  BY <1>1 DEF Left

\* A page of enumerate_credit_lines goes on where the one before ended.
LEMMA EnumerateKeeps ==
  ASSUME IndexInv, EnumerateNext
  PROVE  IndexInv'
<1> DEFINE s == walk.read
           m == Len(s)
           from == IF walk.cursor = NoCursor THEN 0 ELSE walk.cursor + 1
           k == Smaller(Smaller(walk.size, MaxPage), Left(from))
           page == Ids(from, k)
           n == Len(index)
<1>1. /\ walk.view = "enumerate" /\ ~walk.over /\ index' = index
      /\ walk' = [walk EXCEPT !.read = s \o page, !.cursor = IF page = << >> THEN walk.cursor ELSE page[Len(page)],
                              !.over = page = << >>, !.count = n]
  BY DEF EnumerateNext, EnumeratePage
<1>2. /\ s \in Seq(Nat) /\ m \in Nat /\ n \in Nat /\ m <= n /\ index \in Seq(Owners)
      /\ walk.size \in Nat \ {0} /\ MaxPage \in Nat \ {0}
      /\ \A i \in 1..m : s[i] = i - 1
      /\ (m = 0 => walk.cursor = NoCursor) /\ (m > 0 => walk.cursor = m - 1)
  <2>1. walk.count \in Nat /\ m <= walk.count /\ walk.count <= n /\ s \in Seq(Nat) /\ index \in Seq(Owners)
    BY <1>1 DEF IndexInv, EnumerateInv
  <2>2. m \in Nat /\ n \in Nat
    BY <2>1
  <2>3. m <= n
    BY <2>1, <2>2
  <2> QED
    BY <1>1, <2>1, <2>2, <2>3, IndexAssumption DEF IndexInv, EnumerateInv
<1>3. from = m
  <2>1. m = 0 \/ (m - 1 \in Nat /\ m - 1 # NoCursor /\ m - 1 + 1 = m)
    BY <1>2, IndexAssumption
  <2> QED
    BY <1>2, <2>1
<1>4. Left(m) \in Nat /\ m + Left(m) = n
  BY <1>2, LinesLeft
<1>5. k \in Nat /\ m + k <= n /\ (k = 0 => m = n)
  BY <1>2, <1>3, <1>4 DEF Smaller
<1>6. /\ page \in Seq(Nat) /\ Len(page) = k /\ (page = << >> <=> k = 0) /\ (k > 0 => page[k] = m + k - 1)
      /\ s \o page \in Seq(Nat) /\ Len(s \o page) = m + k
      /\ \A i \in 1..m : (s \o page)[i] = s[i]
      /\ \A i \in m + 1..m + k : (s \o page)[i] = m + (i - m) - 1
  <2> DEFINE kk == k
  <2>1. kk \in Nat /\ s \in Seq(Nat) /\ m \in Nat /\ m = Len(s)
    BY <1>2, <1>5
  <2>3. page = Ids(m, kk)
    BY <1>3
  <2> HIDE DEF kk, s, m, page
  <2>2. /\ Ids(m, kk) \in Seq(Nat) /\ Len(Ids(m, kk)) = kk
        /\ Ids(m, kk) = << >> <=> kk = 0
        /\ kk > 0 => Ids(m, kk)[kk] = m + kk - 1
        /\ s \o Ids(m, kk) \in Seq(Nat)
        /\ Len(s \o Ids(m, kk)) = Len(s) + kk
        /\ \A i \in 1..Len(s) : (s \o Ids(m, kk))[i] = s[i]
        /\ \A i \in Len(s) + 1..Len(s) + kk : (s \o Ids(m, kk))[i] = m + (i - Len(s)) - 1
    BY <2>1, PageAppended, ZenonT(60)
  <2> QED
    BY <2>1, <2>2, <2>3 DEF kk
<1> HIDE DEF from, k, page
<1> DEFINE r == s \o page
           cursor == IF page = << >> THEN walk.cursor ELSE page[Len(page)]
<1>7. /\ walk'.view = "enumerate" /\ walk'.read = r /\ walk'.cursor = cursor
      /\ walk'.over = (page = << >>) /\ walk'.count = n /\ walk'.size = walk.size
  BY <1>1 DEF IndexInv
<1>8. r \in Seq(Nat) /\ Len(r) = m + k /\ \A i \in 1..m + k : r[i] = i - 1
  <2>1. \A i \in 1..m + k : i \in 1..m \/ (i \in m + 1..m + k /\ m + (i - m) - 1 = i - 1)
    BY <1>2, <1>5
  <2> QED
    BY <1>2, <1>6, <2>1
<1>9. /\ m + k = 0 => cursor = NoCursor
      /\ m + k > 0 => cursor = m + k - 1
  <2>1. CASE k = 0
    BY <1>2, <1>6, <2>1
  <2>2. CASE k > 0
    BY <1>2, <1>5, <1>6, <2>2
  <2> QED
    BY <1>5, <2>1, <2>2
<1>14. cursor \in Nat \cup {NoCursor}
  BY <1>2, <1>5, <1>9, SMTT(30)
<1> HIDE DEF r, cursor
<1>10. EnumerateInv'
  <2>1. Len(walk'.read) = m + k /\ \A i \in 1..m + k : walk'.read[i] = i - 1
    BY <1>7, <1>8
  <2>2. walk'.over => m + k = n
    <3>1. page = << >> => m + k = n
      BY <1>2, <1>5, <1>6
    <3>2. walk'.over => page = << >>
      BY <1>7
    <3> QED
      BY <3>1, <3>2
  <2> DEFINE x == walk'
             q == m + k
  <2>4. /\ Len(x.read) = q /\ (\A i \in 1..q : x.read[i] = i - 1) /\ (x.over => q = x.count)
        /\ (q = 0 => x.cursor = NoCursor) /\ (q > 0 => x.cursor = q - 1) /\ q <= x.count
    <3>1. Len(x.read) = q /\ (\A i \in 1..q : x.read[i] = i - 1)
      BY <2>1
    <3>2. x.over => q = x.count
      <4>1. n = x.count
        BY <1>7
      <4>2. x.over => q = n
        BY <2>2
      <4> QED
        BY <4>1, <4>2
    <3>3. /\ q = 0 => x.cursor = NoCursor
          /\ q > 0 => x.cursor = q - 1
      <4>1. x.cursor = cursor
        BY <1>7
      <4>2. /\ q = 0 => cursor = NoCursor
            /\ q > 0 => cursor = q - 1
        <5>1. m \in Nat /\ k \in Nat
          BY <1>2, <1>5
        <5> HIDE DEF m
        <5> QED
          BY <1>9, <5>1
      <4> HIDE DEF x, q
      <4> QED
        BY <4>1, <4>2
    <3>4. q <= x.count
      BY <1>5, <1>7
    <3> QED
      BY <3>1, <3>2, <3>3, <3>4
  <2> HIDE DEF x, q
  <2>5. /\ \A i \in 1..Len(x.read) : x.read[i] = i - 1
        /\ Len(x.read) = 0 => x.cursor = NoCursor
        /\ Len(x.read) > 0 => x.cursor = Len(x.read) - 1
        /\ Len(x.read) <= x.count
        /\ x.over => Len(x.read) = x.count
    BY <2>4
  <2> QED
    BY <2>5 DEF EnumerateInv, x
<1>11. PaginatedInv'
  BY <1>7 DEF PaginatedInv
<1>12. walk' \in [view : {"enumerate", "paginated"}, size : PageSizes, cursor : Nat \cup {NoCursor},
                  read : Seq(Nat), over : BOOLEAN, count : Nat]
  <2>1. walk' = [view |-> "enumerate", size |-> walk.size, cursor |-> cursor, read |-> r,
                 over |-> (page = << >>), count |-> n]
    BY <1>1 DEF IndexInv, r, cursor
  <2>2. walk.size \in PageSizes
    BY DEF IndexInv
  <2> QED
    BY <1>2, <1>8, <1>14, <2>1, <2>2
<1> QED
  BY <1>1, <1>2, <1>7, <1>10, <1>11, <1>12 DEF IndexInv

\* A page that starts at the last id read or after it leaves no gap.
LEMMA PageJoins ==
  ASSUME NEW s \in Seq(Nat), Gapless(s), NEW from \in Nat, NEW k \in Nat, k > 0,
         Len(s) = 0 => from = 0, Len(s) > 0 => from \in {s[Len(s)], s[Len(s)] + 1},
         NEW r, r = s \o Ids(from, k)
  PROVE  /\ r \in Seq(Nat) /\ Len(r) = Len(s) + k /\ r[Len(s) + k] = from + k - 1
         /\ Gapless(r)
<1> DEFINE m == Len(s)
<1>1. /\ r \in Seq(Nat) /\ Len(r) = m + k /\ m \in Nat
      /\ \A i \in 1..m : r[i] = s[i]
      /\ \A i \in m + 1..m + k : r[i] = from + (i - m) - 1
  <2> DEFINE p == Ids(from, k)
  <2>1. /\ s \o Ids(from, k) \in Seq(Nat)
        /\ Len(s \o Ids(from, k)) = Len(s) + k
        /\ \A i \in 1..Len(s) : (s \o Ids(from, k))[i] = s[i]
        /\ \A i \in Len(s) + 1..Len(s) + k : (s \o Ids(from, k))[i] = from + (i - Len(s)) - 1
    BY ONLY s \in Seq(Nat), from \in Nat, k \in Nat, PageAppended, ZenonT(60)
  <2>2. m \in Nat
    OBVIOUS
  <2> HIDE DEF p
  <2>3. r = s \o p
    BY DEF p
  <2> QED
    BY <2>1, <2>2, <2>3 DEF p
<1>2. /\ \A i \in 1..m : s[i] \in Nat
      /\ m > 0 => /\ \A i \in 1..m : s[i] <= s[m]
                  /\ \A v \in 0..s[m] : \E i \in 1..m : s[i] = v
      /\ \A i \in 2..m : s[i] \in {s[i - 1], s[i - 1] + 1}
      /\ m = 0 => from = 0
      /\ m > 0 => from \in {s[m], s[m] + 1}
  BY DEF Gapless
<1> HIDE DEF m
<1> DEFINE last == from + k - 1
<1>3. r[m + k] = last /\ last \in Nat /\ last >= from
  BY <1>1
<1> HIDE DEF last
<1>4. \A i \in 1..m + k : i \in 1..m \/ i \in m + 1..m + k
  BY <1>1
<1>5. \A i \in 1..m + k : r[i] <= last
  <2>1. ASSUME NEW i \in 1..m
        PROVE  r[i] <= last
    <3>1. m > 0 /\ m \in 1..m
      BY <1>1, <2>1
    <3>2. s[i] <= s[m] /\ s[i] \in Nat /\ s[m] \in Nat /\ from \in {s[m], s[m] + 1}
      <4>1. s[i] \in Nat /\ s[m] \in Nat
        BY <1>2, <2>1, <3>1, Zenon
      <4>2. s[i] <= s[m] /\ from \in {s[m], s[m] + 1}
        BY <1>2, <2>1, <3>1, Zenon
      <4> QED
        BY <4>1, <4>2, Zenon
    <3>3. r[i] = s[i]
      BY <1>1, <2>1
    <3> QED
      BY <1>3, <3>2, <3>3, SMTT(30)
  <2>2. ASSUME NEW i \in m + 1..m + k
        PROVE  r[i] <= last
    <3>1. r[i] = from + (i - m) - 1
      BY <1>1, <2>2
    <3> QED
      BY <1>1, <2>2, <3>1 DEF last
  <2> QED
    BY <1>4, <2>1, <2>2
<1>6. \A v \in 0..last : \E i \in 1..m + k : r[i] = v
  <2> TAKE v \in 0..last
  <2>1. CASE v >= from
    <3> DEFINE i == m + (v - from) + 1
    <3>1. i \in m + 1..m + k /\ i \in 1..m + k /\ from + (i - m) - 1 = v
      BY <1>1, <1>3, <2>1 DEF last
    <3>2. r[i] = v
      BY <1>1, <3>1
    <3> QED
      BY <3>1, <3>2
  <2>2. CASE v < from
    <3>1. m > 0 /\ m \in 1..m
      BY <1>1, <1>2, <2>2
    <3>2. s[m] \in Nat /\ v <= s[m]
      BY <1>2, <2>2, <3>1
    <3>3. PICK i \in 1..m : s[i] = v
      BY <1>2, <3>1, <3>2
    <3>4. r[i] = v
      BY <1>1, <3>3
    <3>5. i \in 1..m + k
      BY <1>1
    <3> QED
      BY <3>4, <3>5
  <2>3. v >= from \/ v < from
    BY <1>3
  <2> QED
    BY <2>1, <2>2, <2>3
<1>7. ASSUME NEW i \in 2..m + k
      PROVE  r[i] \in {r[i - 1], r[i - 1] + 1}
  <2>1. CASE i <= m
    <3>1. i \in 2..m /\ i \in 1..m /\ i - 1 \in 1..m
      BY <1>1, <2>1
    <3> QED
      BY <1>1, <1>2, <3>1
  <2>2. CASE i = m + 1
    <3>1. m > 0 /\ m \in 1..m /\ i - 1 = m /\ i \in m + 1..m + k
      BY <1>1, <2>2
    <3>2. r[i] = from + (i - m) - 1 /\ r[m] = s[m]
      BY <1>1, <3>1
    <3>3. r[i] = from
      BY <1>1, <2>2, <3>2
    <3> QED
      BY <1>2, <3>1, <3>2, <3>3
  <2>3. CASE i > m + 1
    <3>1. i \in m + 1..m + k /\ i - 1 \in m + 1..m + k
      BY <1>1, <2>3
    <3>2. r[i] = from + (i - m) - 1 /\ r[i - 1] = from + (i - 1 - m) - 1
      BY <1>1, <3>1
    <3> QED
      BY <1>1, <3>2
  <2>4. i <= m \/ i = m + 1 \/ i > m + 1
    BY <1>1
  <2> QED
    BY <2>1, <2>2, <2>3, <2>4
<1>8. Gapless(r)
  BY <1>1, <1>3, <1>5, <1>6, <1>7 DEF Gapless
<1> QED
  BY <1>1, <1>3, <1>8 DEF m, last

\* A page of get_credit_lines_paginated joins the ones before it; the walk is over where the
\* page holds the last line of all.
LEMMA PaginatedKeeps ==
  ASSUME IndexInv, PaginatedNext
  PROVE  IndexInv'
<1> DEFINE s == walk.read
           m == Len(s)
           n == Len(index)
           limit_ == walk.size
           from == IF walk.cursor = NoCursor THEN 0 ELSE walk.cursor
           k == Smaller(limit_, Left(from))
           next == CASE k = limit_ /\ from + k < n            -> from + k
                     [] k = limit_ /\ from + k >= n /\ k > 1 -> n - 1
                     [] OTHER                               -> NoCursor
           r == s \o Ids(from, k)
<1>1. /\ walk.view = "paginated" /\ ~walk.over /\ index' = index
      /\ walk' = [walk EXCEPT !.read = r, !.cursor = next, !.over = next = NoCursor, !.count = n]
  BY DEF PaginatedNext, PaginatedPage
<1>2. /\ s \in Seq(Nat) /\ index \in Seq(Owners) /\ limit_ \in Nat \ {0} /\ limit_ \in PageSizes
      /\ walk.count \in Nat /\ walk.count <= n /\ Gapless(s) /\ NoCursor \notin Nat
      /\ m = 0 => walk.cursor = NoCursor
      /\ m > 0 => walk.cursor \in {s[m], s[m] + 1} /\ walk.cursor < walk.count
  BY <1>1, IndexAssumption DEF IndexInv, PaginatedInv
<1>3. m \in Nat /\ n \in Nat /\ (m > 0 => s[m] \in Nat)
  BY <1>2
<1>4. /\ m = 0 => from = 0
      /\ m > 0 => from \in {s[m], s[m] + 1} /\ from < n
  <2>1. m > 0 => walk.cursor \in Nat /\ walk.cursor # NoCursor
    BY <1>2, <1>3
  <2>2. m > 0 => from = walk.cursor /\ walk.cursor < n
    BY <1>2, <1>3, <2>1
  <2> QED
    BY <1>2, <2>2
<1>5. from \in Nat /\ from <= n
  BY <1>3, <1>4
<1> HIDE DEF s, m, n, limit_, from
<1>6. Left(from) \in Nat /\ from + Left(from) = n
  BY <1>2, <1>5, LinesLeft DEF n
<1>7. /\ k \in Nat /\ k <= limit_ /\ from + k <= n
      /\ k < limit_ => from + k = n
      /\ k = 0 => from = n
  BY <1>2, <1>3, <1>5, <1>6 DEF Smaller
<1> HIDE DEF k
<1>8. /\ next = NoCursor => from + k = n
      /\ next # NoCursor => /\ next \in Nat /\ next < n /\ k > 0
                            /\ next \in {from + k - 1, from + k}
  <2>1. CASE k < limit_
    <3>1. next = NoCursor
      BY <1>2, <1>7, <2>1
    <3> HIDE DEF next
    <3> QED
      BY <1>7, <2>1, <3>1
  <2>2. CASE k = limit_ /\ from + k < n
    <3>1. next = from + k
      BY <1>3, <1>5, <1>7, <2>2
    <3> HIDE DEF next
    <3> QED
      BY <1>2, <1>3, <1>5, <1>7, <2>2, <3>1
  <2>3. CASE k = limit_ /\ from + k = n /\ k > 1
    <3>1. next = n - 1
      BY <1>3, <1>5, <1>7, <2>3
    <3> HIDE DEF next
    <3> QED
      BY <1>2, <1>3, <1>5, <1>7, <2>3, <3>1
  <2>4. CASE k = limit_ /\ from + k = n /\ ~(k > 1)
    <3>1. next = NoCursor
      BY <1>3, <1>5, <1>7, <2>4
    <3> QED
      BY <2>4, <3>1
  <2>5. k < limit_ \/ (k = limit_ /\ (from + k < n \/ (from + k = n /\ (k > 1 \/ ~(k > 1)))))
    BY <1>2, <1>3, <1>5, <1>7
  <2> QED
    BY <2>1, <2>2, <2>3, <2>4, <2>5
<1> HIDE DEF next
<1>9. k = 0 => m = 0 /\ from = 0 /\ n = 0
  BY <1>3, <1>4, <1>7
<1>10. /\ r \in Seq(Nat) /\ Len(r) = m + k /\ Gapless(r)
       /\ k > 0 => r[m + k] = from + k - 1
  <2>1. CASE k > 0
    <3>1. /\ s \in Seq(Nat) /\ Gapless(s) /\ from \in Nat /\ k \in Nat /\ k > 0
          /\ Len(s) = 0 => from = 0
          /\ Len(s) > 0 => from \in {s[Len(s)], s[Len(s)] + 1}
      BY <1>2, <1>4, <1>5, <1>7, <2>1 DEF m
    <3>2. r = s \o Ids(from, k)
      OBVIOUS
    <3> HIDE DEF r
    <3>3. /\ r \in Seq(Nat) /\ Len(r) = Len(s) + k /\ r[Len(s) + k] = from + k - 1
          /\ Gapless(r)
      BY <3>1, <3>2, PageJoins, ZenonT(60)
    <3> QED
      BY <3>3 DEF m
  <2>2. CASE k = 0
    <3>1. Ids(from, k) = << >>
      BY <1>2, <1>5, <2>2, PageAppended
    <3>2. r = s
      BY <1>2, <3>1, ConcatEmptySeq
    <3>3. m + k = Len(s)
      BY <1>3, <2>2 DEF m
    <3> HIDE DEF r
    <3> QED
      BY <1>2, <2>2, <3>2, <3>3
  <2>3. k > 0 \/ k = 0
    BY <1>7
  <2> QED
    BY <2>1, <2>2, <2>3
<1> HIDE DEF r
<1>11. walk' = [view |-> "paginated", size |-> limit_, cursor |-> next, read |-> r,
                over |-> (next = NoCursor), count |-> n]
  BY <1>1 DEF IndexInv, limit_
<1>12. next \in Nat \cup {NoCursor}
  BY <1>8
<1>13. walk' \in [view : {"enumerate", "paginated"}, size : PageSizes, cursor : Nat \cup {NoCursor},
                  read : Seq(Nat), over : BOOLEAN, count : Nat]
  BY <1>2, <1>3, <1>10, <1>11, <1>12
<1>14. EnumerateInv'
  BY <1>11 DEF EnumerateInv
<1>15. PaginatedInv'
  <2> DEFINE q == m + k
  <2>1. q \in Nat /\ Len(r) = q /\ (q = 0 => k = 0)
    BY <1>3, <1>7, <1>10
  <2>2. q = 0 => next = NoCursor /\ n = 0
    BY <1>7, <1>8, <1>9, <2>1
  <2>3. q > 0 => k > 0
    BY <1>3, <1>7, <1>9
  <2>4. q > 0 /\ next = NoCursor => r[q] = n - 1
    BY <1>3, <1>5, <1>7, <1>8, <1>10, <2>3
  <2>5. q > 0 /\ next # NoCursor => next \in {r[q], r[q] + 1} /\ next < n
    <3>1. ASSUME q > 0, next # NoCursor
          PROVE  next \in {r[q], r[q] + 1} /\ next < n
      <4>1. r[q] = from + k - 1 /\ r[q] + 1 = from + k
        BY <1>5, <1>7, <1>10, <2>3, <3>1
      <4> QED
        BY <1>8, <3>1, <4>1
    <3> QED
      BY <3>1
  <2> HIDE DEF q
  <2>6. walk'.read = r /\ walk'.cursor = next /\ (walk'.over <=> next = NoCursor) /\ walk'.count = n
    BY <1>11
  <2> DEFINE x == walk'
  <2> HIDE DEF x
  <2>7. x.read = r /\ x.cursor = next /\ (x.over <=> next = NoCursor) /\ x.count = n
    BY <2>6 DEF x
  <2>8. /\ Gapless(x.read)
        /\ Len(x.read) = 0 => x.cursor = NoCursor /\ (x.over => x.count = 0)
        /\ Len(x.read) > 0 => /\ x.over => x.read[Len(x.read)] = x.count - 1
                              /\ ~x.over => /\ x.cursor \in {x.read[Len(x.read)], x.read[Len(x.read)] + 1}
                                            /\ x.cursor < x.count
    BY <1>10, <2>1, <2>2, <2>4, <2>5, <2>7
  <2> QED
    BY <2>8 DEF PaginatedInv, x
<1>16. walk'.count <= Len(index')
  BY <1>1, <1>3, <1>11 DEF n
<1>17. index' = index
  BY <1>1
<1> QED
  BY <1>13, <1>14, <1>15, <1>16, <1>17 DEF IndexInv

LEMMA NextIndexInv ==
  ASSUME IndexInv, [GovernanceNext]_governanceVars
  PROVE  IndexInv'
<1>1. CASE UNCHANGED indexVars
  BY <1>1 DEF indexVars, IndexInv, EnumerateInv, PaginatedInv
<1>2. CASE IndexNext
  BY <1>2, NumberingKeeps, EnumerateKeeps, PaginatedKeeps DEF IndexNext
<1> QED
  BY <1>1, <1>2 DEF GovernanceNext, ControlsCall, FeedCall, PolicyCall, BesideCall, governanceVars

\* What the walks promise follows from how far they are.
LEMMA WalksComplete == IndexInv => IndexSound
<1> SUFFICES ASSUME IndexInv PROVE WalkComplete /\ BorrowersOnce
  BY DEF IndexSound
<1> DEFINE s == walk.read
           m == Len(s)
<1>1. s \in Seq(Nat) /\ m \in Nat /\ DOMAIN s = 1..m /\ walk.count \in Nat /\ walk.count <= Len(index)
      /\ index \in Seq(Owners) /\ Len(index) \in Nat
  BY DEF IndexInv
<1>2. CASE walk.view = "enumerate"
  <2>1. /\ \A i \in 1..m : s[i] = i - 1
        /\ m <= walk.count
        /\ walk.over => m = walk.count
    BY <1>2 DEF IndexInv, EnumerateInv
  <2> DEFINE c == walk.count
             over == walk.over
  <2> HIDE DEF s, m, c, over
  <2>2. \A i \in 2..m : s[i] \in {s[i - 1], s[i - 1] + 1}
    <3> TAKE i \in 2..m
    <3>1. i \in 1..m /\ i - 1 \in 1..m
      BY <1>1
    <3>2. s[i] = i - 1 /\ s[i - 1] = i - 1 - 1
      BY <2>1, <3>1
    <3> QED
      BY <3>2
  <2>3. over => Range(s) = 0..(c - 1)
    <3>1. \A v \in 0..(m - 1) : v + 1 \in 1..m /\ s[v + 1] = v
      BY <1>1, <2>1
    <3>2. \A i \in 1..m : s[i] \in 0..(m - 1)
      BY <1>1, <2>1
    <3>3. Range(s) = {s[i] : i \in 1..m}
      BY <1>1 DEF Range
    <3>4. {s[i] : i \in 1..m} = 0..(m - 1)
      BY <3>1, <3>2
    <3> QED
      BY <2>1, <3>3, <3>4 DEF c, over
  <2>4. IsInjective([i \in DOMAIN s |-> index[s[i] + 1]])
    <3> DEFINE f == [i \in DOMAIN s |-> index[s[i] + 1]]
    <3>1. DOMAIN f = 1..m /\ \A i \in 1..m : f[i] = index[i] /\ i \in 1..Len(index)
      <4>1. \A i \in 1..m : s[i] + 1 = i /\ i \in 1..Len(index)
        BY <1>1, <2>1
      <4> QED
        BY <1>1, <4>1
    <3>2. \A i, j \in 1..Len(index) : index[i] = index[j] => i = j
      BY DEF IndexInv
    <3> HIDE DEF f
    <3>3. IsInjective(f)
      BY <3>1, <3>2 DEF IsInjective
    <3> QED
      BY <3>3 DEF f
  <2> QED
    BY <2>2, <2>3, <2>4 DEF WalkComplete, BorrowersOnce, s, m, c, over
<1>3. CASE walk.view = "paginated"
  <2>1. /\ Gapless(s)
        /\ m = 0 => (walk.over => walk.count = 0)
        /\ m > 0 => (walk.over => s[m] = walk.count - 1)
    BY <1>3 DEF IndexInv, PaginatedInv
  <2> DEFINE c == walk.count
             over == walk.over
  <2> HIDE DEF s, c, over
  <2>2. \A i \in 2..m : s[i] \in {s[i - 1], s[i - 1] + 1}
    BY <2>1 DEF Gapless
  <2>3. ASSUME over
        PROVE  Range(s) = 0..(c - 1)
    <3>1. Range(s) = {s[i] : i \in 1..m}
      BY <1>1 DEF Range
    <3>2. CASE m = 0
      <4>1. c = 0
        BY <2>1, <2>3, <3>2 DEF c, over
      <4>2. 1..m = {} /\ 0..(c - 1) = {}
        BY <3>2, <4>1
      <4> QED
        BY <3>1, <4>2
    <3>3. CASE m > 0
      <4>1. s[m] = c - 1
        BY <2>1, <2>3, <3>3 DEF c, over
      <4>2. /\ \A i \in 1..m : s[i] \in Nat /\ s[i] <= s[m]
            /\ \A v \in 0..s[m] : \E i \in 1..m : s[i] = v
        BY <1>1, <2>1, <3>3 DEF Gapless
      <4> DEFINE last == s[m]
      <4>3. last \in Nat
        BY <1>1, <3>3, <4>2
      <4>4. /\ \A i \in 1..m : s[i] \in 0..last
            /\ \A v \in 0..last : \E i \in 1..m : s[i] = v
        BY <4>2, <4>3
      <4> HIDE DEF last
      <4>5. {s[i] : i \in 1..m} = 0..last
        BY <4>4
      <4> QED
        BY <3>1, <4>1, <4>5 DEF last
    <3> QED
      BY <1>1, <3>2, <3>3
  <2> QED
    BY <1>3, <2>2, <2>3 DEF WalkComplete, BorrowersOnce, s, c, over
<1> QED
  BY <1>2, <1>3 DEF IndexInv

\* The index lists every borrower once, and a finished walk through its pages has read every line
\* there was at its latest page, in the order of the ids, whichever lines were opened meanwhile.
THEOREM NoLineMissed == GovernanceSpec => []IndexSound
<1>1. GovernanceInit => IndexInv
  <2> SUFFICES ASSUME GovernanceInit PROVE IndexInv
    OBVIOUS
  <2>1. /\ index = << >> /\ walk.read = << >> /\ walk.cursor = NoCursor /\ walk.over = FALSE /\ walk.count = 0
        /\ walk \in [view : {"enumerate", "paginated"}, size : PageSizes, cursor : {NoCursor},
                     read : {<< >>}, over : {FALSE}, count : {0}]
    BY DEF GovernanceInit, IndexInit
  <2>2. index \in Seq(Owners) /\ Len(index) = 0 /\ Len(walk.read) = 0 /\ << >> \in Seq(Nat)
    BY <2>1
  <2>3. walk \in [view : {"enumerate", "paginated"}, size : PageSizes, cursor : Nat \cup {NoCursor},
                  read : Seq(Nat), over : BOOLEAN, count : Nat]
    <3>1. {NoCursor} \subseteq Nat \cup {NoCursor} /\ {<< >>} \subseteq Seq(Nat)
          /\ {FALSE} \subseteq BOOLEAN /\ {0} \subseteq Nat
      BY <2>2
    <3>2. PICK v \in {"enumerate", "paginated"}, z \in PageSizes :
            walk = [view |-> v, size |-> z, cursor |-> NoCursor, read |-> << >>, over |-> FALSE, count |-> 0]
      BY <2>1
    <3> QED
      BY <3>1, <3>2, Zenon
  <2>4. EnumerateInv /\ PaginatedInv
    BY <2>1, <2>2 DEF EnumerateInv, PaginatedInv, Gapless
  <2> QED
    BY <2>1, <2>2, <2>3, <2>4 DEF IndexInv
<1>2. IndexInv /\ [GovernanceNext]_governanceVars => IndexInv'
  BY NextIndexInv
<1> QED
  BY <1>1, <1>2, WalksComplete, PTL DEF GovernanceSpec
=============================================================================
