------------------------------ MODULE Controls ------------------------------
(***************************************************************************)
(* The admin's controls of the credit contract: the rotation of the admin, *)
(* the pause and its reason, the freezes and the blocklist, the cooldowns  *)
(* between admin actions, and the views that tell a client which calls are *)
(* possible.  A line is its status and whether it carries debt; amounts,   *)
(* limits and grace periods, which may refuse more calls, are the business *)
(* of CreditLines.                                                         *)
(***************************************************************************)
EXTENDS Host

CONSTANTS
  Admins,        \* addresses that may be or become the admin
  Holders,       \* borrowers
  Reasons,       \* reasons of a pause
  FreezeReasons, \* FreezeReason
  Delays,        \* delays of a proposed rotation
  Expiries,      \* expiry timestamps of temporary freezes
  Cooldowns,     \* cooldowns in seconds, 0 for none
  Nobody         \* None: nothing stored

ASSUME ControlsAssumption ==
  /\ Delays \subseteq Nat /\ Expiries \subseteq Nat /\ Cooldowns \subseteq Nat
  /\ 0 \in Cooldowns
  /\ Nobody \notin Admins \cup Reasons \cup FreezeReasons \cup Nat
  /\ Nobody \notin [frozen : BOOLEAN, reason : FreezeReasons]
  /\ Nobody \notin [to : Admins, made : Nat, delay : Nat, accept_after : Nat]

VARIABLES
  admin, proposal,      \* proposal: [to, accept_after] with the clock and delay of its making (history)
  halted, pause_reason, \* the paused flag, [reason, timestamp, actor]
  pauseCall,            \* the reason given by the latest request to pause (history)
  draws_frozen,         \* [frozen, reason]
  line_freeze,          \* CreditLineFreeze
  frozen_until,         \* FrozenBorrower
  blocked,              \* BlockedBorrower
  lineStatus, indebted, \* the lines
  cooldown, last_action,\* the four cooldowns and the timestamps they compare with
  acted                 \* when each action under a cooldown was really made (history)

rotationVars == <<admin, proposal>>
pauseVars == <<halted, pause_reason, pauseCall>>
freezeVars == <<draws_frozen, line_freeze, frozen_until, blocked>>
lineVars == <<lineStatus, indebted>>
cooldownVars == <<cooldown, last_action, acted>>
controlVars == <<rotationVars, pauseVars, freezeVars, lineVars, cooldownVars>>

\* Borrow, accrual and risk cooldowns run per borrower; collateral settings share one clock.
Kinds == {"borrow", "accrual", "risk", "collateral"}
Keys == Holders \cup {Nobody}
Times == 0..MaxTime \cup {Nobody}
LineStatuses == {"None", "Active", "Suspended", "SelfSuspended", "Restricted", "Defaulted", "Closed"}

ControlsInit ==
  /\ admin \in Admins /\ proposal = Nobody
  /\ halted = FALSE /\ pause_reason = Nobody /\ pauseCall = Nobody
  /\ draws_frozen = Nobody
  /\ line_freeze = [b \in Holders |-> Nobody]
  /\ frozen_until = [b \in Holders |-> Nobody]
  /\ blocked = {}
  /\ lineStatus = [b \in Holders |-> "None"] /\ indebted = {}
  /\ cooldown = [k \in Kinds |-> 0]
  /\ last_action = [k \in Kinds |-> [x \in Keys |-> Nobody]]
  /\ acted = [k \in Kinds |-> [x \in Keys |-> Nobody]]
-----------------------------------------------------------------------------
(* Rotation of the admin *)

\* Mutant: a new proposal keeps the clock of the pending one.
ProposeAdminOldClock(to, delay) ==
  /\ proposal' = [to |-> to, made |-> now, delay |-> delay,
                  accept_after |-> IF proposal = Nobody THEN now + delay ELSE proposal.accept_after]
  /\ UNCHANGED <<now, admin, pauseVars, freezeVars, lineVars, cooldownVars>>

ProposeAdmin(to, delay) ==
  /\ proposal' = [to |-> to, made |-> now, delay |-> delay, accept_after |-> now + delay]
  /\ UNCHANGED <<now, admin, pauseVars, freezeVars, lineVars, cooldownVars>>

AcceptAdmin ==
  /\ proposal # Nobody
  /\ now >= proposal.accept_after
  /\ admin' = proposal.to /\ proposal' = Nobody
  /\ UNCHANGED <<now, pauseVars, freezeVars, lineVars, cooldownVars>>
-----------------------------------------------------------------------------
(* The pause *)

\* What a pause with a reason files.
Filed(reason) == [reason |-> reason, timestamp |-> now, actor |-> admin]

\* set_protocol_paused: repeating a pause drops the reason on file, ending it does too.
SetHalted(on) ==
  /\ halted' = on
  /\ pause_reason' = IF halted THEN Nobody ELSE pause_reason
  /\ pauseCall' = IF on THEN Nobody ELSE pauseCall
  /\ UNCHANGED <<now, rotationVars, freezeVars, lineVars, cooldownVars>>

\* set_protocol_paused_with_reason: repeating a pause refreshes its reason.
SetHaltedWithReason(on, reason) ==
  /\ halted' = on
  /\ pause_reason' = CASE on            -> Filed(reason)
                       [] ~on /\ halted -> Nobody
                       [] OTHER         -> pause_reason
  /\ pauseCall' = IF on THEN Filed(reason) ELSE pauseCall
  /\ UNCHANGED <<now, rotationVars, freezeVars, lineVars, cooldownVars>>
-----------------------------------------------------------------------------
(* Cooldowns *)

\* A timestamp of 0 counts as none for the risk cooldown only.
Elapsed(kind, x) ==
  LET last == last_action[kind][x]
  IN  cooldown[kind] > 0 /\ last # Nobody /\ (kind = "risk" => last # 0)
        => now >= last + cooldown[kind]

\* The borrow and accrual cooldowns are recorded only while one is configured.
Records(kind) == kind \in {"risk", "collateral"} \/ cooldown[kind] > 0

Stamped(kinds, borrowers) ==
  [k \in Kinds |-> [x \in Keys |->
     IF k \in kinds /\ x \in borrowers /\ Records(k) THEN now ELSE last_action[k][x]]]

\* History of the actions themselves, kept apart from the contract's clocks: those of the borrow
\* and accrual kinds that were made under a cooldown, and all of the other two kinds.
Witnessed(kinds, borrowers) ==
  [k \in Kinds |-> [x \in Keys |->
     IF k \in kinds /\ x \in borrowers /\ (k \in {"borrow", "accrual"} => cooldown[k] > 0)
       THEN now ELSE acted[k][x]]]

\* enforce_*_admin_cooldown and the recording of the action, for the borrowers it names.
Enforce(kinds, borrowers) ==
  /\ \A k \in kinds, x \in borrowers : Elapsed(k, x)
  /\ last_action' = Stamped(kinds, borrowers)
  /\ acted' = Witnessed(kinds, borrowers)
  /\ UNCHANGED cooldown

\* set_borrow_admin_cooldown, set_accrual_admin_cooldown, set_risk_admin_cooldown.
SetCooldown(kind, seconds) ==
  /\ ~halted
  /\ cooldown' = [cooldown EXCEPT ![kind] = seconds]
  /\ UNCHANGED <<now, rotationVars, pauseVars, freezeVars, lineVars, last_action, acted>>

\* The collateral cooldown guards its own setter as well.
SetCollateralCooldown(seconds) ==
  /\ ~halted
  /\ Elapsed("collateral", Nobody)
  /\ cooldown' = [cooldown EXCEPT !["collateral"] = seconds]
  /\ last_action' = [last_action EXCEPT !["collateral"][Nobody] = now]
  /\ acted' = Witnessed({"collateral"}, {Nobody})
  /\ UNCHANGED <<now, rotationVars, pauseVars, freezeVars, lineVars>>

\* set_min_collateral_ratio_bps, set_collateral_risk_weight, set_collateral_token_allowlist;
\* the values they store are those of CreditVault.
SetCollateralPolicy ==
  /\ ~halted
  /\ Enforce({"collateral"}, {Nobody})
  /\ UNCHANGED <<now, rotationVars, pauseVars, freezeVars, lineVars>>
-----------------------------------------------------------------------------
(* Lines: the part of each entrypoint that status, pause and cooldown decide *)

OpenLine(b) ==
  /\ ~halted
  /\ lineStatus[b] # "Active"
  /\ Enforce({"borrow"}, {b})
  /\ lineStatus' = [lineStatus EXCEPT ![b] = "Active"]
  /\ indebted' = IF lineStatus[b] = "Closed" THEN indebted \ {b} ELSE indebted
  /\ UNCHANGED <<now, rotationVars, pauseVars, freezeVars>>

\* Where each admin transition may start and end.
From == [suspend   |-> {"Active"},
         unsuspend |-> {"Suspended", "SelfSuspended"},
         close     |-> LineStatuses \ {"None", "Closed"},
         default   |-> {"Active", "Restricted", "Suspended", "SelfSuspended"},
         reinstate |-> {"Defaulted"}]

To == [suspend |-> {"Suspended"}, unsuspend |-> {"Active"}, close |-> {"Closed"},
       default |-> {"Defaulted"}, reinstate |-> {"Active", "Restricted"}]

\* suspend_, unsuspend_, close_ (by the admin), default_ and reinstate_credit_line.
AdminTransition(op, b) ==
  /\ ~halted
  /\ lineStatus[b] \in From[op]
  /\ Enforce({"accrual"}, {b})
  /\ \E target \in To[op] : lineStatus' = [lineStatus EXCEPT ![b] = target]
  /\ UNCHANGED <<now, rotationVars, pauseVars, freezeVars, indebted>>

\* What close_credit_line asks of a borrower: a line to close, and no debt on it.
CloseOwnGate(b) == ~halted /\ lineStatus[b] \in From.close /\ b \notin indebted

\* What self_suspend_credit_line asks.
SelfSuspendGate(b) == ~halted /\ lineStatus[b] = "Active"

\* self_suspend_credit_line, self_unsuspend_credit_line, and close_credit_line by the borrower.
OwnTransition(b) ==
  /\ ~halted
  /\ \/ SelfSuspendGate(b) /\ lineStatus' = [lineStatus EXCEPT ![b] = "SelfSuspended"]
     \/ lineStatus[b] = "SelfSuspended" /\ lineStatus' = [lineStatus EXCEPT ![b] = "Active"]
     \/ CloseOwnGate(b) /\ lineStatus' = [lineStatus EXCEPT ![b] = "Closed"]
  /\ UNCHANGED <<now, rotationVars, pauseVars, freezeVars, indebted, cooldownVars>>

\* forgive_debt, in part or in full.
Forgive(b) ==
  /\ ~halted
  /\ lineStatus[b] # "Closed" /\ b \in indebted
  /\ Enforce({"accrual"}, {b})
  /\ indebted' \in {indebted, indebted \ {b}}
  /\ UNCHANGED <<now, rotationVars, pauseVars, freezeVars, lineStatus>>

\* update_risk_parameters: restricts a line that exceeds the new limit or cures one that does not.
UpdateRisk(b) ==
  /\ ~halted
  /\ lineStatus[b] # "None"
  /\ Enforce({"accrual", "risk"}, {b})
  /\ \/ UNCHANGED lineStatus
     \/ lineStatus[b] = "Active" /\ b \in indebted /\ lineStatus' = [lineStatus EXCEPT ![b] = "Restricted"]
     \/ lineStatus[b] = "Restricted" /\ lineStatus' = [lineStatus EXCEPT ![b] = "Active"]
  /\ UNCHANGED <<now, rotationVars, pauseVars, freezeVars, indebted>>
-----------------------------------------------------------------------------
(* Freezes and the blocklist *)

FreezeDraws(reason) ==
  /\ draws_frozen' = [frozen |-> TRUE, reason |-> reason]
  /\ UNCHANGED <<now, rotationVars, pauseVars, line_freeze, frozen_until, blocked, lineVars, cooldownVars>>

\* The reason stays on file; a first call without a freeze files the default one.
UnfreezeDraws ==
  /\ \E default \in FreezeReasons :
       draws_frozen' = [frozen |-> FALSE,
                        reason |-> IF draws_frozen = Nobody THEN default ELSE draws_frozen.reason]
  /\ UNCHANGED <<now, rotationVars, pauseVars, line_freeze, frozen_until, blocked, lineVars, cooldownVars>>

FreezeCreditLine(b, reason) ==
  /\ lineStatus[b] # "None"
  /\ Enforce({"borrow"}, {b})
  /\ line_freeze' = [line_freeze EXCEPT ![b] = reason]
  /\ UNCHANGED <<now, rotationVars, pauseVars, draws_frozen, frozen_until, blocked, lineVars>>

UnfreezeCreditLine(b) ==
  /\ Enforce({"borrow"}, {b})
  /\ line_freeze' = [line_freeze EXCEPT ![b] = Nobody]
  /\ UNCHANGED <<now, rotationVars, pauseVars, draws_frozen, frozen_until, blocked, lineVars>>

FreezeBorrowerUntil(b, expiry) ==
  /\ expiry > now
  /\ Enforce({"borrow"}, {b})
  /\ frozen_until' = [frozen_until EXCEPT ![b] = expiry]
  /\ UNCHANGED <<now, rotationVars, pauseVars, draws_frozen, line_freeze, blocked, lineVars>>

UnfreezeBorrower(b) ==
  /\ Enforce({"borrow"}, {b})
  /\ frozen_until' = [frozen_until EXCEPT ![b] = Nobody]
  /\ UNCHANGED <<now, rotationVars, pauseVars, draws_frozen, line_freeze, blocked, lineVars>>

\* block_borrower, bulk_block_borrowers, unblock_borrower.
SetBlocked(group, on) ==
  /\ blocked' = IF on THEN blocked \cup group ELSE blocked \ group
  /\ UNCHANGED <<now, rotationVars, pauseVars, draws_frozen, line_freeze, frozen_until, lineVars, cooldownVars>>

IsDrawsFrozen == draws_frozen # Nobody /\ draws_frozen.frozen

IsBorrowerFrozen(b) == frozen_until[b] # Nobody /\ now < frozen_until[b]

DrawStatusOK(status) == status \in {"Active", "Restricted"}

\* Mutant: a draw is not refused to a borrower on the blocklist.
DrawGateUnblocked(b) ==
  /\ ~halted /\ ~IsDrawsFrozen
  /\ frozen_until[b] # Nobody => now >= frozen_until[b]
  /\ line_freeze[b] = Nobody
  /\ DrawStatusOK(lineStatus[b])

\* The refusals of draw_credit that do not depend on the amount.
DrawGate(b) ==
  /\ ~halted /\ ~IsDrawsFrozen
  /\ frozen_until[b] # Nobody => now >= frozen_until[b]
  /\ line_freeze[b] = Nobody
  /\ b \notin blocked
  /\ DrawStatusOK(lineStatus[b])

Draw(b) ==
  /\ DrawGate(b)
  /\ indebted' = indebted \cup {b}
  /\ UNCHANGED <<now, rotationVars, pauseVars, freezeVars, lineStatus, cooldownVars>>

\* repay_credit is stopped by no control.
RepayGate(b) == lineStatus[b] \notin {"None", "Closed"}

Repay(b) ==
  /\ RepayGate(b) /\ b \in indebted
  /\ indebted' \in {indebted, indebted \ {b}}
  /\ UNCHANGED <<now, rotationVars, pauseVars, freezeVars, lineStatus, cooldownVars>>
-----------------------------------------------------------------------------
(* Views *)

BorrowCapabilities(b) ==
  [can_draw |-> /\ DrawStatusOK(lineStatus[b])
                /\ ~halted /\ ~IsDrawsFrozen
                /\ b \notin blocked /\ ~IsBorrowerFrozen(b) /\ line_freeze[b] = Nobody,
   can_repay |-> lineStatus[b] \notin {"None", "Closed"},
   can_self_suspend |-> lineStatus[b] = "Active"]

\* lifecycle_views::capabilities.
Capabilities(b) ==
  LET open == ~halted /\ lineStatus[b] # "None"
  IN  [suspend   |-> open /\ lineStatus[b] = "Active",
       self_suspend |-> open /\ lineStatus[b] = "Active",
       close     |-> open /\ lineStatus[b] # "Closed",
       close_own |-> open /\ lineStatus[b] # "Closed" /\ b \notin indebted,
       default   |-> open /\ lineStatus[b] \in {"Active", "Restricted", "Suspended", "SelfSuspended"},
       reinstate |-> open /\ lineStatus[b] = "Defaulted"]
-----------------------------------------------------------------------------
CooldownNext ==
  \/ \E k \in Kinds \ {"collateral"}, s \in Cooldowns : SetCooldown(k, s)
  \/ \E s \in Cooldowns : SetCollateralCooldown(s)
  \/ SetCollateralPolicy

LineNext ==
  \E b \in Holders :
    \/ OpenLine(b)
    \/ \E op \in DOMAIN From : AdminTransition(op, b)
    \/ OwnTransition(b)
    \/ Forgive(b)
    \/ UpdateRisk(b)
    \/ Draw(b)
    \/ Repay(b)
-----------------------------------------------------------------------------
\* The control state has its types.
ControlsTypeOK ==
  /\ admin \in Admins
  /\ halted \in BOOLEAN
  /\ line_freeze \in [Holders -> FreezeReasons \cup {Nobody}]
  /\ frozen_until \in [Holders -> Expiries \cup {Nobody}]
  /\ blocked \subseteq Holders /\ indebted \subseteq Holders
  /\ lineStatus \in [Holders -> LineStatuses]
  /\ cooldown \in [Kinds -> Cooldowns]
  /\ last_action \in [Kinds -> [Keys -> Times]]

\* The admin changes only to the address of the latest proposal, and not before the delay of
\* that proposal, counted from its own making, is over: replacing a proposal restarts the clock.
HandoverFollowsProposal ==
  [][admin' # admin => /\ proposal # Nobody
                       /\ admin' = proposal.to
                       /\ now >= proposal.made + proposal.delay]_<<now, controlVars>>

\* The reason on file is that of the latest request to pause, if it gave one and the pause is
\* still in force: no reason outlives its pause or a later request without one.
PauseReasonCurrent == pause_reason = IF halted THEN pauseCall ELSE Nobody

\* Two admin actions of one kind on one borrower, both under a cooldown, are at least the
\* cooldown of the second apart, whichever entrypoints made them and whatever the cooldown was
\* in between.  (A risk action stamped with timestamp 0 would not count; the clock is past 0.)
AdminActionsSpaced ==
  [][\A k \in Kinds, x \in Keys :
       cooldown[k] > 0 /\ acted'[k][x] # acted[k][x] /\ acted[k][x] # Nobody
         => now >= acted[k][x] + cooldown[k]]_<<now, controlVars>>

\* What borrow_capabilities says of draws and repayments is what the entrypoints decide,
\* through expiring freezes, blocks, reopened lines and pauses.
DrawViewHonest ==
  \A b \in Holders : /\ BorrowCapabilities(b).can_draw <=> DrawGate(b)
                     /\ BorrowCapabilities(b).can_repay <=> RepayGate(b)

\* As far as the status, the debt and the pause decide, lifecycle_views::capabilities allows a
\* transition exactly when its entrypoint does (the liquidation grace of a default and the admin
\* cooldowns are outside the view).  can_self_suspend of borrow_capabilities agrees with its
\* entrypoint while the protocol is not paused: views.rs:22-24 says the view "evaluates the same
\* pre-flight checks" as self_suspend_credit_line, but it leaves out assert_not_paused, so during
\* a pause it allows what the entrypoint refuses.
LifecycleViewHonest ==
  \A b \in Holders :
    /\ \A op \in {"suspend", "close", "default", "reinstate"} :
         Capabilities(b)[op] <=> ~halted /\ lineStatus[b] \in From[op]
    /\ Capabilities(b).close_own <=> CloseOwnGate(b)
    /\ Capabilities(b).self_suspend <=> SelfSuspendGate(b)
    /\ ~halted => (BorrowCapabilities(b).can_self_suspend <=> SelfSuspendGate(b))

\* What the contract tells about itself is so: the reason of a pause is the current one, and the
\* capability views agree with the entrypoints as far as status, debt, pause, freezes and the
\* blocklist decide, with the one exception that LifecycleViewHonest states.
ControlsSound == ControlsTypeOK /\ PauseReasonCurrent /\ DrawViewHonest /\ LifecycleViewHonest

\* The admin changes only along a proposal that waited, and critical actions keep their distance.
AdministrationOrderly == HandoverFollowsProposal /\ AdminActionsSpaced
=============================================================================
