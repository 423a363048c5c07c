------------------------------ MODULE Notices -------------------------------
(***************************************************************************)
(* The events of the admin's controls and of the oracle registry, and a    *)
(* watcher that follows them.  Each entrypoint is conjoined with what its  *)
(* events tell the watcher; the others are silent.  unfreeze_borrower and  *)
(* the repetition of a pause publish nothing.                              *)
(***************************************************************************)
EXTENDS PriceFeeds

VARIABLE notices  \* what the events told: admin and proposal, pause, freezes, blocklist, registry

NoticesInit ==
  notices = [admin |-> admin, proposal |-> Nobody, halted |-> FALSE, draws_frozen |-> FALSE,
             line_freeze |-> [b \in Holders |-> Nobody], frozen_until |-> [b \in Holders |-> Nobody],
             blocked |-> {}, weight |-> << >>, report |-> << >>, threshold |-> Nobody, window |-> Nobody]
-----------------------------------------------------------------------------
(* What each event tells *)

AdminRotationProposed(to, after) == [notices EXCEPT !.proposal = [to |-> to, accept_after |-> after]]
AdminRotationAccepted(new) == [notices EXCEPT !.admin = new, !.proposal = Nobody]

\* publish_paused_event: only where the flag changes.
PausedEvent(on) == IF on = halted THEN notices ELSE [notices EXCEPT !.halted = on]

DrawsFrozenEvent(frozen) == [notices EXCEPT !.draws_frozen = frozen]

\* Lifting a freeze that is not there publishes nothing.
CreditLineFreezeEvent(b, reason) == [notices EXCEPT !.line_freeze[b] = reason]

BorrowerFrozenEvent(b, until) == [notices EXCEPT !.frozen_until[b] = until]

\* Mutant: a call for several borrowers reports none of them.
BorrowerBlockedEventsOne(group, on) ==
  IF \E b \in Holders : group = {b}
  THEN [notices EXCEPT !.blocked = IF on THEN @ \cup group ELSE @ \ group]
  ELSE notices

\* One event per borrower of a bulk call.
BorrowerBlockedEvents(group, on) == [notices EXCEPT !.blocked = IF on THEN @ \cup group ELSE @ \ group]

OracleAddedEvent(o, weight) == [notices EXCEPT !.weight = Stored(@, o, weight)]

\* A removed oracle's reports are void with it.
OracleRemovedEvent(o) == [notices EXCEPT !.weight = Erased(@, o), !.report = Erased(@, o)]

OracleQuorumThresholdSetEvent(t) == [notices EXCEPT !.threshold = t]
OracleReportingWindowSetEvent(w) == [notices EXCEPT !.window = w]
OracleValueReportedEvent(o, value) ==
  [notices EXCEPT !.report = Stored(@, o, [value |-> value, timestamp |-> now])]
-----------------------------------------------------------------------------
RotationNoticed ==
  \/ \E to \in Admins, d \in Delays :
       ProposeAdmin(to, d) /\ notices' = AdminRotationProposed(to, now + d)
  \/ AcceptAdmin /\ notices' = AdminRotationAccepted(proposal.to)

PauseNoticed ==
  \E on \in BOOLEAN : /\ \/ SetHalted(on)
                         \/ \E r \in Reasons : SetHaltedWithReason(on, r)
                      /\ notices' = PausedEvent(on)

FreezeNoticed ==
  \/ \E r \in FreezeReasons : FreezeDraws(r) /\ notices' = DrawsFrozenEvent(TRUE)
  \/ UnfreezeDraws /\ notices' = DrawsFrozenEvent(FALSE)
  \/ \E b \in Holders :
       \/ \E r \in FreezeReasons : FreezeCreditLine(b, r) /\ notices' = CreditLineFreezeEvent(b, r)
       \/ UnfreezeCreditLine(b) /\ notices' = CreditLineFreezeEvent(b, Nobody)
       \/ \E e \in Expiries : FreezeBorrowerUntil(b, e) /\ notices' = BorrowerFrozenEvent(b, e)
       \/ UnfreezeBorrower(b) /\ UNCHANGED notices
  \/ \E group \in SUBSET Holders : SetBlocked(group, TRUE) /\ notices' = BorrowerBlockedEvents(group, TRUE)
  \/ \E b \in Holders : SetBlocked({b}, FALSE) /\ notices' = BorrowerBlockedEvents({b}, FALSE)

RegistryNoticed ==
  /\ \/ \E o \in Feeders, w \in Weights : AddOracle(o, w) /\ notices' = OracleAddedEvent(o, w)
     \/ \E o \in Feeders : RemoveOracle(o) /\ notices' = OracleRemovedEvent(o)
     \/ \E o \in Feeders, v \in Values : ReportValue(o, v) /\ notices' = OracleValueReportedEvent(o, v)
     \/ \E t \in Thresholds : SetQuorumThreshold(t) /\ notices' = OracleQuorumThresholdSetEvent(t)
     \/ \E w \in Windows : SetReportingWindow(w) /\ notices' = OracleReportingWindowSetEvent(w)
  /\ UNCHANGED <<now, controlVars>>
-----------------------------------------------------------------------------
\* A borrower is taken to be free to draw, as far as the controls go.
WatcherSaysFree(b) ==
  /\ ~notices.halted /\ ~notices.draws_frozen /\ b \notin notices.blocked
  /\ notices.line_freeze[b] = Nobody
  /\ notices.frozen_until[b] # Nobody => now >= notices.frozen_until[b]

\* A watcher of the events is never surprised by a refused draw: it knows the pause, the
\* freezes and the blocklist through repeated pauses, bulk calls and expiring freezes, and
\* knows who the admin is and who is about to become it and when.
WatcherNotSurprised ==
  /\ \A b \in Holders : WatcherSaysFree(b) /\ DrawStatusOK(lineStatus[b]) => DrawGate(b)
  /\ notices.admin = admin
  /\ notices.proposal = IF proposal = Nobody THEN Nobody
                        ELSE [to |-> proposal.to, accept_after |-> proposal.accept_after]

\* The registry can be rebuilt from its events: weights, reports with their times, threshold
\* and window, so anyone can recompute the median, whichever oracles came, went and came back.
RegistryFollowed ==
  /\ notices.weight = oracle_weight /\ notices.report = oracle_report
  /\ notices.threshold = quorum_threshold /\ notices.window = reporting_window

\* A follower of the notices knows who may draw and which oracles count.
FollowersCurrent == WatcherNotSurprised /\ RegistryFollowed
=============================================================================
