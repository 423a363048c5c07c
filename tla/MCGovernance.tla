---------------------------- MODULE MCGovernance ----------------------------
(***************************************************************************)
(* Model checking of the parts of the credit contract that decide who may  *)
(* do what and at which price, and of the contracts beside it.  The parts  *)
(* share no state but the clock and, for prices and rates, the controls;   *)
(* a behaviour exercises the one part chosen in its initial state, under   *)
(* the bounds named here.  The clock starts at 1: a timestamp of 0 counts  *)
(* as none in the risk cooldowns.                                          *)
(***************************************************************************)
EXTENDS Governance, TLC

CONSTANTS
  Parts,      \* parts of this run
  h1, h2,     \* Holders
  x, y, z, w  \* attestation leaves

VARIABLE part

Formula(base, slope, low, high) == [base |-> base, slope |-> slope, min |-> low, max |-> high]
SomeFormulas == {Formula(1, 2, 2, 4), Formula(3, 0, 1, 1), Formula(2, 1, 3, 2), Formula(5, 2, 0, 4)}
SomeChangeRules == {[delta |-> 1, interval |-> 0], [delta |-> 2, interval |-> 2]}
SomeLimitRules == {[min |-> 2, max |-> 3], [min |-> 3, max |-> 2]}
SomeHashes == {<<1, 1>>, <<3, 3>>}
SomeTrees == {<<<<x, y>>, <<z, w>>>>, <<<<x, z>>, <<y, y>>>>, <<<<x, x>>, <<x, x>>>>}

SomeSingleRules == {[deviation |-> 2, age |-> 1], [deviation |-> 0, age |-> 1]}
SomeQuorumRules == {[k |-> 2, deviation |-> 1, age |-> 1], [k |-> 3, deviation |-> 2, age |-> 2],
                    [k |-> 1, deviation |-> 1, age |-> 1]}

\* Two of the five reasons to refuse a draw are in force at a time.
ControlsBound ==
  /\ part # "rotation" => admin = CHOOSE a \in Admins : TRUE
  /\ part # "rotation" => /\ lineStatus[h2] = "None" /\ line_freeze[h2] = Nobody
                          /\ frozen_until[h2] = Nobody
                          /\ \A k \in Kinds : last_action[k][h2] = Nobody
  /\ part = "draws" =>
       Cardinality({r \in {<<1, halted>>, <<2, draws_frozen # Nobody>>, <<3, frozen_until[h1] # Nobody>>,
                           <<4, line_freeze[h1] # Nobody>>, <<5, blocked # {}>>} : r[2]}) <= 2
  /\ part = "cooldowns" =>
       /\ blocked = {} /\ draws_frozen = Nobody /\ frozen_until[h1] = Nobody
       /\ lineStatus[h1] \in {"None", "Active", "Restricted", "Suspended", "Defaulted"}
       /\ \E k \in Kinds : \A l \in Kinds \ {k} : cooldown[l] > 0 => k = "accrual" /\ l = "risk"
       /\ indebted = {} \/ cooldown["accrual"] > 0

\* A line of the pricing part stays Active; two of the five kinds of setting are made at a time.
PricingBound ==
  part = "pricing" =>
    /\ now <= 3
    /\ lineStatus[h1] \in {"None", "Active"}
    /\ Cardinality({s \in {<<1, formula>>, <<2, change_rule>>, <<3, limit_bounds>>, <<4, rate_floor[h1]>>,
                           <<5, rate_ceiling[h1]>>, <<6, commitment[h1]>>} : s[2] # Nobody}) <= 3
    /\ limit_bounds # Nobody \/ commitment[h1] # Nobody => rate_floor[h1] = Nobody /\ rate_ceiling[h1] = Nobody
    /\ rate_floor[h2] = Nobody /\ rate_ceiling[h2] = Nobody /\ commitment[h2] = Nobody /\ batch[h2] = Nobody

\* Settlements meet a registry of at most one oracle.
FeedBound ==
  /\ part = "registry" => now <= 3
  /\ part = "prices" => Len(oracle_list) <= 1 /\ Range(oracle_weight) \subseteq {2}

Bounded == ControlsBound /\ PricingBound /\ FeedBound

Symmetry == Permutations(Feeders)

Init ==
  /\ now = 1
  /\ part \in Parts
  /\ ControlsInit /\ FeedsInit /\ NoticesInit /\ PolicyInit /\ IndexInit /\ CompanionsInit
  /\ part # "index" => walk.view = "enumerate" /\ walk.size = MaxPage
  /\ part # "companions" => \A u \in Users : legacy[u] = Absent
  /\ Bounded

ControlsStep ==
  \/ part = "rotation" /\ (RotationNoticed \/ PauseNoticed)
  \/ part = "draws" /\ ((LineNext /\ UNCHANGED notices) \/ FreezeNoticed \/ PauseNoticed)
  \/ part = "cooldowns" /\ (((LineNext \/ CooldownNext) /\ UNCHANGED notices) \/ FreezeNoticed)
  \/ Tick /\ UNCHANGED <<controlVars, notices>>

FeedStep ==
  \/ part = "registry" /\ RegistryNoticed
  \/ part = "prices" /\ (RegistryNoticed \/ (BreakerNext /\ UNCHANGED notices))

BesideStep ==
  \/ part = "pricing" /\ PricingNext /\ UNCHANGED <<feedVars, indexVars, companionVars>>
  \/ part = "attestations" /\ AttestationNext /\ UNCHANGED <<feedVars, indexVars, companionVars>>
  \/ part = "index" /\ IndexNext /\ UNCHANGED <<now, controlVars, feedVars, policyVars, companionVars>>
  \/ part = "companions" /\ CompanionsNext /\ UNCHANGED <<controlVars, feedVars, policyVars, indexVars>>

Next ==
  /\ \/ ControlsStep /\ UNCHANGED <<feedVars, policyVars, indexVars, companionVars>>
     \/ FeedStep /\ UNCHANGED <<policyVars, indexVars, companionVars>>
     \/ BesideStep /\ UNCHANGED notices
  /\ UNCHANGED part
  /\ Bounded'

vars == <<now, part, controlVars, feedVars, policyVars, indexVars, companionVars, notices>>

Spec == Init /\ [][Next]_vars
=============================================================================
