----------------------------- MODULE RatePolicy -----------------------------
(***************************************************************************)
(* How the credit contract prices a line: the formula from the risk score, *)
(* the borrower's rate floor and ceiling, the limits on rate changes, the  *)
(* committed score, the bounds of credit limits, and the attestation       *)
(* batches behind a borrower's score.                                      *)
(***************************************************************************)
EXTENDS Controls, SequencesExt

CONSTANTS
  Rates,         \* supplied rates, too high ones included
  Scores,        \* supplied scores, too high ones included
  Limits,        \* supplied credit limits
  Formulas,      \* [base, slope, min, max], valid ones or not
  Floors,        \* floors and ceilings in bps
  ChangeRules,   \* [delta, interval] of rate changes
  LimitRules,    \* [min, max] of credit limits, valid ones or not
  TopRate,       \* MAX_INTEREST_RATE_BPS
  TopScore,      \* MAX_RISK_SCORE
  TopU32,        \* u32::MAX
  Hashes,        \* hashes of committed outputs, sequences of bytes
  Trees          \* committed attestation trees, <<<<leaf, leaf>>, <<leaf, leaf>>>>

ASSUME PolicyAssumption ==
  /\ TopRate \in Nat /\ TopScore \in Nat /\ TopU32 \in Nat
  /\ Rates \subseteq Nat /\ Scores \subseteq Nat /\ Floors \subseteq Nat
  /\ Formulas \subseteq [base : Nat, slope : Nat, min : Nat, max : Nat]
  /\ ChangeRules \subseteq [delta : Nat, interval : Nat]

VARIABLES
  formula, change_rule, limit_bounds,  \* Nobody until set
  rate_floor, rate_ceiling,            \* per borrower, Nobody if none
  rate, score, limit, rate_ts,         \* interest_rate_bps, risk_score, credit_limit, last_rate_update_ts
  commitment,                          \* VrfCommitment: the committed hash
  batch                                \* AttestationBatch: the committed tree, known by its root

termVars == <<formula, change_rule, limit_bounds, rate_floor, rate_ceiling>>
priceVars == <<rate, score, limit, rate_ts>>
policyVars == <<termVars, priceVars, commitment, batch>>

PolicyInit ==
  /\ formula = Nobody /\ change_rule = Nobody /\ limit_bounds = Nobody
  /\ rate_floor = [b \in Holders |-> Nobody] /\ rate_ceiling = [b \in Holders |-> Nobody]
  /\ rate = [b \in Holders |-> 0] /\ score = [b \in Holders |-> 0]
  /\ limit = [b \in Holders |-> 0] /\ rate_ts = [b \in Holders |-> 0]
  /\ commitment = [b \in Holders |-> Nobody] /\ batch = [b \in Holders |-> Nobody]

AtMost(n, top) == IF n > top THEN top ELSE n
AtLeast(n, bottom) == IF n < bottom THEN bottom ELSE n
-----------------------------------------------------------------------------
(* Settings *)

ValidFormula(f) == f.min <= TopRate /\ f.min <= f.max /\ f.max <= TopRate /\ f.base <= TopRate

SetRateFormula(f) ==
  /\ ~halted
  /\ ValidFormula(f)
  /\ formula' = f
  /\ UNCHANGED <<change_rule, limit_bounds, rate_floor, rate_ceiling, priceVars, commitment, batch>>

ClearRateFormula ==
  /\ formula' = Nobody
  /\ UNCHANGED <<change_rule, limit_bounds, rate_floor, rate_ceiling, priceVars, commitment, batch>>

SetRateChangeLimits(r) ==
  /\ ~halted
  /\ change_rule' = r
  /\ UNCHANGED <<formula, limit_bounds, rate_floor, rate_ceiling, priceVars, commitment, batch>>

SetCreditLimitBounds(r) ==
  /\ ~halted
  /\ r.min >= 0 /\ r.max >= r.min
  /\ limit_bounds' = r
  /\ UNCHANGED <<formula, change_rule, rate_floor, rate_ceiling, priceVars, commitment, batch>>

\* The storage setters end by extending the lifetime of the entry, which the host refuses for an
\* entry that has just been removed: None reverts.
Stores(value) == value # Nobody

SetBorrowerRateFloor(b, floor) ==
  /\ Stores(floor) /\ floor <= TopRate
  /\ rate_floor' = [rate_floor EXCEPT ![b] = floor]
  /\ UNCHANGED <<formula, change_rule, limit_bounds, rate_ceiling, priceVars, commitment, batch>>

SetBorrowerRateCeiling(b, ceiling) ==
  /\ Stores(ceiling) /\ ceiling <= TopRate
  /\ rate_floor[b] # Nobody => ceiling >= rate_floor[b]
  /\ rate_ceiling' = [rate_ceiling EXCEPT ![b] = ceiling]
  /\ UNCHANGED <<formula, change_rule, limit_bounds, rate_floor, priceVars, commitment, batch>>

SettingsStep ==
  \/ \E f \in Formulas : SetRateFormula(f)
  \/ ClearRateFormula
  \/ \E r \in ChangeRules : SetRateChangeLimits(r)
  \/ \E r \in LimitRules : SetCreditLimitBounds(r)
  \/ \E b \in Holders, x \in Floors : SetBorrowerRateFloor(b, x) \/ SetBorrowerRateCeiling(b, x)
-----------------------------------------------------------------------------
(* Committed scores *)

DeriveScore(hash) == AtMost(FoldSeq(+, 0, hash), TopU32) % (TopScore + 1)

CommitVrfOutput(b, hash) ==
  /\ ~halted
  /\ commitment[b] = Nobody
  /\ commitment' = [commitment EXCEPT ![b] = hash]
  /\ UNCHANGED <<termVars, priceVars, batch>>

ClearVrfCommitment(b) ==
  /\ ~halted
  /\ commitment' = [commitment EXCEPT ![b] = Nobody]
  /\ UNCHANGED <<termVars, priceVars, batch>>

\* A score that changes must be the committed one, if one is committed.
ScoreAllowed(b, s) == s # score[b] /\ commitment[b] # Nobody => s = DeriveScore(commitment[b])
-----------------------------------------------------------------------------
(* The price of a line *)

WithinBounds(l) == limit_bounds # Nobody => limit_bounds.min <= l /\ l <= limit_bounds.max

\* open_credit_line takes the supplied rate and score as they are.
OpenCreditLine(b, l, r, s) ==
  /\ l > 0 /\ r <= TopRate /\ s <= TopScore /\ WithinBounds(l)
  /\ OpenLine(b)
  /\ rate' = [rate EXCEPT ![b] = r] /\ score' = [score EXCEPT ![b] = s]
  /\ limit' = [limit EXCEPT ![b] = l] /\ rate_ts' = [rate_ts EXCEPT ![b] = 0]
  /\ UNCHANGED <<termVars, commitment, batch>>

\* compute_rate_from_score.
RateFromScore(f, s) ==
  LET upper == AtMost(f.max, TopRate)
      raw   == AtMost(f.base + AtMost(s * f.slope, TopU32), TopU32)
  IN  AtMost(AtLeast(raw, AtMost(f.min, upper)), upper)

\* Mutant: the ceiling is applied before the floor.
FinalRateFloorLast(b, r, s) ==
  LET priced == IF formula # Nobody THEN RateFromScore(formula, s) ELSE r
      capped == IF rate_ceiling[b] # Nobody THEN AtMost(priced, rate_ceiling[b]) ELSE priced
  IN  IF rate_floor[b] # Nobody THEN AtLeast(capped, rate_floor[b]) ELSE capped

\* The formula's or the supplied rate, raised to the floor, then lowered to the ceiling.
FinalRate(b, r, s) ==
  LET priced  == IF formula # Nobody THEN RateFromScore(formula, s) ELSE r
      floored == IF rate_floor[b] # Nobody THEN AtLeast(priced, rate_floor[b]) ELSE priced
  IN  IF rate_ceiling[b] # Nobody THEN AtMost(floored, rate_ceiling[b]) ELSE floored

Difference(p, q) == IF p > q THEN p - q ELSE q - p

\* Under a rule, a change is small and, after a first one, not too soon.
ChangeAllowed(b, final) ==
  change_rule # Nobody /\ final # rate[b] =>
    /\ Difference(final, rate[b]) <= change_rule.delta
    /\ change_rule.interval > 0 /\ rate_ts[b] > 0 => now - rate_ts[b] >= change_rule.interval

UpdateRiskParameters(b, l, r, s) ==
  LET final == FinalRate(b, r, s)
  IN  /\ UpdateRisk(b)
      /\ l >= 0 /\ s <= TopScore
      /\ ScoreAllowed(b, s)
      /\ WithinBounds(l)
      /\ ChangeAllowed(b, final)
      /\ final <= TopRate
      /\ rate_ts' = IF change_rule # Nobody /\ final # rate[b] THEN [rate_ts EXCEPT ![b] = now] ELSE rate_ts
      /\ rate' = [rate EXCEPT ![b] = final] /\ score' = [score EXCEPT ![b] = s]
      /\ limit' = [limit EXCEPT ![b] = l]
      /\ UNCHANGED <<termVars, commitment, batch>>
-----------------------------------------------------------------------------
(* Attestations *)

\* Sorted before hashing, so a pair has one hash; a collision-free hash is external.
HashPair(p, q) == [children |-> {p, q}]

ComputeRoot(leaf, proof) == FoldLeft(HashPair, leaf, proof)

Root(tree) == HashPair(HashPair(tree[1][1], tree[1][2]), HashPair(tree[2][1], tree[2][2]))

CommitAttestationBatch(b, tree) ==
  /\ ~halted
  /\ batch' = [batch EXCEPT ![b] = tree]
  /\ UNCHANGED <<termVars, priceVars, commitment>>

ClearAttestationBatch(b) ==
  /\ ~halted
  /\ batch' = [batch EXCEPT ![b] = Nobody]
  /\ UNCHANGED <<termVars, priceVars, commitment>>

VerifyAttestationProof(b, leaf, proof) == batch[b] # Nobody /\ ComputeRoot(leaf, proof) = Root(batch[b])
-----------------------------------------------------------------------------
PricingNext ==
  \/ SettingsStep /\ UNCHANGED <<now, controlVars>>
  \/ \E b \in Holders : /\ \/ ClearVrfCommitment(b)
                           \/ \E h \in Hashes : CommitVrfOutput(b, h)
                        /\ UNCHANGED <<now, controlVars>>
  \/ \E b \in Holders, l \in Limits, r \in Rates, s \in Scores :
       OpenCreditLine(b, l, r, s) \/ UpdateRiskParameters(b, l, r, s)

AttestationNext ==
  \E b \in Holders : /\ \/ ClearAttestationBatch(b)
                        \/ \E t \in Trees : CommitAttestationBatch(b, t)
                     /\ UNCHANGED <<now, controlVars>>
-----------------------------------------------------------------------------
Members(tree) == {tree[1][1], tree[1][2], tree[2][1], tree[2][2]}
Leaves == UNION {Members(t) : t \in Trees}
Uncles == {HashPair(p, q) : p, q \in Leaves}
Repriced(b) == lineStatus[b] = "Active" /\ lineStatus'[b] = "Active" /\ rate'[b] # rate[b]

\* A repriced line respects the ceiling, and the floor unless the ceiling is below it; it leaves
\* the formula's band only for its floor, or for a ceiling that cuts the floor, upwards and only
\* for its ceiling downwards.
RateInBand ==
  [][\A b \in Holders : Repriced(b) =>
       /\ rate_ceiling[b] # Nobody => rate'[b] <= rate_ceiling[b]
       /\ rate_floor[b] # Nobody => rate'[b] >= rate_floor[b] \/ rate'[b] = rate_ceiling[b]
       /\ formula # Nobody =>
            /\ rate'[b] > formula.max => \/ rate'[b] = rate_floor[b]
                                         \/ rate'[b] = rate_ceiling[b] /\ rate_ceiling[b] < rate_floor[b]
            /\ rate'[b] < formula.min => rate'[b] = rate_ceiling[b]]_<<now, controlVars, policyVars>>

\* Whatever formula the setter let through, a worse score never gets a better rate, and the
\* rate stays in the formula's band, also where the arithmetic saturates.
FormulaMonotone ==
  formula # Nobody =>
    \A s, t \in 0..TopScore :
      /\ s <= t => RateFromScore(formula, s) <= RateFromScore(formula, t)
      /\ formula.min <= RateFromScore(formula, s) /\ RateFromScore(formula, s) <= formula.max

\* While rate changes are limited, a line is never repriced by more than the limit at once, and a
\* line repriced under the limits is not repriced again before the interval is over, unless it
\* is reopened in between; formula, floor and ceiling are no way around it.
RepricingLimited ==
  [][\A b \in Holders : Repriced(b) /\ change_rule # Nobody =>
       /\ rate'[b] - rate[b] \in -change_rule.delta..change_rule.delta
       /\ rate_ts[b] > 0 => now >= rate_ts[b] + change_rule.interval
       /\ rate_ts'[b] = now]_<<now, controlVars, policyVars>>

\* While a score is committed, a risk update moves a line's score nowhere but to the committed
\* one; only opening the line again can give it another.
CommittedScoreKept ==
  [][\A b \in Holders :
       score'[b] # score[b] /\ commitment[b] # Nobody /\ lineStatus[b] = "Active"
         => score'[b] = DeriveScore(commitment[b])]_<<now, controlVars, policyVars>>

\* Every leaf of the committed tree is proved by its sibling and its uncle, and no other leaf
\* by any two hashes: a proof against a replaced batch is worth nothing unless the new tree
\* holds the leaf at the same place.
ProofsFollowBatch ==
  \A b \in Holders, leaf \in Leaves : batch[b] # Nobody =>
    /\ leaf \in Members(batch[b]) =>
         \E sibling \in Members(batch[b]), uncle \in Uncles : VerifyAttestationProof(b, leaf, <<sibling, uncle>>)
    /\ leaf \notin Members(batch[b]) =>
         \A sibling \in Leaves, uncle \in Uncles : ~VerifyAttestationProof(b, leaf, <<sibling, uncle>>)

\* A floor that is set can be cleared: "Pass `None` to clear" (set_borrower_rate_floor).
FloorCanBeCleared == \A b \in Holders : rate_floor[b] # Nobody => ENABLED SetBorrowerRateFloor(b, Nobody)

\* What a change of terms may do to a line: its rate stays in its band, moves within the limits,
\* follows the formula and the committed score; and an attestation is believed only for the batch
\* on file.
PolicySound ==
  RateInBand /\ RepricingLimited /\ CommittedScoreKept /\ [](FormulaMonotone /\ ProofsFollowBatch)
=============================================================================
