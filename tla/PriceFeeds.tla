----------------------------- MODULE PriceFeeds -----------------------------
(***************************************************************************)
(* The prices a liquidation settlement of the credit contract accepts: the *)
(* registry of weighted oracles and its median, the quorum of submitted    *)
(* prices, and the single oracle with its circuit breaker.  What else a    *)
(* settlement does is in CreditLines and Liquidation.                      *)
(***************************************************************************)
EXTENDS Controls, SequencesExt

CONSTANTS
  Feeders,       \* addresses that may become oracles
  Weights,       \* weights, 0 included
  Values,        \* reported and submitted prices
  MaxOracles,    \* MAX_ORACLE_FEEDS
  Thresholds,    \* quorum weights of the registry
  Windows,       \* reporting windows in seconds
  SingleRules,   \* [deviation, age] of the circuit breaker, valid ones or not
  QuorumRules,   \* [k, deviation, age], valid ones or not
  Unit,          \* 10_000 basis points
  U32Max, I128Max

ASSUME FeedsAssumption ==
  /\ Weights \subseteq Nat /\ Values \subseteq Int /\ MaxOracles \in Nat
  /\ Thresholds \subseteq Nat /\ Windows \subseteq Nat
  /\ Unit \in Nat \ {0} /\ U32Max \in Nat /\ I128Max \in Nat

VARIABLES
  oracle_list, oracle_weight, oracle_report, \* the registry
  quorum_threshold, reporting_window,        \* Nobody until set
  oracle_config, quorum_config,              \* Nobody until set
  quorum_price, last_price                   \* [price, ts]

registryVars == <<oracle_list, oracle_weight, oracle_report, quorum_threshold, reporting_window>>
breakerVars == <<oracle_config, quorum_config, quorum_price, last_price>>
feedVars == <<registryVars, breakerVars>>

FeedsInit ==
  /\ oracle_list = << >> /\ oracle_weight = << >> /\ oracle_report = << >>
  /\ quorum_threshold = Nobody /\ reporting_window = Nobody
  /\ oracle_config = Nobody /\ quorum_config = Nobody
  /\ quorum_price = Nobody /\ last_price = Nobody

Stored(f, key, value) == [x \in DOMAIN f \cup {key} |-> IF x = key THEN value ELSE f[x]]
Erased(f, key) == [x \in DOMAIN f \ {key} |-> f[x]]
-----------------------------------------------------------------------------
(* The registry *)

AddOracle(o, weight) ==
  /\ weight > 0
  /\ ~Contains(oracle_list, o) => Len(oracle_list) < MaxOracles
  /\ oracle_list' = IF Contains(oracle_list, o) THEN oracle_list ELSE Append(oracle_list, o)
  /\ oracle_weight' = Stored(oracle_weight, o, weight)
  /\ UNCHANGED <<oracle_report, quorum_threshold, reporting_window, breakerVars>>

\* Mutant: the report of a removed oracle stays.
RemoveOracleKeepsReport(o) ==
  /\ Contains(oracle_list, o)
  /\ oracle_list' = Remove(oracle_list, o)
  /\ oracle_weight' = Erased(oracle_weight, o)
  /\ UNCHANGED <<oracle_report, quorum_threshold, reporting_window, breakerVars>>

RemoveOracle(o) ==
  /\ Contains(oracle_list, o)
  /\ oracle_list' = Remove(oracle_list, o)
  /\ oracle_weight' = Erased(oracle_weight, o)
  /\ oracle_report' = Erased(oracle_report, o)
  /\ UNCHANGED <<quorum_threshold, reporting_window, breakerVars>>

\* set_quorum_threshold; a threshold of 0 is accepted and then never met.
SetQuorumThreshold(t) ==
  /\ quorum_threshold' = t
  /\ UNCHANGED <<oracle_list, oracle_weight, oracle_report, reporting_window, breakerVars>>

SetReportingWindow(w) ==
  /\ reporting_window' = w
  /\ UNCHANGED <<oracle_list, oracle_weight, oracle_report, quorum_threshold, breakerVars>>

ReportValue(o, value) ==
  /\ value > 0
  /\ Contains(oracle_list, o)
  /\ oracle_report' = Stored(oracle_report, o, [value |-> value, timestamp |-> now])
  /\ UNCHANGED <<oracle_list, oracle_weight, quorum_threshold, reporting_window, breakerVars>>

\* The listed oracles whose report is recent enough.
FreshFeeders ==
  {o \in Range(oracle_list) \cap DOMAIN oracle_report :
     now - oracle_report[o].timestamp <= IF reporting_window = Nobody THEN 0 ELSE reporting_window}

WeightOf(group) == MapThenSumSet(LAMBDA o : oracle_weight[o], group)

\* The first report, by value, at which the accumulated weight reaches half of the total.
MedianOf(group) ==
  LET order == SetToSortSeq(group, LAMBDA p, q : oracle_report[p].value < oracle_report[q].value)
      half  == (WeightOf(group) + 1) \div 2
      reach == {i \in DOMAIN order : WeightOf({order[j] : j \in 1..i}) >= half}
  IN  oracle_report[order[Min(reach)]].value

\* get_median_value; Nobody stands for every error.
MedianValue ==
  IF \/ quorum_threshold \in {Nobody, 0}
     \/ FreshFeeders = {}
     \/ WeightOf(FreshFeeders) > U32Max
     \/ WeightOf(FreshFeeders) < quorum_threshold
  THEN Nobody
  ELSE MedianOf(FreshFeeders)
-----------------------------------------------------------------------------
(* The circuit breaker and the quorum of prices *)

SetOracleConfig(c) ==
  /\ ~halted
  /\ c.deviation \in 1..Unit /\ c.age > 0
  /\ oracle_config' = c
  /\ UNCHANGED <<registryVars, quorum_config, quorum_price, last_price>>

SetOracleQuorumConfig(c) ==
  /\ ~halted
  /\ c.k >= 2 /\ c.deviation <= Unit /\ c.age > 0
  /\ quorum_config' = c
  /\ UNCHANGED <<registryVars, oracle_config, quorum_price, last_price>>

Capped(n) == IF n > U32Max THEN U32Max ELSE n
Distance(p, q) == IF p > q THEN p - q ELSE q - p

\* compute_deviation_bps: rounded down, saturated.
DeviationBps(new, last) == Capped((Distance(new, last) * Unit) \div last)

WindowAgrees(s, i, c) == DeviationBps(s[i + c.k - 1], s[i]) <= c.deviation

\* resolve_quorum_price: the lower middle of the first k sorted neighbours that agree.
ResolveQuorumPrice(feeds, c) ==
  LET n == Len(feeds)
      s == SortSeq(feeds, <)
      starts == {i \in 1..(n - c.k + 1) : WindowAgrees(s, i, c)}
  IN  IF \/ n = 0 \/ n > MaxOracles
         \/ c.k < 2 \/ c.k > n
         \/ \E i \in 1..n : feeds[i] <= 0
         \/ starts = {}
      THEN Nobody
      ELSE s[Min(starts) + (c.k - 1) \div 2]

SubmitOraclePrices(feeds) ==
  /\ ~halted
  /\ quorum_config # Nobody
  /\ ResolveQuorumPrice(feeds, quorum_config) # Nobody
  /\ quorum_price' = [price |-> ResolveQuorumPrice(feeds, quorum_config), ts |-> now]
  /\ last_price' = quorum_price'
  /\ UNCHANGED <<registryVars, oracle_config, quorum_config>>

QuorumModePrice ==
  IF quorum_price = Nobody \/ now - quorum_price.ts > quorum_config.age THEN Nobody ELSE quorum_price.price

\* The supplied price, if it is positive and close to a last accepted price that is not stale.
SingleOraclePrice(supplied) ==
  IF \/ supplied = Nobody \/ supplied <= 0
     \/ /\ last_price # Nobody
        /\ \/ now - last_price.ts > oracle_config.age
           \/ DeviationBps(supplied, last_price.price) > oracle_config.deviation
  THEN Nobody ELSE supplied

\* validate_settlement_oracle_price: registry, then quorum, then single oracle.
Resolved(supplied) ==
  IF quorum_threshold # Nobody THEN [mode |-> "registry", price |-> MedianValue]
  ELSE IF quorum_config # Nobody THEN [mode |-> "quorum", price |-> QuorumModePrice]
  ELSE IF oracle_config # Nobody THEN [mode |-> "single", price |-> SingleOraclePrice(supplied)]
  ELSE [mode |-> "none", price |-> Nobody]

\* The price of a settlement: refused, or accepted and recorded.
SettleWithPrice(supplied) ==
  LET r == Resolved(supplied)
  IN  /\ r.mode # "none" => r.price # Nobody
      /\ r.mode = "registry" => r.price <= I128Max
      /\ last_price' = IF r.mode = "none" THEN last_price ELSE [price |-> r.price, ts |-> now]
      /\ UNCHANGED <<registryVars, oracle_config, quorum_config, quorum_price>>
-----------------------------------------------------------------------------
FeedLists == BoundedSeq(Values, MaxOracles + 1)

BreakerNext ==
  /\ \/ \E c \in SingleRules : SetOracleConfig(c)
     \/ \E c \in QuorumRules : SetOracleQuorumConfig(c)
     \/ \E feeds \in FeedLists : SubmitOraclePrices(feeds)
     \/ \E p \in Values \cup {Nobody} : SettleWithPrice(p)
  /\ UNCHANGED <<now, controlVars>>
-----------------------------------------------------------------------------
\* Weights and reports on file are those of listed oracles, and no oracle is listed twice: what
\* a former oracle said is gone when it is listed again.
RegistryExact ==
  /\ IsInjective(oracle_list)
  /\ DOMAIN oracle_weight = Range(oracle_list)
  /\ DOMAIN oracle_report \subseteq Range(oracle_list)

\* The registry's price splits the fresh weight: less than half of it lies below the price and
\* at most half above, so oracles with a minority of the weight cannot move it past the others.
MedianIsMiddle ==
  MedianValue # Nobody =>
    LET below == {o \in FreshFeeders : oracle_report[o].value < MedianValue}
        above == {o \in FreshFeeders : oracle_report[o].value > MedianValue}
    IN  /\ 2 * WeightOf(below) < WeightOf(FreshFeeders)
        /\ 2 * WeightOf(above) <= WeightOf(FreshFeeders)
        /\ below \cup above # FreshFeeders

\* Some k feeds, the highest of which is within the allowed deviation of the lowest.
Agreeing(feeds, S, c) ==
  /\ Cardinality(S) = c.k
  /\ \A i, j \in S : feeds[i] > feeds[j] => DeviationBps(feeds[i], feeds[j]) <= c.deviation

\* Whatever feeds are submitted under the rule in force, the price stored for them lies in the
\* middle of k feeds that agree with each other, and feeds of which any k agree, neighbours or
\* not, are not refused.
QuorumPriceBacked ==
  quorum_config # Nobody =>
    \A feeds \in BoundedSeq(Values \cap (Nat \ {0}), MaxOracles) :
      LET price  == ResolveQuorumPrice(feeds, quorum_config)
          groups == {S \in SUBSET DOMAIN feeds : Agreeing(feeds, S, quorum_config)}
      IN  IF price = Nobody
          THEN groups = {}
          ELSE \E S \in groups :
                 /\ 2 * Cardinality({i \in S : feeds[i] <= price}) >= quorum_config.k
                 /\ 2 * Cardinality({i \in S : feeds[i] >= price}) >= quorum_config.k

\* A price accepted by a settlement is one that some party answers for at that moment:
\* with a registry, enough weight of recent reports on both sides of it; else, with a quorum
\* rule, the latest submission, still young enough; else the single oracle's jump is bounded.
AcceptedPriceAnswered ==
  [][last_price' # last_price /\ last_price' # quorum_price' =>
       LET p == last_price'.price
       IN  IF quorum_threshold # Nobody
           THEN /\ quorum_threshold > 0
                /\ WeightOf({o \in DOMAIN oracle_report :
                     now - oracle_report[o].timestamp <= IF reporting_window = Nobody THEN 0 ELSE reporting_window})
                     >= quorum_threshold
                /\ \E o, q \in FreshFeeders : oracle_report[o].value <= p /\ p <= oracle_report[q].value
           ELSE IF quorum_config # Nobody
           THEN p = quorum_price.price /\ now <= quorum_price.ts + quorum_config.age
           ELSE /\ p > 0
                /\ last_price # Nobody =>
                     /\ Distance(p, last_price.price) * Unit < (oracle_config.deviation + 1) * last_price.price
                     /\ now <= last_price.ts + oracle_config.age]_<<now, controlVars, feedVars>>

\* A price the contract acts on comes from the source in force and is backed by the oracles listed
\* at that moment.
PricesSound == [](RegistryExact /\ MedianIsMiddle /\ QuorumPriceBacked) /\ AcceptedPriceAnswered
=============================================================================
