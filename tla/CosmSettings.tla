---------------------------- MODULE CosmSettings ----------------------------
(***************************************************************************)
(* The settings of creditra-credit: the oracle committee and the quorum    *)
(* price, the late fee, the protocol version and its negotiation, and the  *)
(* rounding of interest.                                                   *)
(***************************************************************************)
EXTENDS Host, SequencesExt

CONSTANTS
  Oracles,            \* addresses that may become oracles
  OracleWeights,
  FeedValues,         \* prices of one feed
  MaxFeeds,           \* MAX_ORACLE_FEEDS
  QuorumConfigs,      \* [k, deviation, age], valid ones or not
  RateUnit,           \* 10_000 basis points
  U32,                \* 2^32, the width of a deviation
  U128,               \* 2^128, the width it is computed in
  LateFees,           \* late fee configurations, valid ones or not
  Versions,           \* protocol versions [major, minor]
  Unset               \* None: nothing stored, no result

FeedLists == BoundedSeq(FeedValues, MaxFeeds + 1)

ASSUME SettingsAssumption ==
  /\ RateUnit \in Nat \ {0} /\ U32 \in Nat \ {0} /\ U128 \in Nat \ {0}
  /\ FeedValues \subseteq Int /\ MaxFeeds \in Nat /\ OracleWeights \subseteq Nat

VARIABLES
  committee,          \* ORACLE_LIST
  oracleWeight,       \* ORACLE_WEIGHT
  reports,            \* ORACLE_REPORT
  quorum,             \* ORACLE_QUORUM_CONFIG
  record,             \* ORACLE_PRICE_RECORD, with the feeds and the quorum it came from (history)
  late_fee,           \* LATE_FEE_CONFIG
  version             \* PROTOCOL_VERSION

settingsVars == <<committee, oracleWeight, reports, quorum, record, late_fee, version>>

CURRENT_PROTOCOL_VERSION == [major |-> 1, minor |-> 0]
MIN_COMPATIBLE_VERSION == [major |-> 1, minor |-> 0]

SettingsInit ==
  /\ committee = << >> /\ oracleWeight = << >> /\ reports = << >>
  /\ quorum = Unset /\ record = Unset /\ late_fee = Unset
  /\ version = CURRENT_PROTOCOL_VERSION

Put(f, key, value) == [x \in DOMAIN f \cup {key} |-> IF x = key THEN value ELSE f[x]]
Drop(f, key) == [x \in DOMAIN f \ {key} |-> f[x]]
-----------------------------------------------------------------------------
AddOracle(o, weight) ==
  /\ weight > 0
  /\ committee' = IF Contains(committee, o) THEN committee ELSE Append(committee, o)
  /\ oracleWeight' = Put(oracleWeight, o, weight)
  /\ UNCHANGED <<now, reports, quorum, record, late_fee, version>>

\* Mutant: the report of a removed oracle is kept.
RemoveOracleOnly(o) ==
  /\ Contains(committee, o)
  /\ committee' = Remove(committee, o)
  /\ oracleWeight' = Drop(oracleWeight, o)
  /\ UNCHANGED <<now, reports, quorum, record, late_fee, version>>

RemoveOracle(o) ==
  /\ Contains(committee, o)
  /\ committee' = Remove(committee, o)
  /\ oracleWeight' = Drop(oracleWeight, o)
  /\ reports' = Drop(reports, o)
  /\ UNCHANGED <<now, quorum, record, late_fee, version>>

ReportValue(o, value) ==
  /\ Contains(committee, o)
  /\ reports' = Put(reports, o, [value |-> value, timestamp |-> now])
  /\ UNCHANGED <<now, committee, oracleWeight, quorum, record, late_fee, version>>

SetOracleQuorumConfig(c) ==
  /\ c.k >= 2 /\ c.deviation <= RateUnit /\ c.age > 0
  /\ quorum' = c
  /\ UNCHANGED <<now, committee, oracleWeight, reports, record, late_fee, version>>

\* Rounded up, then cut to 32 bits; u32::MAX where 128 bits do not hold the product.
ComputeDeviation(price, last) ==
  LET scaled == (price - last) * RateUnit + last - 1
  IN  IF scaled >= U128 THEN U32 - 1 ELSE (scaled \div last) % U32

InWindow(s, i, c) == ComputeDeviation(s[i + c.k - 1], s[i]) <= c.deviation

\* Unset where the code returns an error: no feeds or too many, too few for the quorum, a
\* price that is not positive, or no k sorted neighbours that agree.
ResolveQuorumPrice(feeds, c) ==
  LET n == Len(feeds)
      s == SortSeq(feeds, <)
      starts == {i \in 1..(n - c.k + 1) : InWindow(s, i, c)}
  IN  IF \/ n = 0 \/ n > MaxFeeds
         \/ c.k < 2 \/ c.k > n
         \/ \E i \in 1..n : feeds[i] <= 0
         \/ starts = {}
      THEN Unset
      ELSE s[Min(starts) + (c.k - 1) \div 2]

SubmitOraclePrices(feeds) ==
  /\ quorum # Unset
  /\ ResolveQuorumPrice(feeds, quorum) # Unset
  /\ record' = [price |-> ResolveQuorumPrice(feeds, quorum), timestamp |-> now,
                feeds |-> feeds, quorum |-> quorum]
  /\ UNCHANGED <<now, committee, oracleWeight, reports, quorum, late_fee, version>>

IsPriceStale(r, c) == now < r.timestamp \/ now - r.timestamp > c.age
-----------------------------------------------------------------------------
ValidateLateFee(f) ==
  /\ f.kind = "Flat" => f.value # 0
  /\ f.kind = "AprBased" => f.value <= RateUnit

SetLateFeeConfig(f) ==
  /\ f # Unset => ValidateLateFee(f)
  /\ late_fee' = f
  /\ UNCHANGED <<now, committee, oracleWeight, reports, quorum, record, version>>

ComputeLateFee(f, missed) ==
  IF missed = 0 \/ f.kind = "AprBased" \/ f.value = 0 THEN 0 ELSE f.value * missed

UpdateProtocolVersion(v) ==
  /\ version' = v
  /\ UNCHANGED <<now, committee, oracleWeight, reports, quorum, record, late_fee>>

MeetsMinimum(v, least) == v.major = least.major /\ v.minor >= least.minor

Negotiate(ours, theirs, ourMin, theirMin) ==
  IF ours.major # theirs.major \/ ~MeetsMinimum(ours, theirMin) \/ ~MeetsMinimum(theirs, ourMin)
  THEN Unset
  ELSE [major |-> ours.major, minor |-> IF ours.minor < theirs.minor THEN ours.minor ELSE theirs.minor]

VerifyPeerVersion(ours, theirs) == ours.major = theirs.major
-----------------------------------------------------------------------------
OracleNext ==
  \/ \E o \in Oracles, w \in OracleWeights : AddOracle(o, w)
  \/ \E o \in Oracles : RemoveOracle(o)
  \/ \E o \in Oracles, v \in FeedValues : ReportValue(o, v)

PriceNext ==
  \/ \E c \in QuorumConfigs : SetOracleQuorumConfig(c)
  \/ \E feeds \in FeedLists : SubmitOraclePrices(feeds)

PolicyNext ==
  \/ \E f \in LateFees \cup {Unset} : SetLateFeeConfig(f)
  \/ \E v \in Versions : UpdateProtocolVersion(v)
-----------------------------------------------------------------------------
\* Only members of the committee have a weight or a report on file, through removals and
\* readmissions: a former member's last report is not the first one after its return.
CommitteeExact ==
  /\ IsInjective(committee)
  /\ DOMAIN oracleWeight = Range(committee)
  /\ DOMAIN reports \subseteq Range(committee)

\* Some k feeds agree: the highest of them is within the allowed deviation of the lowest.
Agree(feeds, S, c) ==
  /\ Cardinality(S) = c.k
  /\ \A i, j \in S : (feeds[i] - feeds[j]) * RateUnit <= c.deviation * feeds[j]

\* A spread of 2^32 basis points or more, which the cast to 32 bits may take for a small one, or
\* one whose product exceeds 128 bits, which is refused whatever it is.
Wraps(feeds) ==
  \E i, j \in DOMAIN feeds :
    LET spread == (feeds[i] - feeds[j]) * RateUnit
    IN  spread > (U32 - 1) * feeds[j] \/ spread + feeds[j] > U128

\* The recorded price was backed by a quorum of the feeds it came from, under the quorum of
\* the time, and lies in the middle of it; and feeds among which any k agree, neighbours or
\* not, are never refused.  Spreads that overflow 32 or 128 bits are the one exception.
QuorumBacked ==
  /\ record # Unset /\ ~Wraps(record.feeds) =>
       \E S \in SUBSET DOMAIN record.feeds :
         /\ Agree(record.feeds, S, record.quorum)
         /\ 2 * Cardinality({i \in S : record.feeds[i] <= record.price}) >= record.quorum.k
         /\ 2 * Cardinality({i \in S : record.feeds[i] >= record.price}) >= record.quorum.k
  /\ quorum # Unset =>
       \A feeds \in BoundedSeq(FeedValues \cap (Nat \ {0}), MaxFeeds) :
         /\ ~Wraps(feeds)
         /\ \E S \in SUBSET DOMAIN feeds : Agree(feeds, S, quorum)
         => ResolveQuorumPrice(feeds, quorum) # Unset

\* A price that went stale is not fresh again before a new submission or a longer age.
StaleStaysStale ==
  [][record # Unset /\ quorum # Unset /\ IsPriceStale(record, quorum)
       => IsPriceStale(record, quorum)' \/ record' # record \/ quorum' # quorum]_<<now, settingsVars>>

\* A stored flat late fee charges for every missed installment; the setter's validation is
\* what the computation relies on.
LateFeeCharges ==
  late_fee # Unset /\ late_fee.kind = "Flat" => \A m \in 1..3 : ComputeLateFee(late_fee, m) >= m

\* Whatever version this contract is moved to, it and a peer that meets its own minimum reach
\* the same result from both sides, it is a version both of them accept, and it implies that the
\* simple peer check passes.
HandshakeSymmetric ==
  \A peer, least \in Versions : MeetsMinimum(peer, least) =>
    LET agreed == Negotiate(version, peer, MIN_COMPATIBLE_VERSION, least)
    IN  /\ agreed = Negotiate(peer, version, least, MIN_COMPATIBLE_VERSION)
        /\ agreed # Unset => /\ VerifyPeerVersion(version, peer)
                             /\ MeetsMinimum(agreed, MIN_COMPATIBLE_VERSION)
                             /\ MeetsMinimum(agreed, least)

\* The settings a line depends on: only listed oracles are heard, a stored price was agreed on by a
\* quorum and ages for good, fees charge and versions are negotiated the same from both sides.
CosmSettingsSound ==
  [](CommitteeExact /\ QuorumBacked /\ LateFeeCharges /\ HandshakeSymmetric) /\ StaleStaysStale
=============================================================================
