---------------------------- MODULE BesideProofs ----------------------------
(***************************************************************************)
(* Theorems about the contracts that never call the credit contract, for   *)
(* any accounts, amounts, campaigns, plans and lines: crowdpay holds what  *)
(* its backers can claim, the escrow with its withdrawals covers what it   *)
(* still owes, and the CosmWasm ledger agrees with its audit trail, also   *)
(* for a client that reads it page by page.                                *)
(***************************************************************************)
EXTENDS Beside, SumTheorems, SequenceTheorems

-----------------------------------------------------------------------------
(* Tokens *)

\* A transfer that the payer can cover leaves balances, and moves the amount.
LEMMA CoveredTransfer ==
  ASSUME NEW S, NEW p \in [S -> Nat], NEW f \in S, NEW t \in S, f # t,
         NEW n \in Nat, n <= p[f]
  PROVE  /\ Transfer(p, f, t, n) \in [S -> Nat]
         /\ Transfer(p, f, t, n)[f] = p[f] - n
         /\ Transfer(p, f, t, n)[t] = p[t] + n
         /\ \A a \in S \ {f, t} : Transfer(p, f, t, n)[a] = p[a]
BY DEF Transfer

\* Writing one value of a function of naturals changes its sum by the difference.
LEMMA SumEdit ==
  ASSUME NEW S, IsFiniteSet(S), NEW f \in [S -> Nat], NEW a \in S, NEW n \in Nat,
         NEW g \in [S -> Nat], g[a] = n, \A x \in S : x # a => g[x] = f[x]
  PROVE  /\ SumFunction(g) = SumFunction(f) + n - f[a]
         /\ SumFunction(f) \in Nat
<1>2. f \in [S -> Int] /\ g \in [S -> Int]
  OBVIOUS
<1>3. SumFunction(g) = SumFunction(f) + g[a] - f[a]
  BY <1>2, SumFunctionUpdate
<1>4. SumFunction(f) \in Nat
  BY SumFunctionNat
<1> QED
  BY <1>3, <1>4
-----------------------------------------------------------------------------
(* CrowdPay *)

\* What RefundsCovered needs to be inductive: balances and contributions are amounts, a
\* milestone is a record that says whether it was released, and before the campaign starts
\* there is none.
CrowdInv ==
  /\ wallets \in [Backers \cup {Till, Owner} -> Nat]
  /\ pledged \in [Backers -> Nat]
  /\ released \in [DOMAIN released -> [target : Nat, released : BOOLEAN]]
  /\ crowd.status = "None" => NothingReleased
  /\ crowd.status \in {"None", "Active", "Funded", "Failed"}
  /\ DOMAIN crowd = {"status", "goal", "deadline", "total_raised"}
  /\ RefundsCovered

\* The campaign that is not there yet.
LEMMA CrowdStarts == CrowdInit => CrowdInv
<1> SUFFICES ASSUME CrowdInit PROVE CrowdInv
  OBVIOUS
<1>1. SumFunction(pledged) = 0
  BY CrowdAssumption, SumFunctionZero DEF CrowdInit
<1>2. wallets \in [Backers \cup {Till, Owner} -> Nat] /\ wallets[Till] = 0
  BY CrowdAssumption DEF CrowdInit, Till, Owner
<1> QED
  BY <1>1, <1>2 DEF CrowdInit, CrowdInv, RefundsCovered, NothingReleased

\* A contribution and its refund change the till and the sum of claims alike.
LEMMA PledgeMoves ==
  ASSUME CrowdInv, NEW b \in Backers, NEW n \in Nat,
         pledged' = [pledged EXCEPT ![b] = n]
  PROVE  /\ pledged' \in [Backers -> Nat]
         /\ SumFunction(pledged') = SumFunction(pledged) + n - pledged[b]
         /\ SumFunction(pledged) \in Nat
<1>1. IsFiniteSet(Backers) /\ pledged \in [Backers -> Nat]
  BY CrowdAssumption DEF CrowdInv
<1>2. /\ pledged' \in [Backers -> Nat] /\ pledged'[b] = n
      /\ \A x \in Backers : x # b => pledged'[x] = pledged[x]
  BY <1>1
<1> DEFINE f == pledged
           g == pledged'
<1>3. /\ f \in [Backers -> Nat] /\ g \in [Backers -> Nat] /\ g[b] = n
      /\ \A x \in Backers : x # b => g[x] = f[x]
  BY <1>1, <1>2
<1> HIDE DEF f, g
<1>4. SumFunction(g) = SumFunction(f) + n - f[b] /\ SumFunction(f) \in Nat
  BY <1>1, <1>3, SumEdit
<1> QED
  BY <1>2, <1>4 DEF f, g

\* Every call of crowdpay keeps the invariant.
LEMMA CrowdKeeps ==
  ASSUME CrowdInv, CrowdNext
  PROVE  CrowdInv'
<1> DEFINE Holders == Backers \cup {Till, Owner}
<1>0. /\ wallets \in [Holders -> Nat] /\ pledged \in [Backers -> Nat]
      /\ Till # Owner /\ Till \in Holders /\ Owner \in Holders
      /\ \A b \in Backers : b # Till /\ b \in Holders /\ wallets[b] \in Nat /\ pledged[b] \in Nat
      /\ wallets[Till] \in Nat
  BY CrowdAssumption DEF CrowdInv, Till, Owner
<1>1. ASSUME NEW g, NEW d, NEW l \in Ladders, InitializeCrowd(g, d, l)
      PROVE  CrowdInv'
  BY <1>1, CrowdAssumption DEF InitializeCrowd, CrowdInv, RefundsCovered, NothingReleased
<1>2. ASSUME NEW b \in Backers, NEW n \in Pledges, Contribute(b, n)
      PROVE  CrowdInv'
  <2>1. n \in Nat /\ n <= wallets[b] /\ wallets' = Transfer(wallets, b, Till, n)
        /\ pledged' = [pledged EXCEPT ![b] = pledged[b] + n] /\ UNCHANGED released
    BY <1>0, <1>2, CrowdAssumption DEF Contribute
  <2>2. wallets' \in [Holders -> Nat] /\ wallets'[Till] = wallets[Till] + n
    BY <1>0, <2>1, CoveredTransfer
  <2>3. /\ pledged' \in [Backers -> Nat]
        /\ SumFunction(pledged') = SumFunction(pledged) + (pledged[b] + n) - pledged[b]
        /\ SumFunction(pledged) \in Nat
    BY <1>0, <2>1, PledgeMoves, pledged[b] + n \in Nat
  <2>4. crowd'.status \in {"Active", "Funded"} /\ DOMAIN crowd' = DOMAIN crowd
    BY <1>2 DEF Contribute, CrowdInv
  <2>5. NothingReleased' => wallets'[Till] = SumFunction(pledged')
    BY <1>0, <2>1, <2>2, <2>3 DEF CrowdInv, RefundsCovered, NothingReleased
  <2> QED
    BY <2>1, <2>2, <2>3, <2>4, <2>5 DEF CrowdInv, RefundsCovered
<1>3. ASSUME NEW i \in DOMAIN released, ReleaseMilestone(i)
      PROVE  CrowdInv'
  <2>1. wallets' \in [Holders -> Nat]
    <3>1. wallets' = Transfer(wallets, Till, Owner, wallets[Till]) /\ wallets[Till] <= wallets[Till]
      BY <1>0, <1>3 DEF ReleaseMilestone
    <3> HIDE DEF Holders
    <3> QED
      BY <1>0, <3>1, CoveredTransfer
  <2>2. /\ released' \in [DOMAIN released' -> [target : Nat, released : BOOLEAN]]
        /\ i \in DOMAIN released' /\ released'[i].released = TRUE
    BY <1>3 DEF ReleaseMilestone, CrowdInv
  <2>3. ~NothingReleased'
    BY <2>2 DEF NothingReleased
  <2> QED
    BY <1>3, <2>1, <2>2, <2>3 DEF CrowdInv, RefundsCovered, ReleaseMilestone
<1>4. ASSUME NEW b \in Backers, RefundBacker(b)
      PROVE  CrowdInv'
  <2>1. /\ pledged[b] <= wallets[Till] /\ wallets' = Transfer(wallets, Till, b, pledged[b])
        /\ pledged' = [pledged EXCEPT ![b] = 0] /\ UNCHANGED <<released, crowd>>
    BY <1>0, <1>4 DEF RefundBacker
  <2>2. wallets' \in [Holders -> Nat] /\ wallets'[Till] = wallets[Till] - pledged[b]
    BY <1>0, <2>1, CoveredTransfer
  <2>3. /\ pledged' \in [Backers -> Nat]
        /\ SumFunction(pledged') = SumFunction(pledged) + 0 - pledged[b]
        /\ SumFunction(pledged) \in Nat
    BY <2>1, PledgeMoves
  <2>4. NothingReleased' => wallets'[Till] = SumFunction(pledged')
    BY <1>0, <2>1, <2>2, <2>3 DEF CrowdInv, RefundsCovered, NothingReleased
  <2> QED
    BY <2>1, <2>2, <2>3, <2>4 DEF CrowdInv, RefundsCovered, NothingReleased
<1>5. ASSUME NEW by, SetFailed(by)
      PROVE  CrowdInv'
  BY <1>5 DEF SetFailed, CrowdInv, RefundsCovered, NothingReleased
<1>6. CASE Tick /\ UNCHANGED crowdVars
  BY <1>6 DEF crowdVars, CrowdInv, RefundsCovered, NothingReleased
<1> QED
  BY <1>1, <1>2, <1>3, <1>4, <1>5, <1>6 DEF CrowdNext

\* Refunds are covered in every state of the contracts: whatever backers contribute and take
\* back, and whoever declares the failure, the contract holds what its backers can still claim
\* until the creator takes a milestone.
THEOREM ClaimsCovered == BesideSpec => []RefundsCovered
<1>1. BesideInit => CrowdInv
  BY CrowdStarts DEF BesideInit
<1>2. CrowdInv /\ [BesideNext]_besideVars => CrowdInv'
  <2> SUFFICES ASSUME CrowdInv, [BesideNext]_besideVars PROVE CrowdInv'
    OBVIOUS
  <2>1. CASE CrowdNext
    BY <2>1, CrowdKeeps
  <2>2. CASE UNCHANGED crowdVars
    BY <2>2 DEF crowdVars, CrowdInv, RefundsCovered, NothingReleased
  <2>3. CrowdNext \/ UNCHANGED crowdVars
    BY DEF BesideNext, CosmCall, EscrowCall, CrowdCall, besideVars
  <2> QED
    BY <2>1, <2>2, <2>3
<1>3. CrowdInv => RefundsCovered
  BY DEF CrowdInv
<1> QED
  BY <1>1, <1>2, <1>3, PTL DEF BesideSpec
-----------------------------------------------------------------------------
(* Escrow: the arithmetic of a share *)

\* A share is rounded down, and no more than the amount unless it is over the unit.
LEMMA ShareBounds ==
  ASSUME NEW a \in Nat, NEW b \in Nat, NEW u \in Nat \ {0}
  PROVE  /\ Share(a, b, u) \in Nat /\ u * Share(a, b, u) <= a * b
         /\ b <= u => Share(a, b, u) <= a
<1> DEFINE n == a * b
           q == n \div u
           r == n % u
<1>1. n \in Nat
  OBVIOUS
<1>2. q \in Nat /\ r \in 0..(u - 1) /\ n = u * q + r
  <2> HIDE DEF n
  <2> QED BY <1>1
<1>3. u * q \in Nat /\ u * q <= n
  BY <1>1, <1>2
<1>4. b <= u => q <= a
  <2> SUFFICES ASSUME b <= u, q >= a + 1 PROVE FALSE
    BY <1>2
  <2>1. u * q >= u * (a + 1)
    BY <1>2
  <2>2. u * (a + 1) = a * u + u /\ a * b <= a * u
    OBVIOUS
  <2>3. a * u \in Nat
    OBVIOUS
  <2> QED
    BY <1>3, <2>1, <2>2, <2>3
<1> QED
  BY <1>2, <1>3, <1>4 DEF Share

\* What the vault must be worth: the shares still to be released of what was raised, where a
\* campaign below its target may lack what deposits up to the target will bring back.  In
\* parts of the unit: `s' is the sum of the shares that are not approved yet.
Covers(vault, raised, target, s) ==
  /\ raised >= target => vault * FeeUnit >= raised * s
  /\ raised < target => vault * FeeUnit + (FeeUnit - s) * (target - raised) >= raised * s

\* A deposit keeps the vault's worth, also the one that reaches the target.
LEMMA DepositCovers ==
  ASSUME NEW v \in Nat, NEW r \in Nat, NEW t \in Int, NEW s \in Nat, s <= FeeUnit, NEW a \in Nat,
         Covers(v, r, t, s)
  PROVE  Covers(v + a, r + a, t, s)
<1> DEFINE d == FeeUnit - s
<1>1. FeeUnit \in Nat /\ d \in Nat /\ FeeUnit = d + s
  BY EscrowAssumption
<1> HIDE DEF d
<1>2. /\ (v + a) * FeeUnit = v * FeeUnit + a * d + a * s
      /\ (r + a) * s = r * s + a * s
  BY <1>1
<1>3. /\ a * d \in Nat /\ a * s \in Nat /\ v * FeeUnit \in Nat /\ r * s \in Nat
  BY <1>1
<1>4. CASE r >= t
  BY <1>2, <1>3, <1>4 DEF Covers
<1>5. CASE r < t
  <2> DEFINE k == t - r
             l == t - (r + a)
  <2>1. k \in Nat /\ l \in Int /\ k = l + a /\ d * k = d * l + a * d /\ d * l \in Int
    BY <1>1, <1>5
  <2>2. v * FeeUnit + d * k >= r * s
    BY <1>5 DEF Covers, d
  <2>3. CASE r + a < t
    <3>1. (v + a) * FeeUnit + d * l >= (r + a) * s
      <4> HIDE DEF k, l
      <4> QED BY <1>2, <1>3, <2>1, <2>2
    <3> QED BY <2>3, <3>1 DEF Covers, d
  <2>4. CASE r + a >= t
    <3>1. d * l <= 0
      BY <1>1, <2>1, <2>4
    <3>2. (v + a) * FeeUnit >= (r + a) * s
      <4> HIDE DEF k, l
      <4> QED BY <1>2, <1>3, <2>1, <2>2, <3>1
    <3> QED BY <2>4, <3>2 DEF Covers
  <2> QED BY <2>3, <2>4
<1> QED BY <1>4, <1>5

\* A refund, which needs the campaign below its target, keeps it too.
LEMMA RefundCovers ==
  ASSUME NEW v \in Nat, NEW r \in Nat, NEW t \in Int, NEW s \in Nat, s <= FeeUnit,
         NEW a \in Nat, a <= v, a <= r, r < t, Covers(v, r, t, s)
  PROVE  Covers(v - a, r - a, t, s)
<1> DEFINE d == FeeUnit - s
           w == v - a
           q == r - a
<1>1. FeeUnit \in Nat /\ d \in Nat /\ FeeUnit = d + s /\ w \in Nat /\ q \in Nat /\ q < t
      /\ v = w + a /\ r = q + a
  BY EscrowAssumption
<1>2. v * FeeUnit + d * (t - r) >= r * s
  BY DEF Covers
<1>3. w * FeeUnit + d * (t - q) >= q * s
  <2> HIDE DEF d, w, q
  <2>1. /\ v * FeeUnit = w * FeeUnit + a * d + a * s /\ r * s = q * s + a * s
        /\ d * (t - r) = d * (t - q) - a * d
    BY <1>1
  <2>2. /\ a * d \in Nat /\ a * s \in Nat /\ w * FeeUnit \in Nat /\ q * s \in Nat
        /\ d * (t - q) \in Int
    BY <1>1
  <2> QED BY <1>2, <2>1, <2>2
<1> QED BY <1>1, <1>3 DEF Covers

\* Approving a milestone pays at most its share of what was raised and takes it off what is
\* still to be released.
LEMMA ApprovalCovers ==
  ASSUME NEW v \in Nat, NEW r \in Nat, NEW t \in Int, NEW s \in Nat, s <= FeeUnit,
         NEW b \in Nat, b <= s, NEW p \in Nat, p <= v, FeeUnit * p <= r * b, Covers(v, r, t, s)
  PROVE  Covers(v - p, r, t, s - b)
<1> DEFINE d == FeeUnit - s
           w == v - p
           z == s - b
<1>1. FeeUnit \in Nat /\ d \in Nat /\ w \in Nat /\ z \in Nat /\ v = w + p /\ s = z + b
      /\ FeeUnit - z = d + b
  BY EscrowAssumption
<1>2. /\ r >= t => v * FeeUnit >= r * s
      /\ r < t => v * FeeUnit + d * (t - r) >= r * s
  BY DEF Covers
<1>3. /\ r >= t => w * FeeUnit >= r * z
      /\ r < t => w * FeeUnit + (d + b) * (t - r) >= r * z
  <2> HIDE DEF d, w, z
  <2>1. /\ v * FeeUnit = w * FeeUnit + FeeUnit * p /\ r * s = r * z + r * b
        /\ (d + b) * (t - r) = d * (t - r) + b * (t - r)
    BY <1>1
  <2>2. /\ FeeUnit * p \in Nat /\ w * FeeUnit \in Nat /\ r * z \in Nat /\ r * b \in Nat
        /\ d * (t - r) \in Int /\ b * (t - r) \in Int
        /\ r < t => b * (t - r) >= 0
    BY <1>1
  <2> QED BY <1>2, <2>1, <2>2
<1> QED BY <1>1, <1>3 DEF Covers
-----------------------------------------------------------------------------
(* Escrow: the invariant *)

\* The shares of the milestones that are not approved yet.
Unapproved ==
  [i \in DOMAIN milestones |->
     IF milestones[i].status = "Approved" THEN 0 ELSE milestones[i].release_bps]

Campaign ==
  [admin : {"none", "account", "milestones"}, target : Int, deadline : Nat, fee : 0..MaxFee,
   pending_fee : {NoFee} \cup 0..MaxFee, approved : Int, total_raised : Nat]

\* The storage of the two contracts and the token balances.
EscrowStored ==
  /\ campaign \in Campaign
  /\ contributions \in [Contributors -> Nat]
  /\ milestones \in [DOMAIN milestones -> Milestone] /\ IsFiniteSet(DOMAIN milestones)
  /\ purse \in [Accounts -> Nat] /\ withdrawn \in Nat

\* What the escrow holds, and would hold but for withdrawals outside approvals.
Worth == purse[Vault] + withdrawn

\* Under the milestones contract it is worth all that was raised until there are milestones,
\* and what Covers says from then on.
VaultWorth ==
  campaign.admin = "milestones" =>
    /\ milestones = << >> => Worth >= campaign.total_raised
    /\ Covers(Worth, campaign.total_raised, campaign.target, SumFunction(Unapproved))

EscrowInv ==
  /\ EscrowStored
  /\ RaisedIsContributed
  /\ campaign.admin = "none" => campaign.total_raised = 0
  /\ SumFunction(Unapproved) <= FeeUnit
  /\ VaultWorth

\* The shares that are not approved are naturals, and so is their sum.
LEMMA UnapprovedTyped ==
  ASSUME EscrowStored
  PROVE  Unapproved \in [DOMAIN milestones -> Nat] /\ SumFunction(Unapproved) \in Nat
<1>1. Unapproved \in [DOMAIN milestones -> Nat]
  BY EscrowAssumption DEF EscrowStored, Unapproved, Milestone
<1>2. IsFiniteSet(DOMAIN milestones)
  BY DEF EscrowStored
<1> QED BY <1>1, <1>2, SumFunctionNat

\* With nothing raised there is nothing to cover.
LEMMA NothingCovers ==
  ASSUME NEW v \in Nat, NEW t \in Int, NEW s \in Nat, s <= FeeUnit
  PROVE  Covers(v, 0, t, s)
<1>1. FeeUnit \in Nat
  BY EscrowAssumption
<1>2. v * FeeUnit \in Nat /\ (FeeUnit - s) * (t - 0) \in Int /\ (t > 0 => (FeeUnit - s) * (t - 0) >= 0)
  BY <1>1
<1> QED BY <1>2 DEF Covers

\* The three accounts of the escrow are different, and none is a contributor.
LEMMA EscrowAccounts ==
  /\ Vault \in Accounts /\ Creator \in Accounts /\ Platform \in Accounts
  /\ Vault # Creator /\ Vault # Platform /\ Creator # Platform
  /\ \A c \in Contributors : c \in Accounts /\ c # Vault
BY EscrowAssumption DEF Accounts, Vault, Creator, Platform

\* The contracts before they are initialized.
LEMMA EscrowStarts == EscrowInit => EscrowInv
<1> SUFFICES ASSUME EscrowInit PROVE EscrowInv
  OBVIOUS
<1>1. IsFiniteSet(Contributors) /\ DOMAIN contributions = Contributors
      /\ \A c \in Contributors : contributions[c] = 0
  BY EscrowAssumption DEF EscrowInit
<1>2. SumFunction(contributions) = 0
  BY <1>1, SumFunctionZero
<1>3. DOMAIN milestones = {}
  BY DEF EscrowInit
<1>4. IsFiniteSet({}) /\ DOMAIN Unapproved = {}
  BY <1>3, FS_EmptySet DEF Unapproved
<1>5. SumFunction(Unapproved) = 0
  BY <1>4, SumFunctionZero
<1>6. campaign \in Campaign
  BY EscrowAssumption DEF EscrowInit, NoCampaign, Campaign, NoFee
<1>7. purse \in [Accounts -> Nat]
  BY EscrowAssumption DEF EscrowInit, Accounts
<1>8. EscrowStored
  BY <1>3, <1>4, <1>6, <1>7 DEF EscrowStored, EscrowInit, Milestone
<1> QED
  BY <1>2, <1>5, <1>8, EscrowAssumption
     DEF EscrowInv, RaisedIsContributed, EscrowInit, NoCampaign, VaultWorth

\* Calls that only change the campaign's administration: nothing is raised or paid.
LEMMA AdministrationKeeps ==
  ASSUME EscrowInv, campaign' \in Campaign,
         UNCHANGED <<contributions, milestones, purse, withdrawn>>,
         campaign'.total_raised = campaign.total_raised, campaign'.admin # "none",
         campaign'.admin = "milestones" =>
           \/ campaign.total_raised = 0
           \/ campaign.admin = "milestones" /\ campaign'.target = campaign.target
  PROVE  EscrowInv'
<1>1. EscrowStored' /\ RaisedIsContributed' /\ Unapproved' = Unapproved /\ Worth' = Worth
  BY DEF EscrowInv, EscrowStored, RaisedIsContributed, Unapproved, Worth
<1>2. SumFunction(Unapproved) \in Nat /\ SumFunction(Unapproved) <= FeeUnit
      /\ Worth \in Nat /\ campaign'.target \in Int
  BY UnapprovedTyped, EscrowAccounts DEF EscrowInv, EscrowStored, Campaign, Worth
<1>3. VaultWorth'
  <2> SUFFICES ASSUME campaign'.admin = "milestones"
               PROVE  VaultWorth'
    BY DEF VaultWorth
  <2>1. CASE campaign.total_raised = 0
    <3>1. Covers(Worth, 0, campaign'.target, SumFunction(Unapproved))
      BY <1>2, NothingCovers
    <3> QED BY <1>1, <1>2, <2>1, <3>1 DEF VaultWorth
  <2>2. CASE campaign.admin = "milestones" /\ campaign'.target = campaign.target
    BY <1>1, <2>2 DEF VaultWorth, EscrowInv
  <2> QED BY <2>1, <2>2
<1> QED
  BY <1>1, <1>2, <1>3 DEF EscrowInv

\* initialize, approve_withdrawal and the three calls of the fee change.
LEMMA AdministrationCalls ==
  ASSUME EscrowInv,
         \/ \E admin \in {"account", "milestones"}, t \in Targets, d \in Deadlines, f \in Fees :
               Initialize(admin, t, d, f)
         \/ \E a \in Withdrawals : ApproveWithdrawal(a)
         \/ \E f \in Fees : ProposeFeeChange(f)
         \/ ConfirmFeeChange \/ CancelFeeChange
  PROVE  EscrowInv'
<1>0. campaign \in Campaign
  BY DEF EscrowInv, EscrowStored
<1>1. ASSUME NEW admin \in {"account", "milestones"}, NEW t \in Targets, NEW d \in Deadlines,
             NEW f \in Fees, Initialize(admin, t, d, f)
      PROVE  EscrowInv'
  <2>1. /\ campaign' = [admin |-> admin, target |-> t, deadline |-> d, fee |-> f,
                        pending_fee |-> NoFee, approved |-> 0, total_raised |-> 0]
        /\ UNCHANGED <<contributions, milestones, purse, withdrawn>>
        /\ campaign.admin = "none" /\ f <= MaxFee
    BY <1>1 DEF Initialize, NoCampaign, IsInitialized
  <2>2. campaign' \in Campaign
    BY <2>1, EscrowAssumption DEF Campaign
  <2>3. campaign.total_raised = 0
    BY <2>1 DEF EscrowInv
  <2> QED
    BY <2>1, <2>2, <2>3, AdministrationKeeps
<1>2. ASSUME NEW a \in Withdrawals, ApproveWithdrawal(a)
      PROVE  EscrowInv'
  <2>1. a \in Int
    BY EscrowAssumption
  <2>2. /\ campaign' \in Campaign /\ campaign'.total_raised = campaign.total_raised
        /\ campaign'.admin = "account"
        /\ UNCHANGED <<contributions, milestones, purse, withdrawn>>
    BY <1>0, <1>2, <2>1 DEF ApproveWithdrawal, Campaign
  <2> QED
    BY <2>2, AdministrationKeeps
<1>3. ASSUME NEW f \in Fees, ProposeFeeChange(f)
      PROVE  EscrowInv'
  <2>1. f \in 0..MaxFee
    BY <1>3, EscrowAssumption DEF ProposeFeeChange
  <2>2. /\ campaign' \in Campaign /\ campaign'.total_raised = campaign.total_raised
        /\ campaign'.admin = "account"
        /\ UNCHANGED <<contributions, milestones, purse, withdrawn>>
    BY <1>0, <1>3, <2>1 DEF ProposeFeeChange, Campaign
  <2> QED
    BY <2>2, AdministrationKeeps
<1>4. CASE ConfirmFeeChange
  <2>1. campaign.pending_fee \in 0..MaxFee
    BY <1>0, <1>4 DEF ConfirmFeeChange, Campaign
  <2>2. /\ campaign' \in Campaign /\ campaign'.total_raised = campaign.total_raised
        /\ campaign'.admin = "account"
        /\ UNCHANGED <<contributions, milestones, purse, withdrawn>>
    BY <1>0, <1>4, <2>1 DEF ConfirmFeeChange, Campaign
  <2> QED
    BY <2>2, AdministrationKeeps
<1>5. CASE CancelFeeChange
  <2>2. /\ campaign' \in Campaign /\ campaign'.total_raised = campaign.total_raised
        /\ campaign'.admin = "account"
        /\ UNCHANGED <<contributions, milestones, purse, withdrawn>>
    BY <1>0, <1>5 DEF CancelFeeChange, Campaign
  <2> QED
    BY <2>2, AdministrationKeeps
<1> QED
  BY <1>1, <1>2, <1>3, <1>4, <1>5

\* What a contributor has given changes with the total raised.
LEMMA ContributionMoves ==
  ASSUME EscrowInv, NEW c \in Contributors, NEW n \in Nat,
         contributions' = [contributions EXCEPT ![c] = n],
         campaign'.total_raised = campaign.total_raised + n - contributions[c]
  PROVE  contributions' \in [Contributors -> Nat] /\ RaisedIsContributed'
         /\ contributions[c] <= campaign.total_raised
<1>1. IsFiniteSet(Contributors) /\ contributions \in [Contributors -> Nat]
      /\ campaign.total_raised = SumFunction(contributions)
  BY EscrowAssumption DEF EscrowInv, EscrowStored, RaisedIsContributed
<1>2. /\ contributions' \in [Contributors -> Nat] /\ contributions'[c] = n
      /\ \A x \in Contributors : x # c => contributions'[x] = contributions[x]
  BY <1>1
<1> DEFINE f == contributions
           g == contributions'
<1>3. /\ f \in [Contributors -> Nat] /\ g \in [Contributors -> Nat] /\ g[c] = n
      /\ \A x \in Contributors : x # c => g[x] = f[x]
  BY <1>1, <1>2
<1> HIDE DEF f, g
<1>4. SumFunction(g) = SumFunction(f) + n - f[c]
  BY <1>1, <1>3, SumEdit
<1>5. f[c] <= SumFunction(f)
  BY <1>1, <1>3, SumFunctionPart
<1> QED
  BY <1>1, <1>2, <1>4, <1>5 DEF f, g, RaisedIsContributed

\* deposit.
LEMMA DepositKeeps ==
  ASSUME EscrowInv, NEW c \in Contributors, NEW a \in Gifts, Deposit(c, a)
  PROVE  EscrowInv'
<1> DEFINE V == Worth
           T == campaign.total_raised
           S == SumFunction(Unapproved)
<1>1. /\ a \in Nat /\ campaign \in Campaign /\ contributions[c] \in Nat /\ purse[c] \in Nat
      /\ V \in Nat /\ T \in Nat /\ campaign.target \in Int /\ S \in Nat /\ S <= FeeUnit
      /\ contributions \in [Contributors -> Nat] /\ purse \in [Accounts -> Nat]
      /\ purse[Vault] \in Nat /\ withdrawn \in Nat
  BY EscrowAssumption, EscrowAccounts, UnapprovedTyped DEF EscrowInv, EscrowStored, Campaign, Worth
<1>2. /\ campaign.admin # "none" /\ a <= purse[c]
      /\ purse' = Transfer(purse, c, Vault, a)
      /\ contributions' = [contributions EXCEPT ![c] = contributions[c] + a]
      /\ campaign' = [campaign EXCEPT !.total_raised = T + a]
      /\ UNCHANGED <<milestones, withdrawn>>
  BY <1>1 DEF Deposit, IsInitialized
<1>3. /\ campaign' \in Campaign /\ campaign'.total_raised = T + a
      /\ campaign'.admin = campaign.admin /\ campaign'.target = campaign.target
  BY <1>1, <1>2 DEF Campaign
<1>4. purse' \in [Accounts -> Nat] /\ Worth' = V + a
  <2>1. purse' \in [Accounts -> Nat] /\ purse'[Vault] = purse[Vault] + a
    BY <1>1, <1>2, CoveredTransfer, EscrowAccounts
  <2> QED BY <1>1, <1>2, <2>1 DEF Worth
<1>5. contributions' \in [Contributors -> Nat] /\ RaisedIsContributed'
  <2>1. contributions[c] + a \in Nat /\ T + a = T + (contributions[c] + a) - contributions[c]
    BY <1>1
  <2> QED BY <1>2, <1>3, <2>1, ContributionMoves
<1>6. EscrowStored' /\ Unapproved' = Unapproved
  BY <1>2, <1>3, <1>4, <1>5 DEF EscrowInv, EscrowStored, Unapproved
<1>7. VaultWorth'
  <2> SUFFICES ASSUME campaign'.admin = "milestones" PROVE VaultWorth'
    BY DEF VaultWorth
  <2>1. /\ Covers(V, T, campaign.target, S)
        /\ milestones = << >> => V >= T
    BY <1>3 DEF EscrowInv, VaultWorth
  <2>2. Covers(V + a, T + a, campaign.target, S)
    <3> HIDE DEF V, T, S
    <3> QED BY <1>1, <2>1, DepositCovers
  <2>3. milestones = << >> => V + a >= T + a
    BY <1>1, <2>1
  <2> QED
    BY <1>2, <1>3, <1>4, <1>6, <2>1, <2>2, <2>3 DEF VaultWorth
<1> QED
  BY <1>1, <1>2, <1>3, <1>5, <1>6, <1>7 DEF EscrowInv

\* refund.
LEMMA RefundKeeps ==
  ASSUME EscrowInv, NEW c \in Contributors, Refund(c)
  PROVE  EscrowInv'
<1> DEFINE V == Worth
           T == campaign.total_raised
           S == SumFunction(Unapproved)
           a == contributions[c]
<1>1. /\ campaign \in Campaign /\ a \in Nat
      /\ V \in Nat /\ T \in Nat /\ campaign.target \in Int /\ S \in Nat /\ S <= FeeUnit
      /\ contributions \in [Contributors -> Nat] /\ purse \in [Accounts -> Nat]
      /\ purse[Vault] \in Nat /\ withdrawn \in Nat
  BY EscrowAssumption, EscrowAccounts, UnapprovedTyped DEF EscrowInv, EscrowStored, Campaign, Worth
<1>2. /\ campaign.admin # "none" /\ a <= purse[Vault] /\ T < campaign.target
      /\ purse' = Transfer(purse, Vault, c, a)
      /\ contributions' = [contributions EXCEPT ![c] = 0]
      /\ campaign' = [campaign EXCEPT !.total_raised = T - a]
      /\ UNCHANGED <<milestones, withdrawn>>
  BY <1>1 DEF Refund, IsInitialized, Refundable
<1>3. a <= T
  <2>1. /\ IsFiniteSet(Contributors) /\ contributions \in [Contributors -> Nat]
        /\ campaign.total_raised = SumFunction(contributions)
    BY EscrowAssumption DEF EscrowInv, EscrowStored, RaisedIsContributed
  <2> QED BY <2>1, SumFunctionPart
<1>4. T - a \in Nat
  <2> HIDE DEF T, a
  <2> QED BY <1>1, <1>3
<1>5. /\ campaign' \in Campaign /\ campaign'.total_raised = T - a
      /\ campaign'.admin = campaign.admin /\ campaign'.target = campaign.target
  BY <1>1, <1>2, <1>4 DEF Campaign
<1>6. purse' \in [Accounts -> Nat] /\ Worth' = V - a /\ a <= V
  <2>1. purse' \in [Accounts -> Nat] /\ purse'[Vault] = purse[Vault] - a
    BY <1>1, <1>2, CoveredTransfer, EscrowAccounts
  <2> HIDE DEF a
  <2> QED BY <1>1, <1>2, <2>1 DEF Worth
<1>7. contributions' \in [Contributors -> Nat] /\ RaisedIsContributed'
  <2>1. T - a = T + 0 - a
    BY <1>1
  <2> QED BY <1>2, <1>5, <2>1, ContributionMoves
<1>8. EscrowStored' /\ Unapproved' = Unapproved
  BY <1>2, <1>5, <1>6, <1>7 DEF EscrowInv, EscrowStored, Unapproved
<1>9. VaultWorth'
  <2> SUFFICES ASSUME campaign'.admin = "milestones" PROVE VaultWorth'
    BY DEF VaultWorth
  <2>1. /\ Covers(V, T, campaign.target, S)
        /\ milestones = << >> => V >= T
    BY <1>5 DEF EscrowInv, VaultWorth
  <2>2. Covers(V - a, T - a, campaign.target, S)
    <3> HIDE DEF V, T, S, a
    <3> QED BY <1>1, <1>2, <1>3, <1>6, <2>1, RefundCovers
  <2>3. milestones = << >> => V - a >= T - a
    BY <1>1, <2>1
  <2> QED
    BY <1>2, <1>5, <1>6, <1>8, <2>1, <2>2, <2>3 DEF VaultWorth
<1> QED
  BY <1>1, <1>2, <1>5, <1>7, <1>8, <1>9 DEF EscrowInv

\* The two transfers of a withdrawal overdraw no one; they take exactly the amount from the
\* escrow, whatever the fee, unless the escrow is its own recipient.
LEMMA PaidOutFacts ==
  ASSUME EscrowStored, NEW to \in Accounts, NEW n \in Nat, Covered(to, n)
  PROVE  /\ PaidOut(to, n) \in [Accounts -> Nat] /\ PaidOut(to, n)[Vault] <= purse[Vault]
         /\ to # Vault => PaidOut(to, n)[Vault] = purse[Vault] - n /\ n <= purse[Vault]
<1> DEFINE fee == Share(n, campaign.fee, FeeUnit)
           rest == n - fee
           mid == IF to = Vault THEN purse ELSE Transfer(purse, Vault, to, rest)
<1>1. /\ campaign.fee \in Nat /\ campaign.fee <= FeeUnit /\ FeeUnit \in Nat \ {0}
      /\ purse \in [Accounts -> Nat] /\ purse[Vault] \in Nat
  BY EscrowAssumption, EscrowAccounts DEF EscrowStored, Campaign
<1>2. fee \in Nat /\ fee <= n
  BY <1>1, ShareBounds
<1>3. /\ to = Vault => fee <= purse[Vault]
      /\ to # Vault => n <= purse[Vault]
      /\ PaidOut(to, n) = Transfer(mid, Vault, Platform, fee)
  BY <1>1, <1>2 DEF Covered, PaidOut
<1> HIDE DEF fee
<1>4. rest \in Nat /\ n = rest + fee /\ (to # Vault => rest <= purse[Vault])
  BY <1>1, <1>2, <1>3
<1> HIDE DEF rest
<1>5. /\ mid \in [Accounts -> Nat]
      /\ mid[Vault] = IF to = Vault THEN purse[Vault] ELSE purse[Vault] - rest
  <2>1. CASE to = Vault
    BY <1>1, <2>1
  <2>2. CASE to # Vault
    BY <1>1, <1>4, <2>2, CoveredTransfer, EscrowAccounts
  <2> QED BY <2>1, <2>2
<1> HIDE DEF mid
<1>6. /\ fee <= mid[Vault] /\ mid[Vault] - fee <= purse[Vault]
      /\ to # Vault => mid[Vault] - fee = purse[Vault] - n
  BY <1>1, <1>2, <1>3, <1>4, <1>5
<1>7. /\ Transfer(mid, Vault, Platform, fee) \in [Accounts -> Nat]
      /\ Transfer(mid, Vault, Platform, fee)[Vault] = mid[Vault] - fee
  BY <1>2, <1>5, <1>6, CoveredTransfer, EscrowAccounts
<1> QED
  BY <1>3, <1>6, <1>7

\* execute_withdrawal, for whatever amount and recipient: what leaves the escrow is counted.
LEMMA ExecutionKeeps ==
  ASSUME EscrowInv, NEW to \in Accounts, NEW a \in Withdrawals, ExecuteWithdrawal(to, a)
  PROVE  EscrowInv'
<1>1. /\ a \in Int /\ campaign \in Campaign /\ purse[Vault] \in Nat /\ withdrawn \in Nat
      /\ campaign.approved \in Int /\ purse \in [Accounts -> Nat]
  BY EscrowAssumption, EscrowAccounts DEF EscrowInv, EscrowStored, Campaign
<1>2. /\ campaign' = [campaign EXCEPT !.approved = campaign.approved - a]
      /\ withdrawn' = withdrawn + purse[Vault] - purse'[Vault]
      /\ UNCHANGED <<contributions, milestones>>
  BY <1>1 DEF ExecuteWithdrawal
<1>3. /\ campaign' \in Campaign /\ campaign'.total_raised = campaign.total_raised
      /\ campaign'.admin = campaign.admin /\ campaign'.target = campaign.target
  BY <1>1, <1>2 DEF Campaign
<1>4. purse' \in [Accounts -> Nat] /\ purse'[Vault] <= purse[Vault]
  <2>1. CASE a <= 0 /\ UNCHANGED purse
    BY <1>1, <2>1
  <2>2. CASE a > 0 /\ Covered(to, a) /\ purse' = PaidOut(to, a)
    <3>1. a \in Nat
      BY <1>1, <2>2
    <3> QED BY <2>2, <3>1, PaidOutFacts DEF EscrowInv
  <2> QED BY <2>1, <2>2 DEF ExecuteWithdrawal
<1>5. purse'[Vault] \in Nat
  BY <1>4, EscrowAccounts
<1>6. withdrawn' \in Nat /\ Worth' = Worth
  BY <1>1, <1>2, <1>4, <1>5 DEF Worth
<1>7. EscrowStored' /\ Unapproved' = Unapproved /\ RaisedIsContributed'
  BY <1>2, <1>3, <1>4, <1>6 DEF EscrowInv, EscrowStored, Unapproved, RaisedIsContributed
<1>8. VaultWorth'
  BY <1>2, <1>3, <1>6, <1>7 DEF EscrowInv, VaultWorth
<1> QED
  BY <1>3, <1>7, <1>8 DEF EscrowInv

\* The milestones contract's initialize: the shares add up to the unit, and some may be stored
\* as approved from the start.
LEMMA PlanKeeps ==
  ASSUME EscrowInv, NEW p \in Plans, InitializeMilestones(p)
  PROVE  EscrowInv'
<1> DEFINE V == Worth
           T == campaign.total_raised
           U == FeeUnit
           all == [i \in DOMAIN p |-> p[i].release_bps]
           g == Unapproved'
           S == SumFunction(g)
<1>1. /\ U \in Nat /\ V \in Nat /\ T \in Nat /\ campaign.target \in Int
      /\ p \in [DOMAIN p -> Milestone] /\ IsFiniteSet(DOMAIN p)
  BY EscrowAssumption, EscrowAccounts DEF EscrowInv, EscrowStored, Campaign, Worth
<1>2. /\ milestones = << >> /\ SumFunction(all) = U /\ milestones' = p
      /\ UNCHANGED <<campaign, contributions, purse, withdrawn>>
  BY DEF InitializeMilestones
<1>3. S \in Nat /\ S <= U
  <2>1. \A i \in DOMAIN p : p[i].release_bps \in Nat
    BY <1>1, EscrowAssumption DEF Milestone
  <2>2. g = [i \in DOMAIN p |-> IF p[i].status = "Approved" THEN 0 ELSE p[i].release_bps]
    BY <1>2 DEF Unapproved
  <2>3. /\ all \in [DOMAIN p -> Nat] /\ g \in [DOMAIN p -> Nat]
        /\ \A i \in DOMAIN p : g[i] <= all[i]
    BY <2>1, <2>2
  <2> HIDE DEF all, g
  <2> QED BY <1>1, <1>2, <2>3, SumFunctionMonotone, SumFunctionNat
<1>4. EscrowStored' /\ RaisedIsContributed' /\ Worth' = V
  BY <1>1, <1>2 DEF EscrowInv, EscrowStored, RaisedIsContributed, Worth
<1>5. VaultWorth'
  <2> SUFFICES ASSUME campaign.admin = "milestones" PROVE VaultWorth'
    BY <1>2 DEF VaultWorth
  <2>1. V >= T
    BY <1>2 DEF EscrowInv, VaultWorth
  <2>2. Covers(V, T, campaign.target, S)
    <3> DEFINE t == campaign.target
    <3>1. V * U >= T * U /\ T * U >= T * S /\ V * U \in Nat /\ T * S \in Nat /\ T * U \in Nat
      <4> HIDE DEF V, T, U, S
      <4> QED BY <1>1, <1>3, <2>1
    <3>2. T < t => (U - S) * (t - T) \in Nat
      <4> HIDE DEF V, T, U, S, t
      <4>1. ASSUME T < t, t \in Int PROVE U - S \in Nat /\ t - T \in Nat
        BY <1>1, <1>3, <4>1
      <4> QED BY <1>1, <4>1 DEF t
    <3> QED BY <3>1, <3>2 DEF Covers
  <2> QED
    BY <1>2, <1>4, <2>1, <2>2 DEF VaultWorth
<1> QED
  BY <1>2, <1>3, <1>4, <1>5 DEF EscrowInv

\* submit_milestone and reject_milestone.
LEMMA ReviewKeeps ==
  ASSUME EscrowInv, NEW i \in DOMAIN milestones, SubmitMilestone(i) \/ RejectMilestone(i)
  PROVE  EscrowInv'
<1>1. milestones \in [DOMAIN milestones -> Milestone] /\ IsFiniteSet(DOMAIN milestones)
      /\ milestones[i] \in Milestone /\ milestones[i].status # "Approved"
  BY DEF EscrowInv, EscrowStored, SubmitMilestone, RejectMilestone
<1>2. PICK s \in {"Submitted", "Rejected"} : milestones' = [milestones EXCEPT ![i].status = s]
  BY DEF SubmitMilestone, RejectMilestone
<1>3. UNCHANGED <<campaign, contributions, purse, withdrawn>>
  BY DEF SubmitMilestone, RejectMilestone
<1>4. /\ DOMAIN milestones' = DOMAIN milestones
      /\ \A j \in DOMAIN milestones : j # i => milestones'[j] = milestones[j]
      /\ milestones'[i] = [milestones[i] EXCEPT !.status = s]
      /\ milestones' = [j \in DOMAIN milestones |-> milestones'[j]]
  BY <1>1, <1>2
<1>5. /\ milestones'[i] \in Milestone /\ milestones'[i].release_bps = milestones[i].release_bps
      /\ milestones'[i].status # "Approved"
  BY <1>1, <1>4 DEF Milestone
<1>6. milestones' \in [DOMAIN milestones' -> Milestone]
  BY <1>1, <1>4, <1>5
<1>7. Unapproved' = Unapproved
  <2>1. \A j \in DOMAIN milestones :
          (IF milestones'[j].status = "Approved" THEN 0 ELSE milestones'[j].release_bps)
            = (IF milestones[j].status = "Approved" THEN 0 ELSE milestones[j].release_bps)
    BY <1>1, <1>4, <1>5
  <2> QED BY <1>4, <2>1 DEF Unapproved
<1>8. milestones # << >> /\ milestones' # << >>
  BY <1>4
<1> QED
  BY <1>1, <1>3, <1>4, <1>6, <1>7, <1>8
     DEF EscrowInv, EscrowStored, RaisedIsContributed, VaultWorth, Worth

\* approve_milestone, with the withdrawal it makes.
LEMMA ApprovalKeeps ==
  ASSUME EscrowInv, NEW i \in DOMAIN milestones, ApproveMilestone(i)
  PROVE  EscrowInv'
<1> DEFINE V == Worth
           T == campaign.total_raised
           b == milestones[i].release_bps
           p == Release(i)
           f == Unapproved
           g == Unapproved'
           t == campaign.target
<1>1. /\ milestones \in [DOMAIN milestones -> Milestone] /\ IsFiniteSet(DOMAIN milestones)
      /\ milestones[i] \in Milestone /\ b \in Nat /\ V \in Nat /\ T \in Nat /\ t \in Int
      /\ purse \in [Accounts -> Nat] /\ purse[Vault] \in Nat /\ withdrawn \in Nat
      /\ FeeUnit \in Nat \ {0}
  BY EscrowAssumption, EscrowAccounts DEF EscrowInv, EscrowStored, Campaign, Milestone, Worth
<1>2. /\ milestones[i].status = "Submitted"
      /\ milestones' = [milestones EXCEPT ![i].status = "Approved"]
      /\ UNCHANGED <<campaign, contributions, withdrawn>>
  BY DEF ApproveMilestone
<1>3. /\ DOMAIN milestones' = DOMAIN milestones
      /\ \A j \in DOMAIN milestones : j # i => milestones'[j] = milestones[j]
      /\ milestones'[i] = [milestones[i] EXCEPT !.status = "Approved"]
      /\ milestones' = [j \in DOMAIN milestones |-> milestones'[j]]
  BY <1>1, <1>2
<1>4. milestones'[i] \in Milestone /\ milestones'[i].status = "Approved"
  BY <1>1, <1>3 DEF Milestone
<1>5. milestones' \in [DOMAIN milestones' -> Milestone]
  BY <1>1, <1>3, <1>4
<1>6. p \in Nat /\ FeeUnit * p <= T * b
  BY <1>1, ShareBounds DEF Release
<1>7. /\ purse' \in [Accounts -> Nat]
      /\ purse'[Vault] = purse[Vault] - p /\ p <= purse[Vault]
  <2>1. CASE p = 0 /\ purse' = purse
    BY <1>1, <2>1
  <2>2. CASE p > 0 /\ Covered(Creator, p) /\ purse' = PaidOut(Creator, p)
    BY <1>6, <2>2, PaidOutFacts, EscrowAccounts DEF EscrowInv
  <2> QED
    BY <1>6, <2>1, <2>2 DEF ApproveMilestone
<1>8. Worth' = V - p /\ p <= V
  <2> HIDE DEF p
  <2> QED BY <1>1, <1>2, <1>6, <1>7 DEF Worth
<1>9. /\ f \in [DOMAIN milestones -> Nat] /\ g \in [DOMAIN milestones -> Nat]
      /\ f[i] = b /\ g[i] = 0 /\ \A j \in DOMAIN milestones : j # i => g[j] = f[j]
  <2>1. f \in [DOMAIN milestones -> Nat]
    BY UnapprovedTyped DEF EscrowInv
  <2>2. f[i] = b /\ g[i] = 0 /\ DOMAIN g = DOMAIN milestones
        /\ \A j \in DOMAIN milestones : j # i => g[j] = f[j]
    BY <1>2, <1>3, <1>4 DEF Unapproved
  <2>3. g = [j \in DOMAIN milestones |-> g[j]]
    BY <1>3 DEF Unapproved
  <2> QED BY <2>1, <2>2, <2>3
<1> DEFINE s == SumFunction(f)
<1>10. SumFunction(g) = s - b /\ b <= s /\ s \in Nat /\ s <= FeeUnit
  <2>1. s <= FeeUnit
    BY DEF EscrowInv
  <2> HIDE DEF f, g
  <2>2. SumFunction(g) = SumFunction(f) + 0 - f[i] /\ SumFunction(f) \in Nat
    BY <1>1, <1>9, SumEdit
  <2>3. f[i] <= SumFunction(f)
    BY <1>1, <1>9, SumFunctionPart
  <2> QED BY <1>1, <1>9, <2>1, <2>2, <2>3
<1>11. EscrowStored' /\ RaisedIsContributed'
  BY <1>1, <1>2, <1>3, <1>5, <1>7 DEF EscrowInv, EscrowStored, RaisedIsContributed
<1>12. VaultWorth'
  <2> SUFFICES ASSUME campaign.admin = "milestones" PROVE VaultWorth'
    BY <1>2 DEF VaultWorth
  <2>1. Covers(V, T, t, s)
    BY DEF EscrowInv, VaultWorth
  <2>2. Covers(V - p, T, t, s - b)
    <3> HIDE DEF V, T, b, p, f, g, t, s
    <3> QED BY <1>1, <1>6, <1>8, <1>10, <2>1, ApprovalCovers
  <2>3. milestones' # << >>
    BY <1>3
  <2> QED
    BY <1>2, <1>8, <1>10, <2>1, <2>2, <2>3 DEF VaultWorth
<1>13. SumFunction(g) <= FeeUnit
  <2> HIDE DEF f, g, s, b
  <2> QED BY <1>1, <1>10
<1> QED
  BY <1>2, <1>11, <1>12, <1>13 DEF EscrowInv

\* Every call of the escrow and of the milestones contract keeps the invariant.
LEMMA EscrowKeeps ==
  ASSUME EscrowInv, EscrowNext
  PROVE  EscrowInv'
<1>1. CASE Tick /\ UNCHANGED escrowVars
  BY <1>1 DEF EscrowInv, EscrowStored, RaisedIsContributed, VaultWorth, Unapproved, Worth, escrowVars
<1> QED
  BY <1>1, AdministrationCalls, DepositKeeps, RefundKeeps, ExecutionKeeps, PlanKeeps, ReviewKeeps,
     ApprovalKeeps DEF EscrowNext

\* The invariant is about the escrow's variables only.
LEMMA EscrowStutters ==
  ASSUME EscrowInv, UNCHANGED escrowVars
  PROVE  EscrowInv'
BY DEF EscrowInv, EscrowStored, RaisedIsContributed, VaultWorth, Unapproved, Worth, escrowVars

\* Shares rounded down one by one add up to no more than the vault's worth.
LEMMA InvCoversMilestones ==
  ASSUME EscrowInv
  PROVE  SuccessCoversMilestones
<1> SUFFICES ASSUME campaign.admin = "milestones", campaign.total_raised >= campaign.target
             PROVE  Worth >= SumFunction([i \in DOMAIN milestones |->
                       IF milestones[i].status = "Approved" THEN 0 ELSE Release(i)])
  BY DEF SuccessCoversMilestones, Worth
<1> DEFINE V == Worth
           T == campaign.total_raised
           U == FeeUnit
           D == DOMAIN milestones
           f == Unapproved
           g == [i \in D |-> IF milestones[i].status = "Approved" THEN 0 ELSE Release(i)]
<1>1. /\ V \in Nat /\ T \in Nat /\ U \in Nat \ {0} /\ IsFiniteSet(D)
      /\ V * U >= T * SumFunction(f) /\ SumFunction(f) \in Nat
  <2>1. Covers(V, T, campaign.target, SumFunction(f)) /\ SumFunction(f) \in Nat
    BY UnapprovedTyped DEF EscrowInv, VaultWorth
  <2>2. V \in Nat /\ T \in Nat /\ U \in Nat \ {0} /\ IsFiniteSet(D)
    BY EscrowAssumption, EscrowAccounts DEF EscrowInv, EscrowStored, Campaign, Worth
  <2> QED BY <2>1, <2>2 DEF Covers
<1>2. \A i \in D : f[i] \in Nat /\ g[i] \in Nat /\ U * g[i] <= T * f[i]
  <2> TAKE i \in D
  <2>1. milestones[i].release_bps \in Nat
    BY EscrowAssumption DEF EscrowInv, EscrowStored, Milestone
  <2>2. Release(i) \in Nat /\ U * Release(i) <= T * milestones[i].release_bps
    BY <1>1, <2>1, ShareBounds DEF Release
  <2>3. CASE milestones[i].status = "Approved"
    <3>1. f[i] = 0 /\ g[i] = 0
      BY <2>3 DEF Unapproved
    <3>2. U * 0 <= T * 0
      BY <1>1
    <3> QED BY <3>1, <3>2
  <2>4. CASE milestones[i].status # "Approved"
    <3>1. f[i] = milestones[i].release_bps /\ g[i] = Release(i)
      BY <2>4 DEF Unapproved
    <3> QED BY <2>1, <2>2, <3>1
  <2> QED BY <2>3, <2>4
<1>3. DOMAIN f = D /\ DOMAIN g = D
  BY DEF Unapproved
<1> HIDE DEF f, g, V, T, U, D
<1>4. SumFunctionOnSet(g, D) \in Nat
  BY <1>1, <1>2, SumNat
<1>5. U * SumFunctionOnSet(g, D) <= T * SumFunctionOnSet(f, D)
  BY <1>1, <1>2, SumScaled
<1>6. SumFunction(g) = SumFunctionOnSet(g, D) /\ SumFunction(f) = SumFunctionOnSet(f, D)
  BY <1>3 DEF SumFunction
<1> DEFINE x == SumFunction(g)
           y == T * SumFunction(f)
<1>7. x \in Nat /\ y \in Nat /\ U * x <= y /\ V * U >= y
  BY <1>1, <1>4, <1>5, <1>6
<1>8. V >= x
  <2> HIDE DEF x, y
  <2> SUFFICES ASSUME x >= V + 1 PROVE FALSE
    BY <1>1, <1>7
  <2>1. U * x >= U * (V + 1) /\ U * (V + 1) = V * U + U
    BY <1>1, <1>7
  <2>2. U * x \in Nat /\ V * U \in Nat
    BY <1>1, <1>7
  <2> QED BY <1>1, <1>7, <2>1, <2>2
<1> QED
  BY <1>8 DEF x, g, V, D

\* Only a refund lowers the total, and there is none at or above the target.
LEMMA SuccessStays ==
  ASSUME EscrowInv, EscrowNext \/ UNCHANGED escrowVars,
         IsInitialized, campaign.total_raised >= campaign.target
  PROVE  campaign'.total_raised >= campaign'.target
<1>1. campaign \in Campaign /\ campaign.total_raised \in Nat /\ campaign.target \in Int
  BY DEF EscrowInv, EscrowStored, Campaign
<1>2. ASSUME NEW c \in Contributors, NEW a \in Gifts, Deposit(c, a)
      PROVE  campaign'.total_raised >= campaign'.target
  <2>1. a \in Nat /\ campaign' = [campaign EXCEPT !.total_raised = campaign.total_raised + a]
    BY <1>2, EscrowAssumption DEF Deposit
  <2>2. campaign'.total_raised = campaign.total_raised + a /\ campaign'.target = campaign.target
    BY <1>1, <2>1 DEF Campaign
  <2> QED BY <1>1, <2>1, <2>2
<1>3. ASSUME NEW to, NEW a, ApproveWithdrawal(a) \/ ExecuteWithdrawal(to, a)
      PROVE  campaign'.total_raised >= campaign'.target
  BY <1>1, <1>3 DEF ApproveWithdrawal, ExecuteWithdrawal, Campaign
<1>4. ASSUME NEW fee, ProposeFeeChange(fee) \/ ConfirmFeeChange \/ CancelFeeChange
      PROVE  campaign'.total_raised >= campaign'.target
  BY <1>1, <1>4 DEF ProposeFeeChange, ConfirmFeeChange, CancelFeeChange, Campaign
<1>5. ASSUME NEW c \in Contributors, Refund(c)
      PROVE  FALSE
  BY <1>1, <1>5 DEF Refund, Refundable
<1>6. ASSUME UNCHANGED campaign
      PROVE  campaign'.total_raised >= campaign'.target
  BY <1>6
<1>7. ASSUME NEW i, SubmitMilestone(i) \/ RejectMilestone(i) \/ ApproveMilestone(i)
      PROVE  UNCHANGED campaign
  BY <1>7 DEF SubmitMilestone, RejectMilestone, ApproveMilestone
<1>8. ASSUME NEW p, InitializeMilestones(p)
      PROVE  UNCHANGED campaign
  BY <1>8 DEF InitializeMilestones
<1>9. UNCHANGED escrowVars => UNCHANGED campaign
  BY DEF escrowVars
<1>10. ASSUME NEW admin, NEW t, NEW d, NEW fee, Initialize(admin, t, d, fee)
       PROVE  FALSE
  BY <1>10 DEF Initialize
<1> QED
  BY <1>2, <1>3, <1>4, <1>5, <1>6, <1>7, <1>8, <1>9, <1>10 DEF EscrowNext

\* For any contributors, plans, targets, fees and withdrawals, negative ones included: what was
\* raised is what contributors can claim; under the milestones contract a campaign at its target
\* covers every milestone that is not approved, however deposits, refunds and approvals
\* interleaved, but for what calls of execute_withdrawal from outside took; success is final.
THEOREM EscrowKept == BesideSpec => EscrowSound
<1>1. BesideInit => EscrowInv
  BY EscrowStarts DEF BesideInit
<1>2. [BesideNext]_besideVars => EscrowNext \/ UNCHANGED escrowVars
  BY DEF BesideNext, CosmCall, EscrowCall, CrowdCall, besideVars
<1>3. EscrowInv /\ [BesideNext]_besideVars => EscrowInv'
  BY <1>2, EscrowKeeps, EscrowStutters
<1>4. EscrowInv => EscrowTypeOK /\ RaisedIsContributed /\ SuccessCoversMilestones
  <2> SUFFICES ASSUME EscrowInv PROVE EscrowTypeOK /\ RaisedIsContributed /\ SuccessCoversMilestones
    OBVIOUS
  <2>1. EscrowTypeOK
    BY DEF EscrowInv, EscrowStored, EscrowTypeOK, Campaign, Milestone
  <2> QED BY <2>1, InvCoversMilestones DEF EscrowInv
<1>5. EscrowInv /\ [BesideNext]_besideVars =>
        [IsInitialized /\ now >= campaign.deadline /\ campaign.total_raised >= campaign.target =>
           campaign.total_raised' >= campaign.target']_<<now, escrowVars>>
  BY <1>2, SuccessStays
<1> QED
  BY <1>1, <1>3, <1>4, <1>5, PTL DEF BesideSpec, EscrowSound, SuccessIsFinal
-----------------------------------------------------------------------------
(* creditra-credit: one line, its draws and their trails *)

\* The summands of the outstanding utilization of a line with draws `ds'.
Unpaid(ds) == [j \in DOMAIN ds |-> IF ds[j].repaid THEN 0 ELSE ds[j].amount]

\* What AuditTrailAgrees says of one draw, and that no entry is from the future of `t'.
TrailOK(trail, borrower, repaid, t) ==
  /\ trail \in Seq(DrawAuditEntry) /\ Len(trail) >= 1
  /\ trail[1].action = "DrawCreated" /\ trail[1].by = borrower
  /\ repaid <=> \E e \in Range(trail) : e.action = "Repaid"
  /\ \A k \in 2..Len(trail) : trail[k].timestamp >= trail[k - 1].timestamp
  /\ trail[Len(trail)].timestamp <= t

\* A line `l' with its draws `ds' and their trails `au' at time `t'.
LineOK(l, ds, au, t) ==
  /\ l \in CreditLine /\ ds \in Seq(Draw)
  /\ au \in Seq(Seq(DrawAuditEntry)) /\ Len(au) = Len(ds)
  /\ \A j \in 1..Len(ds) : TrailOK(au[j], l.borrower, ds[j].repaid, t)
  /\ SumFunction(Unpaid(ds)) <= l.terms.credit_amount

\* The model's definition is the sum of these.
LEMMA OutstandingIsUnpaid ==
  ASSUME NEW i
  PROVE  OutstandingUtilization(i) = SumFunction(Unpaid(draws[i]))
BY DEF OutstandingUtilization, SumSeq, Unpaid

\* Summands and sum are naturals.
LEMMA UnpaidTyped ==
  ASSUME NEW ds \in Seq(Draw)
  PROVE  /\ DOMAIN ds = 1..Len(ds) /\ Len(ds) \in Nat /\ IsFiniteSet(1..Len(ds))
         /\ Unpaid(ds) \in [1..Len(ds) -> Nat] /\ SumFunction(Unpaid(ds)) \in Nat
<1>1. DOMAIN ds = 1..Len(ds) /\ Len(ds) \in Nat /\ \A j \in 1..Len(ds) : ds[j] \in Draw
  BY LenProperties, ElementOfSeq
<1>2. IsFiniteSet(1..Len(ds))
  BY <1>1, FS_Interval
<1>3. Unpaid(ds) \in [1..Len(ds) -> Nat]
  BY <1>1 DEF Unpaid, Draw
<1>4. SumFunction(Unpaid(ds)) \in Nat
  BY <1>2, <1>3, SumFunctionNat
<1> QED BY <1>1, <1>2, <1>3, <1>4

\* A new draw adds its amount to the sum.
LEMMA UnpaidAppend ==
  ASSUME NEW ds \in Seq(Draw), NEW w \in Draw, ~w.repaid
  PROVE  SumFunction(Unpaid(Append(ds, w))) = SumFunction(Unpaid(ds)) + w.amount
<1> DEFINE n == Len(ds)
           es == Append(ds, w)
           f == Unpaid(ds)
           g == Unpaid(es)
           R == 1..n
           S == 1..(n + 1)
<1>1. n \in Nat /\ es \in Seq(Draw) /\ Len(es) = n + 1 /\ es[n + 1] = w
      /\ \A j \in 1..n : es[j] = ds[j]
  BY LenProperties, AppendProperties
<1>2. DOMAIN ds = R /\ DOMAIN es = S /\ f \in [R -> Nat] /\ g \in [S -> Nat]
  BY <1>1, UnpaidTyped
<1>3. g[n + 1] = w.amount /\ \A j \in R : g[j] = f[j]
  BY <1>1, <1>2 DEF Unpaid
<1>4. IsFiniteSet(R) /\ IsFiniteSet(S) /\ S \ {n + 1} = R /\ n + 1 \in S
  <2>1. n \in Int /\ n + 1 \in Int /\ 1 \in Int
    BY <1>1
  <2>2. IsFiniteSet(R) /\ IsFiniteSet(S)
    BY <2>1, FS_Interval
  <2>3. S \ {n + 1} = R /\ n + 1 \in S
    <3> HIDE DEF n
    <3> QED BY <1>1
  <2> QED BY <2>2, <2>3
<1>5. g \in [S -> Int] /\ DOMAIN f = R
  BY <1>2
<1> HIDE DEF f, g, R, S, n
<1>6. SumFunction(g) = g[n + 1] + SumFunctionOnSet(g, S \ {n + 1})
  BY <1>4, <1>5, SumFunctionRemove
<1>7. SumFunctionOnSet(g, R) = SumFunctionOnSet(f, R)
  BY <1>3, <1>4, SumAgrees
<1>8. SumFunction(f) = SumFunctionOnSet(f, R)
  BY <1>5 DEF SumFunction
<1>9. SumFunction(f) \in Nat /\ w.amount \in Nat
  BY UnpaidTyped DEF f, Draw
<1>10. SumFunction(g) = w.amount + SumFunction(f)
  BY <1>3, <1>4, <1>6, <1>7, <1>8
<1> QED BY <1>9, <1>10 DEF f, g

\* A repaid draw, repaid before or not, adds nothing any more.
LEMMA UnpaidRepaid ==
  ASSUME NEW ds \in Seq(Draw), NEW j \in 1..Len(ds), NEW es \in Seq(Draw), Len(es) = Len(ds),
         es[j].repaid, \A k \in 1..Len(ds) : k # j => es[k] = ds[k]
  PROVE  SumFunction(Unpaid(es)) <= SumFunction(Unpaid(ds))
<1> DEFINE S == 1..Len(ds)
           f == Unpaid(ds)
           g == Unpaid(es)
<1>1. DOMAIN ds = S /\ DOMAIN es = S /\ f \in [S -> Nat] /\ g \in [S -> Nat] /\ IsFiniteSet(S)
      /\ SumFunction(f) \in Nat
  BY UnpaidTyped
<1>2. \A k \in S : g[k] <= f[k]
  <2> TAKE k \in S
  <2>1. g[k] = IF es[k].repaid THEN 0 ELSE es[k].amount
    BY <1>1 DEF Unpaid
  <2>2. f[k] = IF ds[k].repaid THEN 0 ELSE ds[k].amount
    BY <1>1 DEF Unpaid
  <2>3. f[k] \in Nat /\ g[k] \in Nat
    BY <1>1
  <2> HIDE DEF f, g
  <2>4. CASE k = j
    BY <2>1, <2>3, <2>4
  <2>5. CASE k # j
    BY <2>1, <2>2, <2>3, <2>5
  <2> QED BY <2>4, <2>5
<1> HIDE DEF f, g, S
<1>3. SumFunction(g) <= SumFunction(f)
  BY <1>1, <1>2, SumFunctionMonotone
<1> QED BY <1>3 DEF f, g

\* The trail of a new draw.
LEMMA TrailStarts ==
  ASSUME NEW e \in DrawAuditEntry, e.action = "DrawCreated"
  PROVE  TrailOK(<<e>>, e.by, FALSE, e.timestamp)
<1>1. <<e>> \in Seq(DrawAuditEntry) /\ Len(<<e>>) = 1 /\ <<e>>[1] = e /\ DOMAIN <<e>> = {1}
  OBVIOUS
<1>2. \A x \in Range(<<e>>) : x = e
  BY <1>1 DEF Range
<1>3. e.timestamp <= e.timestamp
  BY DEF DrawAuditEntry
<1> QED BY <1>1, <1>2, <1>3 DEF TrailOK

\* The entries of a trail have times.
LEMMA EntryTimes ==
  ASSUME NEW trail \in Seq(DrawAuditEntry), NEW n \in 1..Len(trail)
  PROVE  trail[n].timestamp \in Nat
<1>1. trail[n] \in DrawAuditEntry
  BY ElementOfSeq
<1>2. \A e \in DrawAuditEntry : e.timestamp \in Nat
  BY DEF DrawAuditEntry
<1> QED BY <1>1, <1>2, Zenon

\* An entry at the end of a trail, not before its last one.
LEMMA TrailGrows ==
  ASSUME NEW trail, NEW b, NEW r \in BOOLEAN, NEW q \in BOOLEAN, NEW t \in Nat,
         TrailOK(trail, b, r, t), NEW e \in DrawAuditEntry, e.timestamp = t,
         q <=> r \/ e.action = "Repaid"
  PROVE  TrailOK(Append(trail, e), b, q, t)
<1> DEFINE n == Len(trail)
           new == Append(trail, e)
<1>1. /\ trail \in Seq(DrawAuditEntry) /\ n \in Nat /\ n >= 1 /\ DOMAIN trail = 1..n
      /\ new \in Seq(DrawAuditEntry) /\ Len(new) = n + 1 /\ DOMAIN new = 1..(n + 1)
      /\ new[n + 1] = e /\ \A k \in 1..n : new[k] = trail[k]
  BY LenProperties, AppendProperties DEF TrailOK
<1>2. \A k \in 2..(n + 1) : new[k].timestamp >= new[k - 1].timestamp
  <2> TAKE k \in 2..(n + 1)
  <2>1. CASE k <= n
    <3>1. k \in 1..n /\ k - 1 \in 1..n /\ k \in 2..n
      BY <1>1, <2>1
    <3> QED BY <1>1, <3>1 DEF TrailOK
  <2>2. CASE k = n + 1
    <3>1. k - 1 = n /\ n \in 1..n
      BY <1>1, <2>2
    <3>2. trail[n].timestamp <= t
      BY DEF TrailOK
    <3>3. trail[n].timestamp \in Nat
      BY <1>1, <3>1, EntryTimes
    <3> QED BY <1>1, <2>2, <3>1, <3>2, <3>3
  <2> QED BY <1>1, <2>1, <2>2
<1>3. (\E x \in Range(new) : x.action = "Repaid")
        <=> (\E x \in Range(trail) : x.action = "Repaid") \/ e.action = "Repaid"
  <2>1. \A x : x \in Range(new) <=> x \in Range(trail) \/ x = e
    BY <1>1 DEF Range
  <2> QED BY <2>1
<1>4. r <=> \E x \in Range(trail) : x.action = "Repaid"
  BY DEF TrailOK
<1>5. q <=> \E x \in Range(new) : x.action = "Repaid"
  BY <1>3, <1>4
<1>6. new[1].action = "DrawCreated" /\ new[1].by = b
  BY <1>1 DEF TrailOK
<1>7. new[Len(new)].timestamp <= t
  BY <1>1
<1> QED BY <1>1, <1>2, <1>5, <1>6, <1>7 DEF TrailOK

\* Time passing takes nothing from a trail.
LEMMA TrailWaits ==
  ASSUME NEW trail, NEW b, NEW r, NEW t \in Nat, NEW u \in Nat, t <= u, TrailOK(trail, b, r, t)
  PROVE  TrailOK(trail, b, r, u)
<1>1. Len(trail) \in 1..Len(trail) /\ trail \in Seq(DrawAuditEntry)
  BY LenProperties DEF TrailOK
<1>2. trail[Len(trail)].timestamp \in Nat
  BY <1>1, EntryTimes
<1>3. trail[Len(trail)].timestamp <= u
  BY <1>2 DEF TrailOK
<1> QED BY <1>3 DEF TrailOK

\* A new line has no draws.
LEMMA LineStarts ==
  ASSUME NEW l \in CreditLine, NEW t
  PROVE  LineOK(l, << >>, << >>, t)
<1>1. << >> \in Seq(Draw) /\ << >> \in Seq(Seq(DrawAuditEntry)) /\ Len(<< >>) = 0
  BY EmptySeq
<1>2. IsFiniteSet({}) /\ DOMAIN Unpaid(<< >>) = {}
  BY FS_EmptySet DEF Unpaid
<1>3. SumFunction(Unpaid(<< >>)) = 0
  BY <1>2, SumFunctionZero
<1>4. l.terms.credit_amount \in Nat
  BY CosmAssumption DEF CreditLine
<1> QED BY <1>1, <1>3, <1>4 DEF LineOK

\* A draw within the credit amount, with the trail it starts.
LEMMA LineDraws ==
  ASSUME NEW l, NEW ds, NEW au, NEW t \in Nat, LineOK(l, ds, au, t),
         NEW w \in Draw, ~w.repaid, SumFunction(Unpaid(ds)) + w.amount <= l.terms.credit_amount,
         NEW e \in DrawAuditEntry, e.action = "DrawCreated", e.by = l.borrower, e.timestamp = t
  PROVE  LineOK(l, Append(ds, w), Append(au, <<e>>), t)
<1> DEFINE n == Len(ds)
           es == Append(ds, w)
           bu == Append(au, <<e>>)
<1>1. ds \in Seq(Draw) /\ au \in Seq(Seq(DrawAuditEntry)) /\ n \in Nat /\ Len(au) = n
      /\ l \in CreditLine
  BY LenProperties DEF LineOK
<1>2. <<e>> \in Seq(DrawAuditEntry)
  OBVIOUS
<1>3. /\ es \in Seq(Draw) /\ Len(es) = n + 1 /\ es[n + 1] = w
      /\ \A j \in 1..n : es[j] = ds[j]
  BY <1>1, AppendProperties
<1>4. /\ bu \in Seq(Seq(DrawAuditEntry)) /\ Len(bu) = n + 1 /\ bu[n + 1] = <<e>>
      /\ \A j \in 1..n : bu[j] = au[j]
  BY <1>1, <1>2, AppendProperties
<1>5. TrailOK(<<e>>, l.borrower, FALSE, t)
  BY TrailStarts
<1>6. w.repaid = FALSE
  BY DEF Draw
<1>7. \A j \in 1..n : TrailOK(au[j], l.borrower, ds[j].repaid, t)
  BY DEF LineOK
<1>8. SumFunction(Unpaid(es)) <= l.terms.credit_amount
  BY <1>1, UnpaidAppend
<1> HIDE DEF n, es, bu
<1>9. \A j \in 1..(n + 1) : TrailOK(bu[j], l.borrower, es[j].repaid, t)
  <2> TAKE j \in 1..(n + 1)
  <2>1. CASE j \in 1..n
    BY <1>3, <1>4, <1>7, <2>1
  <2>2. CASE j = n + 1
    BY <1>3, <1>4, <1>5, <1>6, <2>2
  <2> QED BY <1>1, <2>1, <2>2
<1>10. LineOK(l, es, bu, t)
  BY <1>1, <1>3, <1>4, <1>8, <1>9 DEF LineOK
<1> QED BY <1>10 DEF es, bu

\* An entry for one draw of the line, which is repaid afterwards if it was or if the entry
\* says so.
LEMMA LineRecords ==
  ASSUME NEW l, NEW ds, NEW au, NEW t \in Nat, LineOK(l, ds, au, t), NEW j \in 1..Len(ds),
         NEW e \in DrawAuditEntry, e.timestamp = t,
         NEW es \in Seq(Draw), Len(es) = Len(ds), \A k \in 1..Len(ds) : k # j => es[k] = ds[k],
         es[j].repaid <=> ds[j].repaid \/ e.action = "Repaid",
         SumFunction(Unpaid(es)) <= SumFunction(Unpaid(ds)),
         NEW bu, bu = [au EXCEPT ![j] = Append(au[j], e)]
  PROVE  LineOK(l, es, bu, t)
<1> DEFINE n == Len(ds)
<1>1. ds \in Seq(Draw) /\ au \in Seq(Seq(DrawAuditEntry)) /\ n \in Nat /\ Len(au) = n
      /\ l \in CreditLine
  BY LenProperties DEF LineOK
<1>2. ds[j] \in Draw /\ es[j] \in Draw /\ au[j] \in Seq(DrawAuditEntry)
  BY <1>1, ElementOfSeq
<1>3. Append(au[j], e) \in Seq(DrawAuditEntry)
  BY <1>2, AppendProperties
<1>4. /\ bu \in Seq(Seq(DrawAuditEntry)) /\ Len(bu) = n /\ bu[j] = Append(au[j], e)
      /\ \A k \in 1..n : k # j => bu[k] = au[k]
  BY <1>1, <1>3, ExceptSeq
<1>5. ds[j].repaid \in BOOLEAN /\ es[j].repaid \in BOOLEAN
  <2>1. \A w \in Draw : w.repaid \in BOOLEAN
    BY DEF Draw
  <2> QED BY <1>2, <2>1, Zenon
<1>6. TrailOK(au[j], l.borrower, ds[j].repaid, t)
  BY DEF LineOK
<1>7. TrailOK(bu[j], l.borrower, es[j].repaid, t)
  <2>1. TrailOK(Append(au[j], e), l.borrower, es[j].repaid, t)
    BY <1>5, <1>6, TrailGrows
  <2> QED BY <1>4, <2>1
<1>8. \A k \in 1..n : TrailOK(bu[k], l.borrower, es[k].repaid, t)
  BY <1>4, <1>7 DEF LineOK
<1>9. SumFunction(Unpaid(es)) <= l.terms.credit_amount
  <2>1. SumFunction(Unpaid(es)) \in Nat /\ SumFunction(Unpaid(ds)) \in Nat
    BY <1>1, UnpaidTyped
  <2>2. l.terms.credit_amount \in Nat
    BY <1>1, CosmAssumption DEF CreditLine
  <2> QED BY <2>1, <2>2 DEF LineOK
<1> QED BY <1>1, <1>4, <1>8, <1>9 DEF LineOK

\* Time passing takes nothing from a line.
LEMMA LineWaits ==
  ASSUME NEW l, NEW ds, NEW au, NEW t \in Nat, NEW u \in Nat, t <= u, LineOK(l, ds, au, t)
  PROVE  LineOK(l, ds, au, u)
<1>1. \A j \in 1..Len(ds) : TrailOK(au[j], l.borrower, ds[j].repaid, u)
  BY TrailWaits DEF LineOK
<1> QED BY <1>1 DEF LineOK
-----------------------------------------------------------------------------
(* creditra-credit: the ledger *)

\* Every line with its draws and trails, by position.
LinesInv ==
  /\ now \in Nat
  /\ clines \in Seq(CreditLine) /\ draws \in Seq(Seq(Draw)) /\ audit \in Seq(Seq(Seq(DrawAuditEntry)))
  /\ Len(draws) = Len(clines) /\ Len(audit) = Len(clines)
  /\ \A i \in 1..Len(clines) : LineOK(clines[i], draws[i], audit[i], now)

\* Positions of lines and draws are the domains the actions quantify over.
LEMMA LinePositions ==
  ASSUME LinesInv
  PROVE  /\ DOMAIN clines = 1..Len(clines) /\ Len(clines) \in Nat
         /\ \A i \in 1..Len(clines) :
              /\ clines[i] \in CreditLine /\ draws[i] \in Seq(Draw) /\ DOMAIN draws[i] = 1..Len(draws[i])
              /\ audit[i] \in Seq(Seq(DrawAuditEntry)) /\ DOMAIN audit[i] = 1..Len(draws[i])
              /\ \A j \in 1..Len(draws[i]) : draws[i][j] \in Draw
<1>1. DOMAIN clines = 1..Len(clines) /\ Len(clines) \in Nat
  BY LenProperties DEF LinesInv
<1>2. ASSUME NEW i \in 1..Len(clines)
      PROVE  /\ clines[i] \in CreditLine /\ draws[i] \in Seq(Draw) /\ DOMAIN draws[i] = 1..Len(draws[i])
             /\ audit[i] \in Seq(Seq(DrawAuditEntry)) /\ DOMAIN audit[i] = 1..Len(draws[i])
             /\ \A j \in 1..Len(draws[i]) : draws[i][j] \in Draw
  <2>1. LineOK(clines[i], draws[i], audit[i], now)
    BY <1>2 DEF LinesInv
  <2>2. /\ clines[i] \in CreditLine /\ draws[i] \in Seq(Draw)
        /\ audit[i] \in Seq(Seq(DrawAuditEntry)) /\ Len(audit[i]) = Len(draws[i])
    BY <2>1 DEF LineOK
  <2> QED BY <2>2, LenProperties, ElementOfSeq
<1> QED BY <1>1, <1>2

\* A call that changes one line.
LEMMA LineChanges ==
  ASSUME LinesInv, NEW i \in 1..Len(clines), NEW ds, NEW au, LineOK(clines[i], ds, au, now),
         UNCHANGED <<now, clines>>,
         draws' = [draws EXCEPT ![i] = ds], audit' = [audit EXCEPT ![i] = au]
  PROVE  LinesInv'
<1>1. ds \in Seq(Draw) /\ au \in Seq(Seq(DrawAuditEntry))
  BY DEF LineOK
<1>2. i \in 1..Len(draws) /\ i \in 1..Len(audit)
  BY DEF LinesInv
<1>3. /\ draws' \in Seq(Seq(Draw)) /\ Len(draws') = Len(draws) /\ draws'[i] = ds
      /\ \A k \in 1..Len(draws) : k # i => draws'[k] = draws[k]
  BY <1>1, <1>2, ExceptSeq DEF LinesInv
<1>4. /\ audit' \in Seq(Seq(Seq(DrawAuditEntry))) /\ Len(audit') = Len(audit) /\ audit'[i] = au
      /\ \A k \in 1..Len(audit) : k # i => audit'[k] = audit[k]
  BY <1>1, <1>2, ExceptSeq DEF LinesInv
<1>5. \A k \in 1..Len(clines) : LineOK(clines[k], draws'[k], audit'[k], now)
  BY <1>3, <1>4 DEF LinesInv
<1> QED BY <1>3, <1>4, <1>5 DEF LinesInv

\* The entries the calls write.
LEMMA EntryTyped ==
  ASSUME now \in Nat, NEW a \in {"DrawCreated", "Repaid", "MemoAdded"}, NEW b \in Clients \cup {"owner"}
  PROVE  /\ Entry(a, b) \in DrawAuditEntry /\ Entry(a, b).action = a /\ Entry(a, b).by = b
         /\ Entry(a, b).timestamp = now
BY DEF Entry, DrawAuditEntry

\* create_credit_line.
LEMMA CreateLineKeeps ==
  ASSUME LinesInv, NEW b \in Clients, NEW t \in LineTerms, CreateCreditLine(b, t)
  PROVE  LinesInv'
<1> DEFINE l == [borrower |-> b, terms |-> t, active |-> TRUE]
           n == Len(clines)
<1>1. l \in CreditLine
  BY DEF CreditLine
<1>2. /\ clines' = Append(clines, l) /\ draws' = Append(draws, << >>) /\ audit' = Append(audit, << >>)
      /\ now' = now
  BY DEF CreateCreditLine
<1>3. n \in Nat /\ Len(draws) = n /\ Len(audit) = n
  BY LinePositions DEF LinesInv
<1> HIDE DEF l
<1>4. /\ clines' \in Seq(CreditLine) /\ Len(clines') = n + 1 /\ clines'[n + 1] = l
      /\ \A k \in 1..n : clines'[k] = clines[k]
  BY <1>1, <1>2, AppendProperties DEF LinesInv
<1>5. << >> \in Seq(Draw) /\ << >> \in Seq(Seq(DrawAuditEntry))
  BY EmptySeq
<1>6. /\ draws' \in Seq(Seq(Draw)) /\ Len(draws') = n + 1 /\ draws'[n + 1] = << >>
      /\ \A k \in 1..n : draws'[k] = draws[k]
  BY <1>2, <1>3, <1>5, AppendProperties DEF LinesInv
<1>7. /\ audit' \in Seq(Seq(Seq(DrawAuditEntry))) /\ Len(audit') = n + 1 /\ audit'[n + 1] = << >>
      /\ \A k \in 1..n : audit'[k] = audit[k]
  BY <1>2, <1>3, <1>5, AppendProperties DEF LinesInv
<1>8. LineOK(l, << >>, << >>, now)
  BY <1>1, LineStarts
<1>9. \A k \in 1..n : LineOK(clines[k], draws[k], audit[k], now)
  BY DEF LinesInv
<1> HIDE DEF n
<1>10. \A k \in 1..(n + 1) : LineOK(clines'[k], draws'[k], audit'[k], now)
  <2> TAKE k \in 1..(n + 1)
  <2>1. CASE k \in 1..n
    BY <1>4, <1>6, <1>7, <1>9, <2>1
  <2>2. CASE k = n + 1
    BY <1>4, <1>6, <1>7, <1>8, <2>2
  <2> QED BY <1>3, <2>1, <2>2
<1> QED BY <1>2, <1>3, <1>4, <1>6, <1>7, <1>10 DEF LinesInv

\* create_draw.
LEMMA CreateDrawKeeps ==
  ASSUME LinesInv, NEW b \in Clients, NEW i \in DOMAIN clines, NEW a \in DrawAmounts, NEW d \in Denoms,
         CreateDraw(b, i, a, d)
  PROVE  LinesInv'
<1> DEFINE w == [amount |-> a, denom |-> d, drawn_by |-> b, repaid |-> FALSE]
           e == Entry("DrawCreated", b)
<1>1. i \in 1..Len(clines) /\ LineOK(clines[i], draws[i], audit[i], now) /\ now \in Nat
  BY LinePositions DEF LinesInv
<1>2. w \in Draw /\ ~w.repaid /\ w.amount = a
  BY CosmAssumption DEF CreateDraw, Draw
<1>3. e \in DrawAuditEntry /\ e.action = "DrawCreated" /\ e.by = clines[i].borrower /\ e.timestamp = now
  BY <1>1, EntryTyped DEF CreateDraw
<1>4. SumFunction(Unpaid(draws[i])) + a <= clines[i].terms.credit_amount
  BY OutstandingIsUnpaid DEF CreateDraw
<1>5. /\ draws' = [draws EXCEPT ![i] = Append(draws[i], w)]
      /\ audit' = [audit EXCEPT ![i] = Append(audit[i], <<e>>)]
      /\ UNCHANGED <<now, clines>>
  BY DEF CreateDraw
<1> HIDE DEF w, e
<1>6. LineOK(clines[i], Append(draws[i], w), Append(audit[i], <<e>>), now)
  BY <1>1, <1>2, <1>3, <1>4, LineDraws
<1> QED BY <1>1, <1>5, <1>6, LineChanges

\* A repaid draw is the draw with its flag set.
LEMMA RepaidDraw ==
  ASSUME NEW w \in Draw
  PROVE  [w EXCEPT !.repaid = TRUE] \in Draw /\ [w EXCEPT !.repaid = TRUE].repaid
BY DEF Draw

\* repay_draw.
LEMMA RepayDrawKeeps ==
  ASSUME LinesInv, NEW b \in Clients, NEW i \in DOMAIN clines, NEW j \in DOMAIN draws[i], RepayDraw(b, i, j)
  PROVE  LinesInv'
<1> DEFINE e == Entry("Repaid", b)
           w == [draws[i][j] EXCEPT !.repaid = TRUE]
           es == [draws[i] EXCEPT ![j] = w]
           bu == [audit[i] EXCEPT ![j] = Append(audit[i][j], e)]
<1>1. i \in 1..Len(clines) /\ LineOK(clines[i], draws[i], audit[i], now) /\ now \in Nat
      /\ draws[i] \in Seq(Draw) /\ j \in 1..Len(draws[i]) /\ draws[i][j] \in Draw
  BY LinePositions DEF LinesInv
<1>2. e \in DrawAuditEntry /\ e.action = "Repaid" /\ e.timestamp = now
  BY <1>1, EntryTyped
<1>3. w \in Draw /\ w.repaid
  BY <1>1, RepaidDraw
<1>4. /\ draws' = [draws EXCEPT ![i] = es] /\ audit' = [audit EXCEPT ![i] = bu]
      /\ UNCHANGED <<now, clines>>
  BY DEF RepayDraw, AppendAuditEntry
<1> HIDE DEF e, w
<1>5. /\ es \in Seq(Draw) /\ Len(es) = Len(draws[i]) /\ es[j] = w
      /\ \A k \in 1..Len(draws[i]) : k # j => es[k] = draws[i][k]
  BY <1>1, <1>3, ExceptSeq
<1>6. es[j].repaid
  BY <1>3, <1>5
<1> HIDE DEF es
<1>7. SumFunction(Unpaid(es)) <= SumFunction(Unpaid(draws[i]))
  BY <1>1, <1>5, <1>6, UnpaidRepaid
<1>8. LineOK(clines[i], es, bu, now)
  BY <1>1, <1>2, <1>5, <1>6, <1>7, LineRecords
<1> QED BY <1>1, <1>4, <1>8, LineChanges

\* add_audit_memo.
LEMMA AddMemoKeeps ==
  ASSUME LinesInv, NEW i \in DOMAIN clines, NEW j \in DOMAIN draws[i], AddAuditMemo(i, j)
  PROVE  LinesInv'
<1> DEFINE e == Entry("MemoAdded", "owner")
           bu == [audit[i] EXCEPT ![j] = Append(audit[i][j], e)]
<1>1. i \in 1..Len(clines) /\ LineOK(clines[i], draws[i], audit[i], now) /\ now \in Nat
      /\ draws[i] \in Seq(Draw) /\ j \in 1..Len(draws[i])
  BY LinePositions DEF LinesInv
<1>2. e \in DrawAuditEntry /\ e.action # "Repaid" /\ e.timestamp = now
  BY <1>1, EntryTyped
<1>3. audit' = [audit EXCEPT ![i] = bu] /\ UNCHANGED <<now, clines, draws>>
  BY DEF AddAuditMemo, AppendAuditEntry
<1> HIDE DEF e
<1>4. SumFunction(Unpaid(draws[i])) <= SumFunction(Unpaid(draws[i]))
  BY <1>1, UnpaidTyped
<1>5. LineOK(clines[i], draws[i], bu, now)
  BY <1>1, <1>2, <1>4, LineRecords
<1>6. draws = [draws EXCEPT ![i] = draws[i]]
  BY <1>1, LenProperties DEF LinesInv
<1>7. draws' = [draws EXCEPT ![i] = draws[i]]
  BY <1>3, <1>6
<1> QED BY <1>1, <1>3, <1>5, <1>7, LineChanges

\* What a call of any contract of the module means for the ledger: either it is one of the
\* ledger's own, or the ledger stays as it is, at the same time or a later one.
LEMMA LedgerSteps ==
  ASSUME [BesideNext]_besideVars
  PROVE  \/ LedgerNext
         \/ UNCHANGED <<now, clines, draws, audit>>
         \/ Tick /\ UNCHANGED <<clines, draws, audit>>
<1>1. ASSUME ReaderNext \/ FeeNext \/ CollateralNext
      PROVE  UNCHANGED <<now, clines, draws, audit>>
  BY <1>1 DEF ReaderNext, ReadPage, FeeNext, SetProtocolFeeBps, WithdrawTreasury, CollateralNext,
       DepositCollateral, WithdrawCollateral, AddCollateralToken, RemoveCollateralToken,
       SetCollateralRiskWeight, ledgerVars
<1>2. ASSUME (OracleNext \/ PriceNext \/ PolicyNext) /\ UNCHANGED cosmVars
      PROVE  UNCHANGED <<now, clines, draws, audit>>
  BY <1>2 DEF OracleNext, AddOracle, RemoveOracle, ReportValue, PriceNext, SetOracleQuorumConfig,
       SubmitOraclePrices, PolicyNext, SetLateFeeConfig, UpdateProtocolVersion, cosmVars, ledgerVars
<1>3. ASSUME EscrowNext
      PROVE  Tick \/ UNCHANGED now
  BY <1>3 DEF EscrowNext, Initialize, Deposit, ApproveWithdrawal, ExecuteWithdrawal, ProposeFeeChange,
       ConfirmFeeChange, CancelFeeChange, Refund, InitializeMilestones, SubmitMilestone,
       RejectMilestone, ApproveMilestone
<1>4. ASSUME CrowdNext
      PROVE  Tick \/ UNCHANGED now
  BY <1>4 DEF CrowdNext, InitializeCrowd, Contribute, ReleaseMilestone, RefundBacker, SetFailed
<1>5. UNCHANGED cosmVars => UNCHANGED <<clines, draws, audit>>
  BY DEF cosmVars, ledgerVars
<1> QED
  BY <1>1, <1>2, <1>3, <1>4, <1>5 DEF BesideNext, CosmCall, EscrowCall, CrowdCall, besideVars

\* Every call of every contract keeps the lines.
LEMMA LinesKept ==
  ASSUME LinesInv, [BesideNext]_besideVars
  PROVE  LinesInv'
<1>1. CASE LedgerNext
  BY <1>1, CreateLineKeeps, CreateDrawKeeps, RepayDrawKeeps, AddMemoKeeps DEF LedgerNext
<1>2. CASE UNCHANGED <<now, clines, draws, audit>>
  BY <1>2 DEF LinesInv
<1>3. CASE Tick /\ UNCHANGED <<clines, draws, audit>>
  <2>1. now \in Nat /\ now' \in Nat /\ now <= now'
    BY <1>3 DEF Tick, LinesInv
  <2>2. \A i \in 1..Len(clines) : LineOK(clines[i], draws[i], audit[i], now')
    BY <2>1, LineWaits DEF LinesInv
  <2> QED BY <1>3, <2>1, <2>2 DEF LinesInv
<1> QED BY <1>1, <1>2, <1>3, LedgerSteps

\* The ledger before its first line.
LEMMA LinesStart == BesideInit => LinesInv
<1> SUFFICES ASSUME BesideInit PROVE LinesInv
  OBVIOUS
<1>1. now \in Nat
  BY MaxTimeAssumption DEF BesideInit
<1>2. clines = << >> /\ draws = << >> /\ audit = << >>
  BY DEF BesideInit, CosmInit
<1>3. << >> \in Seq(CreditLine) /\ << >> \in Seq(Seq(Draw)) /\ << >> \in Seq(Seq(Seq(DrawAuditEntry)))
      /\ Len(<< >>) = 0
  BY EmptySeq
<1> QED BY <1>1, <1>2, <1>3 DEF LinesInv

\* The invariant gives the two properties of the ledger.
LEMMA LinesSuffice ==
  ASSUME LinesInv
  PROVE  CosmWithinCredit /\ AuditTrailAgrees
<1>1. ASSUME NEW i \in DOMAIN clines
      PROVE  LineOK(clines[i], draws[i], audit[i], now) /\ DOMAIN draws[i] = 1..Len(draws[i])
  BY <1>1, LinePositions DEF LinesInv
<1>2. CosmWithinCredit
  BY <1>1, OutstandingIsUnpaid DEF CosmWithinCredit, LineOK
<1>3. ASSUME NEW i \in DOMAIN clines, NEW j \in DOMAIN draws[i]
      PROVE  TrailOK(audit[i][j], clines[i].borrower, draws[i][j].repaid, now)
  BY <1>1, <1>3 DEF LineOK
<1>4. \A i \in DOMAIN clines : Len(audit[i]) = Len(draws[i])
  BY <1>1 DEF LineOK
<1>5. AuditTrailAgrees
  BY <1>3, <1>4 DEF AuditTrailAgrees, TrailOK
<1> QED BY <1>2, <1>5
-----------------------------------------------------------------------------
(* creditra-credit: fees *)

FeesInv ==
  /\ fees \in [bps : 0..MaxFeeBps, treasury : [Denoms -> Nat], bounty : [Denoms -> Nat]]
  /\ skimmed \in [Denoms -> Nat]
  /\ FeesConserved

\* split_protocol_fee loses nothing, whatever the share, also one over the unit.
LEMMA SplitExact ==
  ASSUME NEW total \in Nat, NEW share \in Nat
  PROVE  LET split == SplitProtocolFee(total, share)
         IN  split.treasury \in Nat /\ split.bounty \in Nat /\ split.treasury + split.bounty = total
<1> DEFINE split == SplitProtocolFee(total, share)
<1>1. BpsUnit \in Nat \ {0}
  BY CosmAssumption
<1>2. split.treasury \in 0..total
  <2>1. CASE share = 0
    BY <1>1, <2>1 DEF SplitProtocolFee
  <2>2. CASE share # 0 /\ share >= BpsUnit
    BY <1>1, <2>2 DEF SplitProtocolFee
  <2>3. CASE share # 0 /\ ~(share >= BpsUnit)
    <3>1. Share(total, share, BpsUnit) \in Nat /\ Share(total, share, BpsUnit) <= total
      BY <1>1, <2>3, ShareBounds
    <3>2. split.treasury = Share(total, share, BpsUnit)
      BY <1>1, <2>3 DEF SplitProtocolFee
    <3> QED BY <3>1, <3>2
  <2> QED BY <2>1, <2>2, <2>3
<1>3. split.bounty = total - split.treasury
  BY DEF SplitProtocolFee
<1> QED BY <1>2, <1>3

\* What a call does to the fees of one denom it does to both sides of the account.
LEMMA FeesMove ==
  ASSUME FeesInv, NEW d \in Denoms, NEW x \in Nat, NEW y \in Nat, NEW z \in Nat,
         x + y = z,
         fees' = [fees EXCEPT !.treasury = [fees.treasury EXCEPT ![d] = x],
                              !.bounty = [fees.bounty EXCEPT ![d] = y]],
         skimmed' = [skimmed EXCEPT ![d] = z]
  PROVE  FeesInv'
<1>1. /\ fees \in [bps : 0..MaxFeeBps, treasury : [Denoms -> Nat], bounty : [Denoms -> Nat]]
      /\ skimmed \in [Denoms -> Nat] /\ \A c \in Denoms : fees.treasury[c] + fees.bounty[c] = skimmed[c]
  BY DEF FeesInv, FeesConserved
<1> DEFINE tr == [fees.treasury EXCEPT ![d] = x]
           bo == [fees.bounty EXCEPT ![d] = y]
<1>2. tr \in [Denoms -> Nat] /\ bo \in [Denoms -> Nat] /\ tr[d] = x /\ bo[d] = y
      /\ \A c \in Denoms : c # d => tr[c] = fees.treasury[c] /\ bo[c] = fees.bounty[c]
  BY <1>1
<1> HIDE DEF tr, bo
<1>3. fees' = [fees EXCEPT !.treasury = tr, !.bounty = bo]
  BY DEF tr, bo
<1>4. /\ fees' \in [bps : 0..MaxFeeBps, treasury : [Denoms -> Nat], bounty : [Denoms -> Nat]]
      /\ fees'.treasury = tr /\ fees'.bounty = bo
  BY <1>1, <1>2, <1>3
<1>5. skimmed' \in [Denoms -> Nat] /\ skimmed'[d] = z /\ \A c \in Denoms : c # d => skimmed'[c] = skimmed[c]
  BY <1>1
<1>6. \A c \in Denoms : tr[c] + bo[c] = skimmed'[c]
  BY <1>1, <1>2, <1>5
<1> QED BY <1>4, <1>5, <1>6 DEF FeesInv, FeesConserved

\* Every call keeps the account of the fees.
LEMMA FeesKept ==
  ASSUME LinesInv, FeesInv, [BesideNext]_besideVars
  PROVE  FeesInv'
<1>0. /\ fees \in [bps : 0..MaxFeeBps, treasury : [Denoms -> Nat], bounty : [Denoms -> Nat]]
      /\ skimmed \in [Denoms -> Nat] /\ \A c \in Denoms : fees.treasury[c] + fees.bounty[c] = skimmed[c]
  BY DEF FeesInv, FeesConserved
<1>1. ASSUME NEW b, NEW i \in DOMAIN clines, NEW j \in DOMAIN draws[i], RepayDraw(b, i, j)
      PROVE  FeesInv'
  <2> DEFINE w == draws[i][j]
             d == w.denom
             fee == Share(w.amount, fees.bps, BpsUnit)
             split == SplitProtocolFee(fee, GetTreasuryFeeShare(d))
             x == split.treasury
             y == split.bounty
  <2>1. w \in Draw
    BY LinePositions
  <2>2. d \in Denoms /\ w.amount \in Nat /\ fees.bps \in Nat /\ BpsUnit \in Nat \ {0}
    BY <1>0, <2>1, CosmAssumption DEF Draw
  <2>3. fee \in Nat
    BY <2>2, ShareBounds
  <2>4. /\ fees' = [fees EXCEPT !.treasury = [fees.treasury EXCEPT ![d] = fees.treasury[d] + x],
                                !.bounty = [fees.bounty EXCEPT ![d] = fees.bounty[d] + y]]
        /\ skimmed' = [skimmed EXCEPT ![d] = skimmed[d] + fee]
    BY <1>1 DEF RepayDraw, AccrueProtocolFee
  <2>5. x \in Nat /\ y \in Nat /\ x + y = fee
    BY <2>2, <2>3, SplitExact DEF GetTreasuryFeeShare
  <2> DEFINE u == fees.treasury[d]
             v == fees.bounty[d]
             s == skimmed[d]
  <2>6. u \in Nat /\ v \in Nat /\ s \in Nat /\ u + v = s
    BY <1>0, <2>2
  <2> HIDE DEF w, d, fee, x, y
  <2>7. u + x \in Nat /\ v + y \in Nat /\ s + fee \in Nat /\ (u + x) + (v + y) = s + fee
    <3> HIDE DEF u, v, s
    <3> QED BY <2>3, <2>5, <2>6
  <2> QED BY <2>2, <2>4, <2>7, FeesMove
<1>2. ASSUME NEW bps \in FeeRates, SetProtocolFeeBps(bps)
      PROVE  FeesInv'
  <2>1. bps \in 0..MaxFeeBps
    BY <1>2, CosmAssumption DEF SetProtocolFeeBps
  <2>2. fees' = [fees EXCEPT !.bps = bps] /\ UNCHANGED skimmed
    BY <1>2 DEF SetProtocolFeeBps
  <2> QED BY <1>0, <2>1, <2>2 DEF FeesInv, FeesConserved
<1>3. ASSUME NEW d \in Denoms, NEW a \in DrawAmounts, WithdrawTreasury(d, a)
      PROVE  FeesInv'
  <2> DEFINE u == fees.treasury[d]
             v == fees.bounty[d]
             s == skimmed[d]
  <2>1. u \in Nat /\ v \in Nat /\ s \in Nat /\ u + v = s /\ a \in Nat /\ a <= u
    BY <1>0, <1>3, CosmAssumption DEF WithdrawTreasury
  <2>2. fees' = [fees EXCEPT !.treasury = [fees.treasury EXCEPT ![d] = u - a]]
        /\ skimmed' = [skimmed EXCEPT ![d] = s - a]
    BY <1>3 DEF WithdrawTreasury
  <2>3. fees.bounty = [fees.bounty EXCEPT ![d] = v]
    BY <1>0
  <2>4. fees' = [fees EXCEPT !.treasury = [fees.treasury EXCEPT ![d] = u - a],
                             !.bounty = [fees.bounty EXCEPT ![d] = v]]
    BY <1>0, <2>2, <2>3
  <2>5. u - a \in Nat /\ s - a \in Nat /\ (u - a) + v = s - a
    <3> HIDE DEF u, v, s
    <3> QED BY <2>1
  <2> QED BY <2>1, <2>2, <2>4, <2>5, FeesMove
<1>4. ASSUME UNCHANGED <<fees, skimmed>>
      PROVE  FeesInv'
  BY <1>4 DEF FeesInv, FeesConserved
<1>5. ASSUME LedgerNext, ~UNCHANGED <<fees, skimmed>>
      PROVE  \E b \in Clients, i \in DOMAIN clines : \E j \in DOMAIN draws[i] : RepayDraw(b, i, j)
  BY <1>5 DEF LedgerNext, CreateCreditLine, CreateDraw, AddAuditMemo
<1>6. ASSUME ReaderNext \/ CollateralNext
      PROVE  UNCHANGED <<fees, skimmed>>
  BY <1>6 DEF ReaderNext, ReadPage, CollateralNext, DepositCollateral, WithdrawCollateral,
       AddCollateralToken, RemoveCollateralToken, SetCollateralRiskWeight, ledgerVars
<1>7. UNCHANGED cosmVars => UNCHANGED <<fees, skimmed>>
  BY DEF cosmVars, ledgerVars
<1> QED
  BY <1>1, <1>2, <1>3, <1>4, <1>5, <1>6, <1>7
     DEF BesideNext, CosmCall, EscrowCall, CrowdCall, besideVars, FeeNext
-----------------------------------------------------------------------------
(* creditra-credit: what is stored for collateral *)

DepositsInv ==
  /\ weights \in [DOMAIN weights -> 0..BpsUnit]
  /\ balances \in [Clients -> [Denoms -> Nat]]

\* Every call keeps weights in range and balances above zero.
LEMMA DepositsKept ==
  ASSUME DepositsInv, [BesideNext]_besideVars
  PROVE  DepositsInv'
<1>1. ASSUME NEW c \in Clients, NEW d \in Denoms, NEW a \in DepositAmounts,
             DepositCollateral(c, d, a) \/ WithdrawCollateral(c, d, a)
      PROVE  DepositsInv'
  <2>1. balances[c][d] \in Nat /\ a \in Nat /\ balances[c] \in [Denoms -> Nat]
    BY CosmAssumption DEF DepositsInv
  <2>2. PICK m \in Nat : balances' = [balances EXCEPT ![c] = [balances[c] EXCEPT ![d] = m]]
    <3>1. CASE DepositCollateral(c, d, a)
      <4>1. balances[c][d] + a \in Nat
        BY <2>1
      <4> QED BY <3>1, <4>1 DEF DepositCollateral
    <3>2. CASE WithdrawCollateral(c, d, a)
      <4>1. balances[c][d] - a \in Nat
        BY <2>1, <3>2 DEF WithdrawCollateral
      <4> QED BY <3>2, <4>1 DEF WithdrawCollateral
    <3> QED BY <1>1, <3>1, <3>2
  <2>3. [balances[c] EXCEPT ![d] = m] \in [Denoms -> Nat]
    BY <2>1, <2>2
  <2>4. UNCHANGED weights
    BY <1>1 DEF DepositCollateral, WithdrawCollateral
  <2> QED BY <2>2, <2>3, <2>4 DEF DepositsInv
<1>2. ASSUME NEW d \in Denoms, NEW w \in RiskWeights,
             AddCollateralToken(d, w) \/ SetCollateralRiskWeight(d, w)
      PROVE  DepositsInv'
  <2>1. w \in 0..BpsUnit
    BY <1>2, CosmAssumption DEF AddCollateralToken, SetCollateralRiskWeight
  <2>2. SetWeight(d, w) \in [DOMAIN SetWeight(d, w) -> 0..BpsUnit]
    BY <2>1 DEF SetWeight, DepositsInv
  <2>3. weights' = weights \/ weights' = SetWeight(d, w)
    BY <1>2 DEF AddCollateralToken, SetCollateralRiskWeight
  <2>4. UNCHANGED balances
    BY <1>2 DEF AddCollateralToken, SetCollateralRiskWeight
  <2> QED BY <2>2, <2>3, <2>4 DEF DepositsInv
<1>3. ASSUME NEW d \in Denoms, RemoveCollateralToken(d)
      PROVE  DepositsInv'
  BY <1>3 DEF RemoveCollateralToken, DepositsInv
<1>4. ASSUME UNCHANGED <<weights, balances>>
      PROVE  DepositsInv'
  BY <1>4 DEF DepositsInv
<1>5. ASSUME LedgerNext \/ ReaderNext \/ FeeNext
      PROVE  UNCHANGED <<weights, balances>>
  <2>1. CASE LedgerNext
    BY <2>1 DEF LedgerNext, CreateCreditLine, CreateDraw, RepayDraw, AddAuditMemo, collateralVars
  <2>2. CASE ReaderNext
    BY <2>2 DEF ReaderNext, ReadPage, collateralVars
  <2>3. CASE FeeNext
    BY <2>3 DEF FeeNext, SetProtocolFeeBps, WithdrawTreasury, collateralVars
  <2> QED BY <1>5, <2>1, <2>2, <2>3
<1>6. UNCHANGED cosmVars => UNCHANGED <<weights, balances>>
  BY DEF cosmVars, collateralVars
<1> QED
  BY <1>1, <1>2, <1>3, <1>4, <1>5, <1>6
     DEF BesideNext, CosmCall, EscrowCall, CrowdCall, besideVars, CollateralNext
-----------------------------------------------------------------------------
(* creditra-credit: the rounding of interest *)

\* Rounding two parts down is never more than rounding their sum down, and rounding the second
\* one up never less.
LEMMA QuotientSplits ==
  ASSUME NEW x \in Nat, NEW y \in Nat, NEW u \in Nat \ {0}
  PROVE  /\ x \div u + y \div u <= (x + y) \div u
         /\ (x + y) \div u <= x \div u + (y \div u + IF y % u # 0 THEN 1 ELSE 0)
         /\ (y \div u + IF y % u # 0 THEN 1 ELSE 0) * u < y + u
         /\ x \div u \in Nat /\ y \div u \in Nat /\ (x + y) \div u \in Nat
<1> DEFINE z == x + y
           a == x \div u
           b == y \div u
           c == z \div u
           p == x % u
           q == y % u
           r == z % u
<1>1. a \in Nat /\ p \in 0..(u - 1) /\ x = u * a + p
  OBVIOUS
<1>2. b \in Nat /\ q \in 0..(u - 1) /\ y = u * b + q
  OBVIOUS
<1>3. z \in Nat
  OBVIOUS
<1>4. c \in Nat /\ r \in 0..(u - 1) /\ z = u * c + r
  <2> HIDE DEF z
  <2> QED BY <1>3
<1>5. u * c + r = u * a + p + (u * b + q)
  BY <1>1, <1>2, <1>4
<1> HIDE DEF a, b, c, p, q, r, z
<1>6. u * a \in Nat /\ u * b \in Nat /\ u * c \in Nat
  BY <1>1, <1>2, <1>4
<1>7. a + b <= c
  <2> SUFFICES ASSUME c + 1 <= a + b PROVE FALSE
    BY <1>1, <1>2, <1>4
  <2>1. u * (c + 1) <= u * (a + b) /\ u * (c + 1) = u * c + u /\ u * (a + b) = u * a + u * b
    BY <1>1, <1>2, <1>4
  <2> QED BY <1>1, <1>2, <1>4, <1>5, <1>6, <2>1
<1>8. ASSUME NEW k \in {0, 1}, q = 0 => k = 0, q # 0 => k = 1
      PROVE  c <= a + (b + k) /\ (b + k) * u < y + u
  <2>1. c <= a + (b + k)
    <3> SUFFICES ASSUME c >= a + b + k + 1 PROVE FALSE
      BY <1>1, <1>2, <1>4
    <3>1. u * c >= u * (a + b + k + 1)
      BY <1>1, <1>2, <1>4
    <3>2. u * (a + b + k + 1) = u * a + u * b + u * k + u
      BY <1>1, <1>2
    <3>3. u * 0 = 0 /\ u * 1 = u
      OBVIOUS
    <3> QED BY <1>1, <1>2, <1>4, <1>5, <1>6, <1>8, <3>1, <3>2, <3>3
  <2>2. (b + k) * u = u * b + u * k /\ u * 0 = 0 /\ u * 1 = u
    BY <1>2
  <2>3. (b + k) * u < y + u
    BY <1>2, <1>6, <1>8, <2>2
  <2> QED BY <2>1, <2>3
<1> DEFINE k == IF q # 0 THEN 1 ELSE 0
<1>9. k \in {0, 1} /\ (q = 0 => k = 0) /\ (q # 0 => k = 1)
  OBVIOUS
<1>10. c <= a + (b + k) /\ (b + k) * u < y + u
  <2> HIDE DEF k
  <2> QED BY <1>8, <1>9
<1> QED
  BY <1>1, <1>2, <1>4, <1>7, <1>10 DEF a, b, c, z, q

\* For any outstanding amount, rate and pair of periods.
LEMMA InterestLemma ==
  ASSUME LinesInv
  PROVE  InterestSplits
<1> SUFFICES ASSUME NEW i \in DOMAIN clines, NEW rate \in FeeRates, NEW s \in 0..YearSecs, NEW t \in 0..YearSecs
             PROVE  LET p == OutstandingUtilization(i)
                        second(rounding) == MulDiv(p * rate, t, BpsUnit * YearSecs, rounding)
                        whole == AccruedInterest(p, rate, s + t)
                    IN  /\ AccruedInterest(p, rate, s) + second("Floor") <= whole
                        /\ whole <= AccruedInterest(p, rate, s) + second("Ceil")
                        /\ second("Ceil") * BpsUnit * YearSecs < p * rate * t + BpsUnit * YearSecs
  BY DEF InterestSplits
<1> DEFINE p == OutstandingUtilization(i)
           q == p * rate
           u == BpsUnit * YearSecs
           x == q * s
           y == q * t
           k == IF y % u # 0 THEN 1 ELSE 0
<1>1. p \in Nat /\ rate \in Nat /\ BpsUnit \in Nat \ {0} /\ YearSecs \in Nat \ {0} /\ s \in Nat /\ t \in Nat
  BY LinePositions, UnpaidTyped, OutstandingIsUnpaid, CosmAssumption
<1> HIDE DEF p
<1>2. q \in Nat /\ u \in Nat \ {0}
  BY <1>1
<1> HIDE DEF q, u
<1>3. x \in Nat /\ y \in Nat /\ q * (s + t) = x + y
  BY <1>1, <1>2
<1> HIDE DEF x, y
<1>4. /\ x \div u + y \div u <= (x + y) \div u
      /\ (x + y) \div u <= x \div u + (y \div u + k)
      /\ (y \div u + k) * u < y + u
      /\ x \div u \in Nat /\ y \div u \in Nat
  BY <1>2, <1>3, QuotientSplits
<1>5. AccruedInterest(p, rate, s) = x \div u /\ AccruedInterest(p, rate, s + t) = (x + y) \div u
  BY <1>3 DEF AccruedInterest, x, u, q
<1>6. MulDiv(q, t, u, "Ceil") = y \div u + k
  BY DEF MulDiv, y
<1>7. MulDiv(q, t, u, "Floor") = y \div u
  BY <1>4 DEF MulDiv, y
<1>8. (y \div u + k) * BpsUnit * YearSecs = (y \div u + k) * u
  <2> DEFINE m == y \div u + k
  <2>1. m \in Nat
    BY <1>4
  <2> HIDE DEF m
  <2>2. m * BpsUnit * YearSecs = m * (BpsUnit * YearSecs)
    BY <1>1, <2>1
  <2> QED BY <2>2 DEF m, u
<1>9. /\ AccruedInterest(p, rate, s) + MulDiv(q, t, u, "Floor") <= AccruedInterest(p, rate, s + t)
      /\ AccruedInterest(p, rate, s + t) <= AccruedInterest(p, rate, s) + MulDiv(q, t, u, "Ceil")
      /\ MulDiv(q, t, u, "Ceil") * BpsUnit * YearSecs < y + u
  BY <1>4, <1>5, <1>6, <1>7, <1>8
<1> QED BY <1>9 DEF p, q, u, y
-----------------------------------------------------------------------------
(* creditra-credit: a reader of the audit trail *)

PageEntry == [draw_id : Nat, repaid : BOOLEAN, events : Seq(DrawAuditEntry)]

\* What PagesFaithful says of the k-th entry a reader has.
PageOK(p, k, ds, au) ==
  /\ p.draw_id = k /\ k \in 1..Len(ds)
  /\ p.repaid => ds[k].repaid
  /\ IsPrefix(p.events, au[k])

PagesInv ==
  /\ pages \in Seq(PageEntry)
  /\ Len(pages) >= 1 => Len(clines) >= 1
  /\ \A k \in 1..Len(pages) : PageOK(pages[k], k, draws[1], audit[1])

\* The draws `es' and trails `bu' continue `ds' and `au': nothing is taken back.
Continues(ds, au, es, bu) ==
  /\ Len(ds) <= Len(es)
  /\ \A k \in 1..Len(ds) :
       /\ ds[k].repaid => es[k].repaid
       /\ bu[k] = au[k] \/ \E e \in DrawAuditEntry : bu[k] = Append(au[k], e)

\* A sequence is a prefix of itself.
LEMMA PrefixSelf ==
  ASSUME NEW S, NEW s \in Seq(S)
  PROVE  IsPrefix(s, s)
BY LenProperties DEF IsPrefix

\* A prefix stays one when an element is appended.
LEMMA PrefixAppend ==
  ASSUME NEW S, NEW s \in Seq(S), NEW t \in Seq(S), NEW e \in S, IsPrefix(s, t)
  PROVE  IsPrefix(s, Append(t, e))
<1> DEFINE n == Len(s)
           u == Append(t, e)
<1>1. n \in Nat /\ Len(t) \in Nat /\ n <= Len(t)
  BY LenProperties DEF IsPrefix
<1>2. u \in Seq(S) /\ Len(u) = Len(t) + 1 /\ \A i \in 1..Len(t) : u[i] = t[i]
  BY AppendProperties
<1>3. SubSeq(u, 1, n) = SubSeq(t, 1, n)
  <2> HIDE DEF n, u
  <2>1. /\ SubSeq(u, 1, n) = [i \in 1..n |-> u[i]]
        /\ SubSeq(t, 1, n) = [i \in 1..n |-> t[i]]
    BY <1>1, <1>2, SubSeqRestrict
  <2> QED BY <1>1, <1>2, <2>1
<1> QED BY <1>1, <1>2, <1>3 DEF IsPrefix

\* What a reader has stays true of a line that continues.
LEMMA PageStays ==
  ASSUME NEW p \in PageEntry, NEW k, NEW ds \in Seq(Draw), NEW au \in Seq(Seq(DrawAuditEntry)),
         Len(au) = Len(ds), NEW es \in Seq(Draw), NEW bu, Continues(ds, au, es, bu), PageOK(p, k, ds, au)
  PROVE  PageOK(p, k, es, bu)
<1>1. k \in 1..Len(ds) /\ Len(ds) \in Nat /\ Len(es) \in Nat /\ p.draw_id = k /\ IsPrefix(p.events, au[k])
  BY LenProperties DEF PageOK
<1>2. k \in 1..Len(es)
  BY <1>1 DEF Continues
<1>3. p.repaid => es[k].repaid
  BY <1>1 DEF PageOK, Continues
<1>4. au[k] \in Seq(DrawAuditEntry) /\ p.events \in Seq(DrawAuditEntry)
  BY <1>1, ElementOfSeq DEF PageEntry
<1>5. IsPrefix(p.events, bu[k])
  <2>1. CASE bu[k] = au[k]
    BY <1>1, <2>1
  <2>2. ASSUME NEW e \in DrawAuditEntry, bu[k] = Append(au[k], e)
        PROVE  IsPrefix(p.events, bu[k])
    BY <1>1, <1>4, <2>2, PrefixAppend
  <2> QED BY <1>1, <2>1, <2>2 DEF Continues
<1> QED BY <1>1, <1>2, <1>3, <1>5 DEF PageOK

\* Every call of the ledger continues the first line.
LEMMA FirstLineContinues ==
  ASSUME LinesInv, LedgerNext, Len(clines) >= 1
  PROVE  Continues(draws[1], audit[1], draws'[1], audit'[1])
<1>1. /\ 1 \in 1..Len(clines) /\ draws[1] \in Seq(Draw) /\ Len(draws[1]) \in Nat
      /\ audit[1] \in Seq(Seq(DrawAuditEntry)) /\ DOMAIN audit[1] = 1..Len(draws[1])
      /\ Len(audit[1]) = Len(draws[1])
  <2>1. 1 \in 1..Len(clines)
    BY LinePositions
  <2> QED BY <2>1, LinePositions, LenProperties DEF LinesInv, LineOK
<1>2. ASSUME draws'[1] = draws[1], audit'[1] = audit[1]
      PROVE  Continues(draws[1], audit[1], draws'[1], audit'[1])
  BY <1>1, <1>2 DEF Continues
<1>3. ASSUME NEW b, NEW t, CreateCreditLine(b, t)
      PROVE  draws'[1] = draws[1] /\ audit'[1] = audit[1]
  <2>1. draws' = Append(draws, << >>) /\ audit' = Append(audit, << >>)
    BY <1>3 DEF CreateCreditLine
  <2>2. /\ draws \in Seq(Seq(Draw)) /\ 1 \in 1..Len(draws) /\ << >> \in Seq(Draw)
        /\ audit \in Seq(Seq(Seq(DrawAuditEntry))) /\ 1 \in 1..Len(audit)
        /\ << >> \in Seq(Seq(DrawAuditEntry))
    BY <1>1, EmptySeq DEF LinesInv
  <2> QED BY <2>1, <2>2, AppendProperties
<1>4. /\ draws \in Seq(Seq(Draw)) /\ 1 \in DOMAIN draws
      /\ audit \in Seq(Seq(Seq(DrawAuditEntry))) /\ 1 \in DOMAIN audit
  BY <1>1, LenProperties DEF LinesInv
<1>5. ASSUME NEW b, NEW i, NEW a, NEW d, CreateDraw(b, i, a, d), i # 1
      PROVE  draws'[1] = draws[1] /\ audit'[1] = audit[1]
  BY <1>4, <1>5 DEF CreateDraw
<1>6. ASSUME NEW b \in Clients, NEW a \in DrawAmounts, NEW d \in Denoms, CreateDraw(b, 1, a, d)
      PROVE  Continues(draws[1], audit[1], draws'[1], audit'[1])
  <2> DEFINE w == [amount |-> a, denom |-> d, drawn_by |-> b, repaid |-> FALSE]
             e == Entry("DrawCreated", b)
  <2>1. w \in Draw /\ e \in DrawAuditEntry
    BY <1>6, CosmAssumption, EntryTyped DEF CreateDraw, Draw, LinesInv
  <2>2. draws'[1] = Append(draws[1], w) /\ audit'[1] = Append(audit[1], <<e>>)
    BY <1>4, <1>6 DEF CreateDraw
  <2> HIDE DEF w, e
  <2>3. <<e>> \in Seq(DrawAuditEntry)
    BY <2>1
  <2>4. /\ Len(draws'[1]) = Len(draws[1]) + 1 /\ \A k \in 1..Len(draws[1]) : draws'[1][k] = draws[1][k]
    BY <1>1, <2>1, <2>2, AppendProperties
  <2>5. \A k \in 1..Len(draws[1]) : audit'[1][k] = audit[1][k]
    BY <1>1, <2>2, <2>3, AppendProperties
  <2> DEFINE ds == draws[1]
             au == audit[1]
             es == draws'[1]
             bu == audit'[1]
  <2>6. /\ Len(ds) \in Nat /\ Len(es) = Len(ds) + 1
        /\ \A k \in 1..Len(ds) : es[k] = ds[k] /\ bu[k] = au[k]
    BY <1>1, <2>4, <2>5
  <2> HIDE DEF ds, au, es, bu
  <2>7. Continues(ds, au, es, bu)
    BY <2>6 DEF Continues
  <2> QED BY <2>7 DEF ds, au, es, bu
<1>7. ASSUME NEW b, NEW i, NEW j, RepayDraw(b, i, j) \/ AddAuditMemo(i, j), i # 1
      PROVE  draws'[1] = draws[1] /\ audit'[1] = audit[1]
  BY <1>4, <1>7 DEF RepayDraw, AddAuditMemo, AppendAuditEntry
<1>8. ASSUME NEW b, NEW j \in DOMAIN draws[1],
             (b \in Clients /\ RepayDraw(b, 1, j)) \/ AddAuditMemo(1, j)
      PROVE  Continues(draws[1], audit[1], draws'[1], audit'[1])
  <2>1. PICK e \in DrawAuditEntry : audit'[1] = [audit[1] EXCEPT ![j] = Append(audit[1][j], e)]
    <3>1. /\ b \in Clients => Entry("Repaid", b) \in DrawAuditEntry
          /\ Entry("MemoAdded", "owner") \in DrawAuditEntry
      BY EntryTyped DEF LinesInv
    <3> QED BY <1>4, <1>8, <3>1 DEF RepayDraw, AddAuditMemo, AppendAuditEntry
  <2>2. \A k \in 1..Len(draws[1]) : audit'[1][k] = audit[1][k] \/ audit'[1][k] = Append(audit[1][k], e)
    BY <1>1, <2>1
  <2>3. /\ Len(draws'[1]) = Len(draws[1])
        /\ \A k \in 1..Len(draws[1]) : draws[1][k].repaid => draws'[1][k].repaid
    <3>1. CASE AddAuditMemo(1, j)
      BY <3>1 DEF AddAuditMemo
    <3>2. CASE RepayDraw(b, 1, j)
      <4> DEFINE w == [draws[1][j] EXCEPT !.repaid = TRUE]
      <4>1. j \in 1..Len(draws[1]) /\ draws[1][j] \in Draw
        BY <1>1, <1>8, LinePositions
      <4>2. w \in Draw /\ w.repaid
        BY <4>1, RepaidDraw
      <4>3. draws'[1] = [draws[1] EXCEPT ![j] = w]
        BY <1>4, <3>2 DEF RepayDraw
      <4> HIDE DEF w
      <4>4. /\ Len(draws'[1]) = Len(draws[1]) /\ draws'[1][j] = w
            /\ \A k \in 1..Len(draws[1]) : k # j => draws'[1][k] = draws[1][k]
        BY <1>1, <4>1, <4>2, <4>3, ExceptSeq
      <4> QED BY <4>2, <4>4
    <3> QED BY <1>8, <3>1, <3>2
  <2> DEFINE ds == draws[1]
             au == audit[1]
             es == draws'[1]
             bu == audit'[1]
  <2>4. /\ Len(ds) \in Nat /\ Len(es) = Len(ds)
        /\ \A k \in 1..Len(ds) : ds[k].repaid => es[k].repaid
        /\ \A k \in 1..Len(ds) : bu[k] = au[k] \/ bu[k] = Append(au[k], e)
    BY <1>1, <2>2, <2>3, LenProperties
  <2> HIDE DEF ds, au, es, bu
  <2>5. \A k \in 1..Len(ds) : bu[k] = au[k] \/ \E f \in DrawAuditEntry : bu[k] = Append(au[k], f)
    BY <2>4
  <2>6. Continues(ds, au, es, bu)
    BY <2>4, <2>5 DEF Continues
  <2> QED BY <2>6 DEF ds, au, es, bu
<1> QED
  <2>1. ASSUME NEW b \in Clients, NEW i \in DOMAIN clines, NEW a \in DrawAmounts, NEW d \in Denoms,
               CreateDraw(b, i, a, d)
        PROVE  Continues(draws[1], audit[1], draws'[1], audit'[1])
    <3>1. CASE i = 1
      BY <1>6, <2>1, <3>1
    <3>2. CASE i # 1
      BY <1>2, <1>5, <2>1, <3>2
    <3> QED BY <3>1, <3>2
  <2>2. ASSUME NEW b, NEW i \in DOMAIN clines, NEW j \in DOMAIN draws[i],
               (b \in Clients /\ RepayDraw(b, i, j)) \/ AddAuditMemo(i, j)
        PROVE  Continues(draws[1], audit[1], draws'[1], audit'[1])
    <3>1. CASE i = 1
      BY <1>8, <2>2, <3>1
    <3>2. CASE i # 1
      BY <1>2, <1>7, <2>2, <3>2
    <3> QED BY <3>1, <3>2
  <2> QED
    BY <1>2, <1>3, <2>1, <2>2 DEF LedgerNext

\* A page is what the line holds beyond the last draw the reader has, and no more.
LEMMA PageFacts ==
  ASSUME LinesInv, PagesInv, Len(clines) >= 1, NEW limit \in Nat
  PROVE  LET n == Len(pages)
             page == DrawAuditTrail(1, n, limit)
         IN  \E m \in Nat :
               /\ page \in Seq(PageEntry) /\ Len(page) = m /\ n + m <= Len(draws[1])
               /\ \A k \in 1..m : page[k] = BuildResponse(1, n + k)
<1> DEFINE n == Len(pages)
           L == Len(draws[1])
           page == DrawAuditTrail(1, n, limit)
           m == IF n + limit < L THEN limit ELSE L - n
<1>1. /\ 1 \in 1..Len(clines) /\ LineOK(clines[1], draws[1], audit[1], now)
      /\ \A k \in 1..L : draws[1][k] \in Draw
  <2>1. 1 \in 1..Len(clines)
    BY LinePositions
  <2> QED BY <2>1, LinePositions DEF LinesInv
<1>2. L \in Nat /\ n \in Nat
  BY <1>1, LenProperties DEF LineOK, PagesInv
<1>3. n <= L
  <2>1. CASE n = 0
    BY <1>2, <2>1
  <2>2. CASE n >= 1
    <3>1. n \in 1..n
      BY <1>2, <2>2
    <3>2. PageOK(pages[n], n, draws[1], audit[1])
      BY <3>1 DEF PagesInv
    <3> QED BY <1>2, <3>2 DEF PageOK
  <2> QED BY <1>2, <2>1, <2>2
<1>4. m \in Nat /\ n + m <= L
  <2> HIDE DEF n, L
  <2> QED BY <1>2, <1>3
<1>5. page = [k \in 1..m |-> BuildResponse(1, n + k)]
  <2>1. ASSUME NEW k \in 1..m
        PROVE  (n + 1) + k - 1 = n + k
    <3> HIDE DEF n, m
    <3> QED BY <1>2, <1>4, <2>1
  <2>2. (IF n + 1 + limit - 1 < L THEN n + 1 + limit - 1 ELSE L) - (n + 1) + 1 = m
    <3> HIDE DEF n, L
    <3> QED BY <1>2
  <2> QED BY <2>1, <2>2 DEF DrawAuditTrail
<1> HIDE DEF m, page
<1>6. ASSUME NEW k \in 1..m
      PROVE  BuildResponse(1, n + k) \in PageEntry
  <2> DEFINE j == n + k
  <2>1. j \in 1..L /\ j \in Nat
    <3> HIDE DEF n, L
    <3> QED BY <1>2, <1>4, <1>6
  <2> HIDE DEF j
  <2>2. draws[1][j] \in Draw /\ \A w \in Draw : w.repaid \in BOOLEAN
    BY <1>1, <2>1 DEF Draw
  <2>3. draws[1][j].repaid \in BOOLEAN
    BY <2>2, Zenon
  <2>4. audit[1][j] \in Seq(DrawAuditEntry)
    BY <1>1, <2>1 DEF LineOK, TrailOK
  <2>5. BuildResponse(1, j) \in PageEntry
    BY <2>1, <2>3, <2>4, Zenon DEF BuildResponse, PageEntry
  <2> QED BY <2>5 DEF j
<1>7. page \in [1..m -> PageEntry]
  BY <1>5, <1>6
<1>8. page \in Seq(PageEntry) /\ Len(page) = m
  <2>1. page \in Seq(PageEntry)
    BY <1>4, <1>7, SeqDef
  <2>2. DOMAIN page = 1..m /\ DOMAIN page = 1..Len(page) /\ Len(page) \in Nat
    BY <1>7, <2>1, LenProperties
  <2> QED BY <1>4, <2>1, <2>2
<1>9. \A k \in 1..m : page[k] = BuildResponse(1, n + k)
  BY <1>5
<1>10. \E o \in Nat : /\ page \in Seq(PageEntry) /\ Len(page) = o /\ n + o <= L
                      /\ \A k \in 1..o : page[k] = BuildResponse(1, n + k)
  BY <1>4, <1>8, <1>9
<1> QED BY <1>10 DEF page

\* The reader's next page.
LEMMA ReadPageKeeps ==
  ASSUME LinesInv, PagesInv, NEW limit \in PageLimits, ReadPage(limit)
  PROVE  PagesInv'
<1> DEFINE n == Len(pages)
           page == DrawAuditTrail(1, n, limit)
<1>1. Len(clines) >= 1 /\ limit \in Nat /\ n \in Nat /\ pages \in Seq(PageEntry)
  <2>1. clines # << >> /\ clines \in Seq(CreditLine)
    BY DEF ReadPage, LinesInv
  <2>2. Len(clines) \in Nat \ {0}
    BY <2>1, EmptySeq
  <2> QED BY <2>2, LenProperties, CosmAssumption DEF PagesInv
<1>2. (IF pages = << >> THEN 0 ELSE Last(pages).draw_id) = n
  <2>1. CASE pages = << >>
    BY <2>1, EmptySeq
  <2>2. CASE pages # << >>
    <3>1. n \in Nat \ {0}
      BY <1>1, <2>2, EmptySeq
    <3>2. PageOK(pages[n], n, draws[1], audit[1])
      BY <3>1 DEF PagesInv
    <3> QED BY <2>2, <3>2 DEF PageOK, Last
  <2> QED BY <2>1, <2>2
<1>3. pages' = pages \o page /\ UNCHANGED <<clines, draws, audit>>
  BY <1>2 DEF ReadPage, ledgerVars
<1>4. PICK m \in Nat : /\ page \in Seq(PageEntry) /\ Len(page) = m /\ n + m <= Len(draws[1])
                       /\ \A k \in 1..m : page[k] = BuildResponse(1, n + k)
  BY <1>1, PageFacts
<1>5. /\ pages' \in Seq(PageEntry) /\ Len(pages') = n + m
      /\ \A k \in 1..(n + m) : pages'[k] = IF k <= n THEN pages[k] ELSE page[k - n]
  <2> HIDE DEF page
  <2>1. pages \in Seq(PageEntry) /\ page \in Seq(PageEntry)
    BY <1>1, <1>4
  <2>2. /\ pages \o page \in Seq(PageEntry) /\ Len(pages \o page) = Len(pages) + Len(page)
        /\ \A k \in 1..(Len(pages) + Len(page)) :
             (pages \o page)[k] = IF k <= Len(pages) THEN pages[k] ELSE page[k - Len(pages)]
    BY <2>1, ConcatProperties, Zenon
  <2> QED BY <1>3, <1>4, <2>2
<1>6. ASSUME NEW k \in 1..(n + m)
      PROVE  PageOK(pages'[k], k, draws[1], audit[1])
  <2>1. CASE k <= n
    <3>1. k \in 1..n /\ pages'[k] = pages[k]
      BY <1>1, <1>5, <1>6, <2>1
    <3> QED BY <3>1 DEF PagesInv
  <2>2. CASE k > n
    <3>1. k - n \in 1..m /\ k = n + (k - n) /\ k \in 1..Len(draws[1])
      <4>1. Len(draws[1]) \in Nat
        BY <1>1, LinePositions, LenProperties
      <4> HIDE DEF n
      <4> QED BY <1>1, <1>4, <1>6, <2>2, <4>1
    <3> DEFINE j == k - n
    <3>2. j \in 1..m /\ k = n + j /\ ~(k <= n)
      BY <1>1, <1>6, <2>2, <3>1
    <3>5. pages'[k] = page[j]
      BY <1>5, <1>6, <3>2
    <3>6. page[j] = BuildResponse(1, n + j)
      <4> HIDE DEF j, page, n
      <4> QED BY <1>4, <3>2
    <3>3. pages'[k] = BuildResponse(1, k)
      BY <3>2, <3>5, <3>6
    <3>4. IsPrefix(audit[1][k], audit[1][k])
      <4>1. LineOK(clines[1], draws[1], audit[1], now)
        BY <1>1, LinePositions DEF LinesInv
      <4>2. audit[1][k] \in Seq(DrawAuditEntry)
        BY <3>1, <4>1 DEF LineOK, TrailOK
      <4> QED BY <4>2, PrefixSelf
    <3> QED BY <3>1, <3>3, <3>4 DEF PageOK, BuildResponse
  <2> QED BY <1>1, <1>6, <2>1, <2>2
<1> QED BY <1>1, <1>3, <1>5, <1>6 DEF PagesInv

\* Every call of every contract keeps what the reader has true.
LEMMA PagesKept ==
  ASSUME LinesInv, PagesInv, [BesideNext]_besideVars
  PROVE  PagesInv'
<1>1. ASSUME LedgerNext, UNCHANGED pages
      PROVE  PagesInv'
  <2>0. LinesInv' /\ Len(pages) \in Nat
    BY LinesKept, LenProperties DEF PagesInv
  <2>1. CASE Len(pages) = 0
    BY <1>1, <2>0, <2>1 DEF PagesInv
  <2>2. CASE Len(pages) >= 1
    <3>1. Len(clines) >= 1
      BY <2>2 DEF PagesInv
    <3>2. Continues(draws[1], audit[1], draws'[1], audit'[1])
      BY <1>1, <3>1, FirstLineContinues
    <3>3. Len(clines') >= 1
      <4>1. CASE UNCHANGED clines
        BY <3>1, <4>1
      <4>2. ASSUME NEW b \in Clients, NEW t \in LineTerms, CreateCreditLine(b, t)
            PROVE  Len(clines') >= 1
        <5>1. clines \in Seq(CreditLine) /\ [borrower |-> b, terms |-> t, active |-> TRUE] \in CreditLine
          BY DEF LinesInv, CreditLine
        <5>2. clines' = Append(clines, [borrower |-> b, terms |-> t, active |-> TRUE])
          BY <4>2 DEF CreateCreditLine
        <5>3. Len(clines') = Len(clines) + 1 /\ Len(clines) \in Nat
          BY <5>1, <5>2, AppendProperties, LenProperties
        <5> QED BY <5>3
      <4> QED BY <1>1, <4>1, <4>2 DEF LedgerNext, CreateDraw, RepayDraw, AddAuditMemo
    <3>4. 1 \in 1..Len(clines) /\ 1 \in 1..Len(clines')
      BY <2>0, <3>1, <3>3, LinePositions, LenProperties DEF LinesInv
    <3>5. LineOK(clines[1], draws[1], audit[1], now) /\ LineOK(clines'[1], draws'[1], audit'[1], now')
      BY <2>0, <3>4 DEF LinesInv
    <3>6. ASSUME NEW k \in 1..Len(pages)
          PROVE  PageOK(pages[k], k, draws'[1], audit'[1])
      <4>1. pages[k] \in PageEntry /\ PageOK(pages[k], k, draws[1], audit[1])
        BY <3>6, ElementOfSeq DEF PagesInv
      <4>2. /\ draws[1] \in Seq(Draw) /\ audit[1] \in Seq(Seq(DrawAuditEntry))
            /\ Len(audit[1]) = Len(draws[1]) /\ draws'[1] \in Seq(Draw)
        BY <3>5 DEF LineOK
      <4> QED BY <3>2, <4>1, <4>2, PageStays
    <3> QED BY <1>1, <3>3, <3>6 DEF PagesInv
  <2> QED BY <2>0, <2>1, <2>2
<1>2. ASSUME ReaderNext
      PROVE  PagesInv'
  BY <1>2, ReadPageKeeps DEF ReaderNext
<1>3. ASSUME UNCHANGED <<clines, draws, audit, pages>>
      PROVE  PagesInv'
  BY <1>3 DEF PagesInv
<1>4. LedgerNext => UNCHANGED pages
  BY DEF LedgerNext, CreateCreditLine, CreateDraw, RepayDraw, AddAuditMemo
<1>5. ASSUME FeeNext \/ CollateralNext
      PROVE  UNCHANGED <<clines, draws, audit, pages>>
  BY <1>5 DEF FeeNext, SetProtocolFeeBps, WithdrawTreasury, CollateralNext,
       DepositCollateral, WithdrawCollateral, AddCollateralToken, RemoveCollateralToken,
       SetCollateralRiskWeight, ledgerVars
<1>6. UNCHANGED cosmVars => UNCHANGED <<clines, draws, audit, pages>>
  BY DEF cosmVars, ledgerVars
<1> QED
  BY <1>1, <1>2, <1>3, <1>4, <1>5, <1>6 DEF BesideNext, CosmCall, EscrowCall, CrowdCall, besideVars

\* The ledger of creditra-credit is sound for any lines, rates, bounds and readers: draws stay
\* within the credit, the audit trail tells what happened, every fee is on a balance until it
\* is withdrawn, splitting a period loses at most a rounding, and a reader who pages through
\* the trail while it grows is never told more than is true.
THEOREM LedgerOfRecord == BesideSpec => []CosmLedgerSound
<1> DEFINE Inv == LinesInv /\ FeesInv /\ DepositsInv /\ PagesInv
<1>1. BesideInit => Inv
  <2> SUFFICES ASSUME BesideInit PROVE Inv
    OBVIOUS
  <2>1. LinesInv
    BY LinesStart
  <2>2. FeesInv
    BY CosmAssumption DEF BesideInit, CosmInit, FeesInv, FeesConserved
  <2>3. DepositsInv
    <3>1. weights = << >> /\ balances = [c \in Clients |-> [d \in Denoms |-> 0]]
      BY DEF BesideInit, CosmInit
    <3>2. << >> \in [DOMAIN << >> -> 0..BpsUnit]
      OBVIOUS
    <3> QED BY <3>1, <3>2 DEF DepositsInv
  <2>4. PagesInv
    <3>1. pages = << >> /\ << >> \in Seq(PageEntry) /\ Len(<< >>) = 0
      BY EmptySeq DEF BesideInit, CosmInit
    <3> QED BY <3>1 DEF PagesInv
  <2> QED BY <2>1, <2>2, <2>3, <2>4
<1>2. Inv /\ [BesideNext]_besideVars => Inv'
  BY LinesKept, FeesKept, DepositsKept, PagesKept
<1>3. Inv => CosmLedgerSound
  <2> SUFFICES ASSUME Inv PROVE CosmLedgerSound
    OBVIOUS
  <2>1. CosmTypeOK
    <3>1. ASSUME NEW i \in DOMAIN clines
          PROVE  draws[i] \in Seq(Draw) /\ \A j \in DOMAIN audit[i] : audit[i][j] \in Seq(DrawAuditEntry)
      <4>1. audit[i] \in Seq(Seq(DrawAuditEntry)) /\ draws[i] \in Seq(Draw)
        BY <3>1, LinePositions
      <4> QED BY <4>1, LenProperties
    <3>2. clines \in Seq(CreditLine)
      BY DEF LinesInv
    <3>3. /\ fees \in [bps : 0..MaxFeeBps, treasury : [Denoms -> Nat], bounty : [Denoms -> Nat]]
          /\ \A d \in DOMAIN weights : weights[d] \in 0..BpsUnit
          /\ balances \in [Clients -> [Denoms -> Nat]]
      BY DEF FeesInv, DepositsInv
    <3> QED BY <3>1, <3>2, <3>3 DEF CosmTypeOK
  <2>2. CosmWithinCredit /\ AuditTrailAgrees /\ InterestSplits /\ FeesConserved
    BY LinesSuffice, InterestLemma DEF FeesInv
  <2>3. PagesFaithful
    <3>1. DOMAIN pages = 1..Len(pages) /\ Len(pages) \in Nat
      BY LenProperties DEF PagesInv
    <3>2. ASSUME NEW k \in DOMAIN pages
          PROVE  /\ pages[k].draw_id = k /\ k \in DOMAIN draws[1]
                 /\ pages[k].repaid => draws[1][k].repaid
                 /\ IsPrefix(pages[k].events, audit[1][k])
      <4>1. k \in 1..Len(pages) /\ Len(pages) >= 1
        BY <3>1, <3>2
      <4>2. 1 \in 1..Len(clines)
        BY <4>1, LinePositions DEF PagesInv
      <4>3. PageOK(pages[k], k, draws[1], audit[1]) /\ DOMAIN draws[1] = 1..Len(draws[1])
        BY <4>1, <4>2, LinePositions DEF PagesInv
      <4> QED BY <4>3 DEF PageOK
    <3> QED BY <3>2 DEF PagesFaithful
  <2> QED BY <2>1, <2>2, <2>3 DEF CosmLedgerSound
<1> QED
  BY <1>1, <1>2, <1>3, PTL DEF BesideSpec
=============================================================================
