----------------------------- MODULE Companions -----------------------------
(***************************************************************************)
(* Two small contracts beside the credit contract: the collateral contract *)
(* with its balances and their change of format, and the risk contract     *)
(* with its cooldown.                                                      *)
(***************************************************************************)
EXTENDS Host

CONSTANTS
  Users,         \* users of the collateral contract
  OldBalances,   \* balances stored in the old format
  Sums,          \* amounts of deposits and withdrawals, refused ones included
  TopBalance,    \* i128::MAX
  Keepers,       \* addresses that may be the admin of the risk contract
  RestTimes,     \* cooldowns in seconds, 0 for none
  Absent         \* None: nothing stored

ASSUME CompanionsAssumption ==
  /\ OldBalances \subseteq Int /\ Sums \subseteq Int /\ TopBalance \in Nat
  /\ RestTimes \subseteq Nat
  /\ Absent \notin Int \cup Keepers

VARIABLES
  legacy, versioned, \* Balance(user), VersionedBalance(user)
  books,             \* what each user should have: opening balance and movements (history)
  keeper, stopped,   \* the risk contract's admin and paused flag
  rest, last_ts,     \* rad_cool and rad_last, 0 for never
  recorded           \* when the latest action was really recorded (history)

balanceVars == <<legacy, versioned, books>>
keeperVars == <<keeper, stopped, rest, last_ts, recorded>>
companionVars == <<balanceVars, keeperVars>>

CompanionsInit ==
  /\ legacy \in [Users -> OldBalances \cup {Absent}]
  /\ versioned = [u \in Users |-> Absent]
  /\ books = [u \in Users |-> IF legacy[u] = Absent THEN 0 ELSE legacy[u]]
  /\ keeper = Absent /\ stopped = FALSE /\ rest = 0 /\ last_ts = 0 /\ recorded = Absent
-----------------------------------------------------------------------------
(* Collateral balances *)

\* Mutant: a balance in the old format counts until it is migrated, and is not removed then.
LoadBalanceOldFirst(u) ==
  IF legacy[u] # Absent THEN [amount |-> legacy[u], migrate |-> FALSE]
  ELSE [amount |-> IF versioned[u] # Absent THEN versioned[u] ELSE 0, migrate |-> FALSE]

\* load_balance: an entry in the old format is moved at the first access.
LoadBalance(u) ==
  CASE versioned[u] # Absent                       -> [amount |-> versioned[u], migrate |-> FALSE]
    [] versioned[u] = Absent /\ legacy[u] # Absent -> [amount |-> legacy[u], migrate |-> TRUE]
    [] OTHER                                       -> [amount |-> 0, migrate |-> FALSE]

\* store_balance, after a load: the migrated entry is written over at once.
StoreBalance(u, amount) ==
  /\ versioned' = [versioned EXCEPT ![u] = amount]
  /\ legacy' = IF LoadBalance(u).migrate THEN [legacy EXCEPT ![u] = Absent] ELSE legacy

InI128(n) == n <= TopBalance /\ n >= -TopBalance - 1

Deposit(u, amount) ==
  LET new == LoadBalance(u).amount + amount
  IN  /\ amount > 0
      /\ InI128(new)
      /\ StoreBalance(u, new)
      /\ books' = [books EXCEPT ![u] = books[u] + amount]

\* checked_sub refuses an overflow only: a balance may become negative.
Withdraw(u, amount) ==
  LET new == LoadBalance(u).amount - amount
  IN  /\ amount > 0
      /\ InI128(new)
      /\ StoreBalance(u, new)
      /\ books' = [books EXCEPT ![u] = books[u] - amount]
-----------------------------------------------------------------------------
(* The risk contract *)

\* init: whoever signs becomes the admin, also when there is one.
InitRisk(a) == keeper' = a /\ UNCHANGED <<stopped, rest, last_ts, recorded>>

SetPaused(on) ==
  /\ keeper # Absent
  /\ stopped' = on
  /\ UNCHANGED <<keeper, rest, last_ts, recorded>>

SetRiskAdminCooldown(seconds) ==
  /\ ~stopped /\ keeper # Absent
  /\ rest' = seconds
  /\ UNCHANGED <<keeper, stopped, last_ts, recorded>>

CooldownElapsed == rest > 0 /\ last_ts > 0 => now >= last_ts + rest

RecordRiskAdminAction ==
  /\ ~stopped /\ keeper # Absent
  /\ CooldownElapsed
  /\ last_ts' = now /\ recorded' = now
  /\ UNCHANGED <<keeper, stopped, rest>>

CompanionsNext ==
  \/ /\ \E u \in Users, amount \in Sums : Deposit(u, amount) \/ Withdraw(u, amount)
     /\ UNCHANGED <<now, keeperVars>>
  \/ /\ \/ \E a \in Keepers : InitRisk(a)
        \/ \E on \in BOOLEAN : SetPaused(on)
        \/ \E s \in RestTimes : SetRiskAdminCooldown(s)
        \/ RecordRiskAdminAction
     /\ UNCHANGED <<now, balanceVars>>
-----------------------------------------------------------------------------
\* Through the change of format a user's balance is the old one plus deposits less withdrawals.
BalancesCarriedOver == \A u \in Users : LoadBalance(u).amount = books[u]

\* load_balance moves an old entry at its first access: a balance is never stored twice.
StoredOnce == \A u \in Users : legacy[u] = Absent \/ versioned[u] = Absent

\* Two recorded risk actions under a cooldown are at least the cooldown of the second apart,
\* whatever happened to the admin, the pause and the cooldown in between.
RiskActionsSpaced ==
  [][recorded' # recorded /\ recorded # Absent /\ rest > 0
       => now >= recorded + rest]_<<now, companionVars>>

\* The two contracts beside the credit contract: no balance is lost in the move to the versioned
\* entry, and recorded risk actions keep the distance configured when they were made.
CompanionsSound == [](BalancesCarriedOver /\ StoredOnce) /\ RiskActionsSpaced
=============================================================================
