-------------------------------- MODULE Host --------------------------------
(***************************************************************************)
(* What the ledger host gives every contract of the repository: a clock    *)
(* that moves between invocations, and tokens that are conserved.  Both    *)
(* are external to the repository and modelled from their use.             *)
(***************************************************************************)
EXTENDS Integers

CONSTANT MaxTime  \* last timestamp of a behaviour
ASSUME MaxTimeAssumption == MaxTime \in Nat

VARIABLE now      \* ledger timestamp

Tick == now < MaxTime /\ now' = now + 1

\* A token transfer between two different accounts; the caller checks that it is covered.
Transfer(purse, from, to, amount) ==
  [purse EXCEPT ![from] = purse[from] - amount, ![to] = purse[to] + amount]

\* What `bps' basis points of an amount come to, rounded down as i128 division does.
Share(amount, bps, unit) == (amount * bps) \div unit
=============================================================================
