--------------------------- MODULE StatusMachine ----------------------------
(***************************************************************************)
(* What the credit contract promises about statuses, the table of edges in *)
(* docs/state-machine.md, section 1.3: each borrower's line moves along    *)
(* one edge at a time, entering Defaulted opens an auction and every exit  *)
(* from it ends one in the same step, and the fee terms stand still while  *)
(* an auction is pending.                                                  *)
(***************************************************************************)
EXTENDS Integers

CONSTANT Borrowers

VARIABLES
  status,    \* status of each borrower's line; "None" before the first
  auctions,  \* number of pending auctions
  fees       \* surcharge and late-fee terms

vars == <<status, auctions, fees>>

Suspended == {"Suspended", "SelfSuspended"}

Edges ==
       {"None", "Suspended", "SelfSuspended", "Defaulted", "Restricted", "Closed"} \X {"Active"}
  \cup {"Active"} \X (Suspended \cup {"Restricted"})
  \cup ({"Active", "Restricted"} \cup Suspended) \X {"Defaulted", "Closed"}
  \cup {"Defaulted"} \X {"Restricted", "Closed"}

Init ==
  /\ status = [b \in Borrowers |-> "None"]
  /\ auctions = 0
  /\ fees = <<0, 0, [kind |-> "None", value |-> 0]>>

Auctions(s) == IF s = "Defaulted" THEN 1 ELSE 0

\* One line moves along one edge.
Move(b, s) ==
  /\ <<status[b], s>> \in Edges
  /\ status' = [status EXCEPT ![b] = s]
  /\ auctions' = auctions + Auctions(s) - Auctions(status[b])
  /\ UNCHANGED fees

\* The fee terms change, to anything, between auctions.
ChangeFees ==
  /\ auctions = 0
  /\ UNCHANGED <<status, auctions>>

Next == ChangeFees \/ \E b \in Borrowers, s \in {e[2] : e \in Edges} : Move(b, s)

Spec == Init /\ [][Next]_vars
=============================================================================
