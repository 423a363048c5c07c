---------------------------- MODULE SumTheorems ----------------------------
(***************************************************************************)
(* What SumFunction computes.  The aggregates of the credit contract, the  *)
(* vault and the auction (TotalUtilized, TotalCollateral, the escrow) are  *)
(* compared with sums over all borrowers or bidders, which the models write*)
(* with the fold of the community modules.  The lemmas below unfold that   *)
(* fold once and then give the laws of finite sums the proofs cite.        *)
(*                                                                         *)
(* The induction is on finite sets, by least counterexample: the sets for  *)
(* which a law fails, if there are any, have a member that is minimal for  *)
(* inclusion, and one step of the fold from it is a contradiction.         *)
(***************************************************************************)
EXTENDS Integers, FiniteSets, Functions, FiniteSetTheorems, TLAPS

\* The element the fold takes out of a set.
Picked(t) == CHOOSE x \in t : TRUE

\* h holds the sum of f over each subset of s, by the recursion of the fold.
Tabulates(h, f, s) ==
  h = [t \in SUBSET s |-> IF t = {} THEN 0 ELSE f[Picked(t)] + h[t \ {Picked(t)}]]

Table(f, s) == CHOOSE h : Tabulates(h, f, s)

\* A family of subsets of a finite set has a member that is minimal for inclusion.
LEMMA MinimalMember ==
  ASSUME NEW S, IsFiniteSet(S), NEW T, T \subseteq SUBSET S, T # {}
  PROVE  \E x \in T : \A y \in T : y \subseteq x => y = x
<1>1. IsWellFoundedOn(StrictSubsetOrdering(S), FiniteSubsetsOf(S))
  BY FS_StrictSubsetOrderingWellFounded
<1>2. FiniteSubsetsOf(S) = SUBSET S
  BY FS_FiniteSubsetsOfFinite
<1>3. PICK x \in T : \A y \in T : ~(<<y, x>> \in StrictSubsetOrdering(S))
  BY <1>1, <1>2, WFMin
<1>4. ASSUME NEW y \in T, y \subseteq x, y # x
      PROVE  FALSE
  <2>1. <<y, x>> \in (SUBSET S) \X (SUBSET S)
    OBVIOUS
  <2>2. <<y, x>>[1] = y /\ <<y, x>>[2] = x
    OBVIOUS
  <2>3. <<y, x>> \in StrictSubsetOrdering(S)
    BY <2>1, <2>2, <1>4 DEF StrictSubsetOrdering
  <2> QED BY <2>3, <1>3
<1> QED BY <1>4

\* The fold is the entry of the table at the whole set.
LEMMA SumIsTable ==
  ASSUME NEW f, NEW s
  PROVE  SumFunctionOnSet(f, s) = Table(f, s)[s]
BY DEF SumFunctionOnSet, FoldFunctionOnSet, MapThenFoldSet, Table, Tabulates, Picked

\* The element taken out is a member.
LEMMA PickedMember ==
  ASSUME NEW t, t # {}
  PROVE  Picked(t) \in t
BY DEF Picked

\* The entries of a table.
LEMMA TableEntries ==
  ASSUME NEW h, NEW f, NEW s, Tabulates(h, f, s), NEW t \in SUBSET s
  PROVE  h[t] = IF t = {} THEN 0 ELSE f[Picked(t)] + h[t \ {Picked(t)}]
BY DEF Tabulates

\* Two tables of the same function agree wherever both are defined.
LEMMA TablesAgree ==
  ASSUME NEW f, NEW h, NEW k, NEW r, NEW s, IsFiniteSet(r),
         Tabulates(h, f, r), Tabulates(k, f, s), NEW t \in SUBSET r, t \in SUBSET s
  PROVE  h[t] = k[t]
<1> DEFINE T == {u \in SUBSET r : u \subseteq s /\ h[u] # k[u]}
<1> SUFFICES ASSUME h[t] # k[t] PROVE FALSE
  OBVIOUS
<1>1. T \subseteq SUBSET r /\ T # {}
  OBVIOUS
<1>2. PICK u \in T : \A y \in T : y \subseteq u => y = u
  <2> HIDE DEF T
  <2> QED BY <1>1, MinimalMember
<1>3. u \in SUBSET r /\ u \in SUBSET s /\ h[u] # k[u]
  BY <1>2
<1> DEFINE v == u \ {Picked(u)}
<1>4. u # {}
  BY <1>3, TableEntries
<1>5. v \subseteq u /\ v # u
  BY <1>4, PickedMember
<1>6. v \notin T
  BY <1>2, <1>5
<1>7. h[v] = k[v]
  BY <1>3, <1>5, <1>6
<1>8. h[u] = f[Picked(u)] + h[v]
  <2>1. h[u] = IF u = {} THEN 0 ELSE f[Picked(u)] + h[v]
    BY <1>3, TableEntries, ZenonT(60)
  <2> QED BY <1>4, <2>1
<1>9. k[u] = f[Picked(u)] + k[v]
  <2>1. k[u] = IF u = {} THEN 0 ELSE f[Picked(u)] + k[v]
    BY <1>3, TableEntries, ZenonT(60)
  <2> QED BY <1>4, <2>1
<1> QED BY <1>3, <1>7, <1>8, <1>9

\* Over a finite set the table exists.
LEMMA TableExists ==
  ASSUME NEW f, NEW S, IsFiniteSet(S)
  PROVE  Tabulates(Table(f, S), f, S)
<1> DEFINE T == {u \in SUBSET S : ~Tabulates(Table(f, u), f, u)}
<1> SUFFICES ASSUME ~Tabulates(Table(f, S), f, S) PROVE FALSE
  OBVIOUS
<1>1. T \subseteq SUBSET S /\ T # {}
  OBVIOUS
<1>2. PICK s \in T : \A y \in T : y \subseteq s => y = s
  <2> HIDE DEF T
  <2> QED BY <1>1, MinimalMember
<1>3. s \in SUBSET S /\ ~Tabulates(Table(f, s), f, s)
  BY <1>2
<1>4. \A u \in SUBSET s : u # s => Tabulates(Table(f, u), f, u)
  BY <1>2, <1>3
<1>5. \A u \in SUBSET s : IsFiniteSet(u)
  BY <1>3, FS_Subset
<1> HIDE DEF T
<1> DEFINE V(u) == Table(f, u)[u]
           g == [t \in SUBSET s |-> IF t = {} THEN 0 ELSE f[Picked(t)] + V(t \ {Picked(t)})]
<1>6. ASSUME NEW u \in SUBSET s, u # s
      PROVE  g[u] = V(u)
  <2>1. Tabulates(Table(f, u), f, u)
    BY <1>4, <1>6
  <2>2. CASE u = {}
    <3>1. V(u) = 0
      BY <2>1, <2>2, TableEntries
    <3> QED BY <3>1, <2>2
  <2>3. CASE u # {}
    <3> DEFINE w == u \ {Picked(u)}
    <3>1. w \in SUBSET s /\ w # s /\ w \in SUBSET u /\ w \in SUBSET w
      BY <2>3, PickedMember
    <3>2. Tabulates(Table(f, w), f, w)
      BY <3>1, <1>4
    <3>3. Table(f, u)[w] = Table(f, w)[w]
      <4> HIDE DEF w
      <4> QED BY <3>1, <3>2, <2>1, <1>5, TablesAgree
    <3>4. V(u) = f[Picked(u)] + Table(f, u)[w]
      BY <2>1, <2>3, TableEntries
    <3>5. g[u] = f[Picked(u)] + V(w)
      BY <2>3
    <3> QED BY <3>3, <3>4, <3>5
  <2> QED BY <2>2, <2>3
<1>7. \A t \in SUBSET s : t # {} => t \ {Picked(t)} \in SUBSET s /\ t \ {Picked(t)} # s
  BY PickedMember
<1>8. \A t \in SUBSET s : t # {} => g[t \ {Picked(t)}] = V(t \ {Picked(t)})
  <2> HIDE DEF g, V
  <2> QED BY <1>6, <1>7
<1>9. Tabulates(g, f, s)
  <2>1. g = [t \in SUBSET s |-> IF t = {} THEN 0 ELSE f[Picked(t)] + g[t \ {Picked(t)}]]
    <3> DEFINE G == g
    <3>1. \A t \in SUBSET s : t # {} => V(t \ {Picked(t)}) = G[t \ {Picked(t)}]
      BY <1>8
    <3>2. G = [t \in SUBSET s |-> IF t = {} THEN 0 ELSE f[Picked(t)] + V(t \ {Picked(t)})]
      OBVIOUS
    <3> HIDE DEF G, V
    <3>3. G = [t \in SUBSET s |-> IF t = {} THEN 0 ELSE f[Picked(t)] + G[t \ {Picked(t)}]]
      BY <3>1, <3>2
    <3> QED BY <3>3 DEF G
  <2> QED BY <2>1 DEF Tabulates
<1>10. Tabulates(Table(f, s), f, s)
  <2> HIDE DEF g
  <2> QED BY <1>9 DEF Table
<1> QED BY <1>3, <1>10
-----------------------------------------------------------------------------
(* The fold, one step at a time *)

\* The empty sum.
LEMMA SumEmpty ==
  ASSUME NEW f
  PROVE  SumFunctionOnSet(f, {}) = 0
<1>1. Tabulates(Table(f, {}), f, {})
  BY TableExists, FS_EmptySet
<1>2. Table(f, {})[{}] = 0
  BY <1>1, TableEntries
<1> QED BY <1>2, SumIsTable

\* One step of the fold.
LEMMA SumStep ==
  ASSUME NEW f, NEW s, IsFiniteSet(s), s # {}
  PROVE  SumFunctionOnSet(f, s) = f[Picked(s)] + SumFunctionOnSet(f, s \ {Picked(s)})
<1> DEFINE w == s \ {Picked(s)}
<1>1. Tabulates(Table(f, s), f, s)
  BY TableExists
<1>2. IsFiniteSet(w)
  BY FS_Subset, w \subseteq s
<1>3. Tabulates(Table(f, w), f, w)
  <2> HIDE DEF w
  <2> QED BY <1>2, TableExists
<1>4. Table(f, s)[s] = f[Picked(s)] + Table(f, s)[w]
  BY <1>1, TableEntries, s \in SUBSET s
<1>5. w \in SUBSET s /\ w \in SUBSET w
  OBVIOUS
<1>6. Table(f, s)[w] = Table(f, w)[w]
  <2> HIDE DEF w
  <2> QED BY <1>1, <1>3, <1>5, TablesAgree
<1>7. SumFunctionOnSet(f, s) = Table(f, s)[s] /\ SumFunctionOnSet(f, w) = Table(f, w)[w]
  BY SumIsTable
<1> QED BY <1>4, <1>6, <1>7

\* What is left of a finite set after one step.
LEMMA StepSmaller ==
  ASSUME NEW s, IsFiniteSet(s), s # {}
  PROVE  /\ Picked(s) \in s
         /\ s \ {Picked(s)} \subseteq s /\ s \ {Picked(s)} # s
         /\ IsFiniteSet(s \ {Picked(s)})
<1>1. Picked(s) \in s
  BY PickedMember
<1>2. IsFiniteSet(s \ {Picked(s)})
  BY FS_Subset, s \ {Picked(s)} \subseteq s
<1> QED BY <1>1, <1>2
-----------------------------------------------------------------------------
(* Laws of finite sums *)

\* A sum of integers is an integer.
LEMMA SumInt ==
  ASSUME NEW f, NEW S, IsFiniteSet(S), \A x \in S : f[x] \in Int
  PROVE  SumFunctionOnSet(f, S) \in Int
<1> DEFINE T == {u \in SUBSET S : SumFunctionOnSet(f, u) \notin Int}
<1> SUFFICES ASSUME SumFunctionOnSet(f, S) \notin Int PROVE FALSE
  OBVIOUS
<1>1. T \subseteq SUBSET S /\ T # {}
  OBVIOUS
<1>2. PICK s \in T : \A y \in T : y \subseteq s => y = s
  <2> HIDE DEF T
  <2> QED BY <1>1, MinimalMember
<1>3. s \subseteq S /\ IsFiniteSet(s) /\ SumFunctionOnSet(f, s) \notin Int
  BY <1>2, FS_Subset
<1>4. s # {}
  BY <1>3, SumEmpty
<1> DEFINE w == s \ {Picked(s)}
<1>5. Picked(s) \in S /\ w \subseteq s /\ w # s
  BY <1>3, <1>4, StepSmaller
<1>6. SumFunctionOnSet(f, w) \in Int
  BY <1>2, <1>3, <1>5
<1>7. SumFunctionOnSet(f, s) = f[Picked(s)] + SumFunctionOnSet(f, w)
  BY <1>3, <1>4, SumStep
<1>8. f[Picked(s)] \in Int
  BY <1>5
<1> QED BY <1>3, <1>6, <1>7, <1>8

\* Sums of functions where one is the sum of the other two on the set.
LEMMA SumAdds ==
  ASSUME NEW f, NEW g, NEW h, NEW S, IsFiniteSet(S),
         \A x \in S : f[x] \in Int /\ g[x] \in Int /\ h[x] = f[x] + g[x]
  PROVE  SumFunctionOnSet(h, S) = SumFunctionOnSet(f, S) + SumFunctionOnSet(g, S)
<1> DEFINE F(u) == SumFunctionOnSet(f, u)
           G(u) == SumFunctionOnSet(g, u)
           H(u) == SumFunctionOnSet(h, u)
           T == {u \in SUBSET S : H(u) # F(u) + G(u)}
<1> SUFFICES ASSUME H(S) # F(S) + G(S) PROVE FALSE
  OBVIOUS
<1>1. T \subseteq SUBSET S /\ T # {}
  OBVIOUS
<1>2. PICK s \in T : \A y \in T : y \subseteq s => y = s
  <2> HIDE DEF T
  <2> QED BY <1>1, MinimalMember
<1>3. s \subseteq S /\ IsFiniteSet(s) /\ H(s) # F(s) + G(s)
  BY <1>2, FS_Subset
<1>4. s # {}
  <2>1. F({}) = 0 /\ G({}) = 0 /\ H({}) = 0
    BY SumEmpty
  <2>2. H({}) = F({}) + G({})
    <3> HIDE DEF F, G, H
    <3> QED BY <2>1
  <2> QED BY <1>3, <2>2
<1> DEFINE w == s \ {Picked(s)}
<1>5. Picked(s) \in S /\ w \subseteq S /\ w \subseteq s /\ w # s /\ IsFiniteSet(w)
  BY <1>3, <1>4, StepSmaller
<1>6. H(w) = F(w) + G(w)
  BY <1>2, <1>3, <1>5
<1>7. /\ F(s) = f[Picked(s)] + F(w)
      /\ G(s) = g[Picked(s)] + G(w)
      /\ H(s) = h[Picked(s)] + H(w)
  BY <1>3, <1>4, SumStep
<1>8. F(w) \in Int /\ G(w) \in Int
  BY <1>5, SumInt
<1>9. f[Picked(s)] \in Int /\ g[Picked(s)] \in Int /\ h[Picked(s)] = f[Picked(s)] + g[Picked(s)]
  BY <1>5
<1> HIDE DEF F, G, H, w
<1> QED BY <1>3, <1>6, <1>7, <1>8, <1>9

\* Sums of functions that agree on the set are equal.
LEMMA SumAgrees ==
  ASSUME NEW f, NEW g, NEW S, IsFiniteSet(S), \A x \in S : f[x] = g[x]
  PROVE  SumFunctionOnSet(f, S) = SumFunctionOnSet(g, S)
<1> DEFINE F(u) == SumFunctionOnSet(f, u)
           G(u) == SumFunctionOnSet(g, u)
           T == {u \in SUBSET S : F(u) # G(u)}
<1> SUFFICES ASSUME F(S) # G(S) PROVE FALSE
  OBVIOUS
<1>1. T \subseteq SUBSET S /\ T # {}
  OBVIOUS
<1>2. PICK s \in T : \A y \in T : y \subseteq s => y = s
  <2> HIDE DEF T
  <2> QED BY <1>1, MinimalMember
<1>3. s \subseteq S /\ IsFiniteSet(s) /\ F(s) # G(s)
  BY <1>2, FS_Subset
<1>4. s # {}
  BY <1>3, SumEmpty
<1> DEFINE w == s \ {Picked(s)}
<1>5. Picked(s) \in S /\ w \subseteq S /\ w \subseteq s /\ w # s
  BY <1>3, <1>4, StepSmaller
<1>6. F(w) = G(w)
  BY <1>2, <1>3, <1>5
<1>7. F(s) = f[Picked(s)] + F(w) /\ G(s) = g[Picked(s)] + G(w)
  BY <1>3, <1>4, SumStep
<1>8. f[Picked(s)] = g[Picked(s)]
  BY <1>5
<1> HIDE DEF F, G, w
<1> QED BY <1>3, <1>6, <1>7, <1>8

\* The summand of any one member can be taken out, whichever the fold takes first.
LEMMA SumRemove ==
  ASSUME NEW f, NEW S, IsFiniteSet(S), \A x \in S : f[x] \in Int, NEW a \in S
  PROVE  SumFunctionOnSet(f, S) = f[a] + SumFunctionOnSet(f, S \ {a})
<1> DEFINE F(u) == SumFunctionOnSet(f, u)
           T == {u \in SUBSET S : \E x \in u : F(u) # f[x] + F(u \ {x})}
<1> SUFFICES ASSUME F(S) # f[a] + F(S \ {a}) PROVE FALSE
  OBVIOUS
<1>1. T \subseteq SUBSET S /\ T # {}
  OBVIOUS
<1>2. PICK s \in T : \A y \in T : y \subseteq s => y = s
  <2> HIDE DEF T
  <2> QED BY <1>1, MinimalMember
<1>3. s \subseteq S /\ IsFiniteSet(s)
  BY <1>2, FS_Subset
<1>4. PICK x \in s : F(s) # f[x] + F(s \ {x})
  BY <1>2
<1> DEFINE p == Picked(s)
<1>5. p \in s /\ F(s) = f[p] + F(s \ {p})
  BY <1>3, <1>4, SumStep, StepSmaller
<1> HIDE DEF p
<1>6. p # x
  BY <1>4, <1>5
<1> DEFINE r == (s \ {p}) \ {x}
<1>7. (s \ {x}) \ {p} = r
  OBVIOUS
<1>8. s \ {p} \notin T /\ s \ {x} \notin T
  <2>1. s \ {p} \subseteq s /\ s \ {p} # s /\ s \ {x} \subseteq s /\ s \ {x} # s
    BY <1>5, <1>4
  <2> QED BY <2>1, <1>2
<1>9. F(s \ {p}) = f[x] + F(r)
  <2>1. s \ {p} \in SUBSET S /\ x \in s \ {p}
    BY <1>3, <1>6
  <2> HIDE DEF F
  <2> QED BY <2>1, <1>8
<1>10. F(s \ {x}) = f[p] + F(r)
  <2>1. s \ {x} \in SUBSET S /\ p \in s \ {x}
    BY <1>3, <1>5, <1>6
  <2>2. F(s \ {x}) = f[p] + F((s \ {x}) \ {p})
    <3> HIDE DEF F
    <3> QED BY <2>1, <1>8
  <2> QED BY <2>2, <1>7
<1>11. F(r) \in Int
  <2>1. r \subseteq S /\ IsFiniteSet(r)
    BY <1>3, FS_Subset
  <2> HIDE DEF r
  <2> QED BY <2>1, SumInt
<1>12. f[p] \in Int /\ f[x] \in Int
  BY <1>3, <1>5
<1> HIDE DEF F, r
<1> QED BY <1>4, <1>5, <1>9, <1>10, <1>11, <1>12

\* A sum of naturals is a natural, and at least the sum over any part of the set.
LEMMA SumNat ==
  ASSUME NEW f, NEW S, IsFiniteSet(S), \A x \in S : f[x] \in Nat
  PROVE  SumFunctionOnSet(f, S) \in Nat
<1> DEFINE T == {u \in SUBSET S : SumFunctionOnSet(f, u) \notin Nat}
<1> SUFFICES ASSUME SumFunctionOnSet(f, S) \notin Nat PROVE FALSE
  OBVIOUS
<1>1. T \subseteq SUBSET S /\ T # {}
  OBVIOUS
<1>2. PICK s \in T : \A y \in T : y \subseteq s => y = s
  <2> HIDE DEF T
  <2> QED BY <1>1, MinimalMember
<1>3. s \subseteq S /\ IsFiniteSet(s) /\ SumFunctionOnSet(f, s) \notin Nat
  BY <1>2, FS_Subset
<1>4. s # {}
  BY <1>3, SumEmpty
<1> DEFINE w == s \ {Picked(s)}
<1>5. Picked(s) \in S /\ w \subseteq s /\ w # s
  BY <1>3, <1>4, StepSmaller
<1>6. SumFunctionOnSet(f, w) \in Nat
  BY <1>2, <1>3, <1>5
<1>7. SumFunctionOnSet(f, s) = f[Picked(s)] + SumFunctionOnSet(f, w)
  BY <1>3, <1>4, SumStep
<1>8. f[Picked(s)] \in Nat
  BY <1>5
<1> QED BY <1>3, <1>6, <1>7, <1>8

\* A sum of zeros is zero.
LEMMA SumZero ==
  ASSUME NEW f, NEW S, IsFiniteSet(S), \A x \in S : f[x] = 0
  PROVE  SumFunctionOnSet(f, S) = 0
<1>1. \A x \in S : f[x] \in Int /\ f[x] = f[x] + f[x]
  OBVIOUS
<1>2. SumFunctionOnSet(f, S) = SumFunctionOnSet(f, S) + SumFunctionOnSet(f, S)
  BY <1>1, SumAdds
<1>3. SumFunctionOnSet(f, S) \in Int
  BY <1>1, SumInt
<1> DEFINE v == SumFunctionOnSet(f, S)
<1>4. v = v + v /\ v \in Int
  BY <1>2, <1>3
<1>5. v = 0
  <2> HIDE DEF v
  <2> QED BY <1>4
<1> QED BY <1>5
-----------------------------------------------------------------------------
(* The same for SumFunction *)

\* The sum of an integer function is an integer.
LEMMA SumFunctionInt ==
  ASSUME NEW S, IsFiniteSet(S), NEW f \in [S -> Int]
  PROVE  SumFunction(f) \in Int
<1>1. DOMAIN f = S /\ \A x \in S : f[x] \in Int
  OBVIOUS
<1> QED BY <1>1, SumInt DEF SumFunction

\* The sum of a natural function is a natural.
LEMMA SumFunctionNat ==
  ASSUME NEW S, IsFiniteSet(S), NEW f \in [S -> Nat]
  PROVE  SumFunction(f) \in Nat
<1>1. DOMAIN f = S /\ \A x \in S : f[x] \in Nat
  OBVIOUS
<1> QED BY <1>1, SumNat DEF SumFunction

\* The sum of a function that is zero everywhere.
LEMMA SumFunctionZero ==
  ASSUME NEW S, IsFiniteSet(S), NEW f, DOMAIN f = S, \A x \in S : f[x] = 0
  PROVE  SumFunction(f) = 0
BY SumZero DEF SumFunction

\* Adding a function adds its sum.
LEMMA SumFunctionAdds ==
  ASSUME NEW S, IsFiniteSet(S), NEW f \in [S -> Int], NEW d \in [S -> Int],
         NEW g, DOMAIN g = S, \A x \in S : g[x] = f[x] + d[x]
  PROVE  SumFunction(g) = SumFunction(f) + SumFunction(d)
<1>1. \A x \in S : f[x] \in Int /\ d[x] \in Int /\ g[x] = f[x] + d[x]
  OBVIOUS
<1>2. DOMAIN f = S /\ DOMAIN d = S
  OBVIOUS
<1>3. SumFunctionOnSet(g, S) = SumFunctionOnSet(f, S) + SumFunctionOnSet(d, S)
  BY <1>1, SumAdds
<1> QED BY <1>2, <1>3 DEF SumFunction

\* One summand split off.
LEMMA SumFunctionRemove ==
  ASSUME NEW S, IsFiniteSet(S), NEW f \in [S -> Int], NEW a \in S
  PROVE  /\ SumFunction(f) = f[a] + SumFunctionOnSet(f, S \ {a})
         /\ SumFunctionOnSet(f, S \ {a}) \in Int
<1>1. DOMAIN f = S /\ \A x \in S : f[x] \in Int
  OBVIOUS
<1>2. SumFunctionOnSet(f, S) = f[a] + SumFunctionOnSet(f, S \ {a})
  BY <1>1, SumRemove
<1>3. IsFiniteSet(S \ {a}) /\ \A x \in S \ {a} : f[x] \in Int
  BY <1>1, FS_Subset, S \ {a} \subseteq S
<1>4. SumFunctionOnSet(f, S \ {a}) \in Int
  BY <1>3, SumInt
<1> QED BY <1>1, <1>2, <1>4 DEF SumFunction

\* Changing one value changes the sum by the difference.
LEMMA SumFunctionUpdate ==
  ASSUME NEW S, IsFiniteSet(S), NEW f \in [S -> Int], NEW a \in S,
         NEW g \in [S -> Int], \A x \in S : x # a => g[x] = f[x]
  PROVE  SumFunction(g) = SumFunction(f) + g[a] - f[a]
<1> DEFINE R == S \ {a}
<1>1. SumFunctionOnSet(g, R) = SumFunctionOnSet(f, R)
  <2>1. IsFiniteSet(R) /\ \A x \in R : g[x] = f[x]
    BY FS_Subset, R \subseteq S
  <2> HIDE DEF R
  <2> QED BY <2>1, SumAgrees
<1>2. /\ SumFunction(f) = f[a] + SumFunctionOnSet(f, R)
      /\ SumFunction(g) = g[a] + SumFunctionOnSet(g, R)
      /\ SumFunctionOnSet(f, R) \in Int
  BY SumFunctionRemove
<1>3. f[a] \in Int /\ g[a] \in Int
  OBVIOUS
<1> HIDE DEF R
<1> QED BY <1>1, <1>2, <1>3

\* No summand of a sum of naturals exceeds the sum.
LEMMA SumFunctionPart ==
  ASSUME NEW S, IsFiniteSet(S), NEW f \in [S -> Nat], NEW a \in S
  PROVE  f[a] <= SumFunction(f)
<1>1. f \in [S -> Int]
  OBVIOUS
<1>2. SumFunction(f) = f[a] + SumFunctionOnSet(f, S \ {a})
  BY <1>1, SumFunctionRemove
<1>3. IsFiniteSet(S \ {a}) /\ \A x \in S \ {a} : f[x] \in Nat
  BY FS_Subset, S \ {a} \subseteq S
<1>4. SumFunctionOnSet(f, S \ {a}) \in Nat
  BY <1>3, SumNat
<1>5. f[a] \in Nat
  OBVIOUS
<1> QED BY <1>2, <1>4, <1>5

\* A bound that holds term by term, up to two factors, holds for the sums.
LEMMA SumScaled ==
  ASSUME NEW f, NEW g, NEW S, IsFiniteSet(S), NEW u \in Nat, NEW t \in Nat,
         \A x \in S : f[x] \in Nat /\ g[x] \in Nat /\ u * g[x] <= t * f[x]
  PROVE  u * SumFunctionOnSet(g, S) <= t * SumFunctionOnSet(f, S)
<1> DEFINE F(v) == SumFunctionOnSet(f, v)
           G(v) == SumFunctionOnSet(g, v)
           T == {v \in SUBSET S : ~(u * G(v) <= t * F(v))}
<1>1. SUFFICES ASSUME T # {} PROVE FALSE
  OBVIOUS
<1>2. PICK s \in T : \A y \in T : y \subseteq s => y = s
  <2> HIDE DEF T
  <2>1. T \subseteq SUBSET S
    BY DEF T
  <2> QED BY <1>1, <2>1, MinimalMember
<1>3. s \subseteq S /\ IsFiniteSet(s) /\ ~(u * G(s) <= t * F(s))
  BY <1>2, FS_Subset
<1>4. s # {}
  <2>1. F({}) = 0 /\ G({}) = 0
    BY SumEmpty
  <2>2. u * 0 <= t * 0
    OBVIOUS
  <2> QED BY <1>3, <2>1, <2>2
<1> DEFINE w == s \ {Picked(s)}
<1>5. Picked(s) \in s /\ w \subseteq s /\ w # s /\ IsFiniteSet(w)
  BY <1>3, <1>4, StepSmaller
<1>6. u * G(w) <= t * F(w)
  BY <1>2, <1>3, <1>5
<1>7. F(s) = f[Picked(s)] + F(w) /\ G(s) = g[Picked(s)] + G(w)
  BY <1>3, <1>4, SumStep
<1>8. F(w) \in Nat /\ G(w) \in Nat
  <2> HIDE DEF w
  <2>1. \A x \in w : f[x] \in Nat /\ g[x] \in Nat
    BY <1>3, <1>5
  <2> QED BY <1>5, <2>1, SumNat
<1> DEFINE a == f[Picked(s)]
           b == g[Picked(s)]
           m == F(w)
           n == G(w)
<1>9. a \in Nat /\ b \in Nat /\ u * b <= t * a
  BY <1>3, <1>5
<1>10. ~(u * (b + n) <= t * (a + m)) /\ m \in Nat /\ n \in Nat /\ u * n <= t * m
  BY <1>3, <1>6, <1>7, <1>8
<1> HIDE DEF a, b, m, n
<1>11. u * (b + n) = u * b + u * n /\ t * (a + m) = t * a + t * m
  BY <1>9, <1>10
<1>12. u * b \in Nat /\ u * n \in Nat /\ t * a \in Nat /\ t * m \in Nat
  BY <1>9, <1>10
<1> QED BY <1>9, <1>10, <1>11, <1>12

\* A function that is smaller everywhere has a smaller sum.
LEMMA SumFunctionMonotone ==
  ASSUME NEW S, IsFiniteSet(S), NEW f \in [S -> Nat], NEW g \in [S -> Nat],
         \A x \in S : g[x] <= f[x]
  PROVE  SumFunction(g) <= SumFunction(f)
<1>1. \A x \in S : f[x] \in Nat /\ g[x] \in Nat /\ 1 * g[x] <= 1 * f[x]
  OBVIOUS
<1>2. 1 * SumFunctionOnSet(g, S) <= 1 * SumFunctionOnSet(f, S)
  BY <1>1, SumScaled
<1>3. SumFunctionOnSet(g, S) \in Nat /\ SumFunctionOnSet(f, S) \in Nat
  BY <1>1, SumNat
<1> QED BY <1>2, <1>3 DEF SumFunction
=============================================================================
