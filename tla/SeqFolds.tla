------------------------------ MODULE SeqFolds ------------------------------
(***************************************************************************)
(* What FoldLeft and FoldFunction compute, for any operator: the followers *)
(* of the events are defined by folding an operator over the events of a   *)
(* call, and the proofs about them need the fold of the empty sequence, of *)
(* one event more, and of two sequences after each other; the accruals of  *)
(* several lines publish a fold over a set. The operator is a parameter of *)
(* the module, so that a proof instantiates it with its own.               *)
(***************************************************************************)
EXTENDS SumTheorems, SequencesExt, SequenceTheorems

CONSTANT Op(_, _)

\* A set of indices.
Indices(S) == S \subseteq Int

\* The index the fold takes last.
LastIndex(t) == CHOOSE x \in t : \A y \in t : x >= y

\* h holds the fold of s over each set of indices.
FoldTabulates(h, base, s, S) ==
  h = [t \in SUBSET S |-> IF t = {} THEN base ELSE Op(h[t \ {LastIndex(t)}], s[LastIndex(t)])]

FoldTable(base, s, S) == CHOOSE h : FoldTabulates(h, base, s, S)

Folded(base, s) == FoldTable(base, s, DOMAIN s)[DOMAIN s]

\* The entry at all indices is the community modules' fold.
LEMMA FoldedIsFoldLeft ==
  ASSUME NEW base, NEW s
  PROVE  FoldLeft(Op, base, s) = Folded(base, s)
BY DEF FoldLeft, MapThenFoldSet, Max, Folded, FoldTable, FoldTabulates, LastIndex

\* A non-empty finite set of indices has a last one.
LEMMA LastIndexMember ==
  ASSUME NEW S, IsFiniteSet(S), Indices(S), NEW t \in SUBSET S, t # {}
  PROVE  LastIndex(t) \in t /\ \A y \in t : LastIndex(t) >= y
<1> DEFINE T == {u \in SUBSET S : u # {} /\ ~(\E x \in u : \A y \in u : x >= y)}
<1> SUFFICES \E x \in t : \A y \in t : x >= y
  BY DEF LastIndex
<1> SUFFICES ASSUME ~(\E x \in t : \A y \in t : x >= y) PROVE FALSE
  OBVIOUS
<1>1. T \subseteq SUBSET S /\ T # {}
  OBVIOUS
<1>3. PICK u \in T : \A y \in T : y \subseteq u => y = u
  <2> HIDE DEF T
  <2> QED BY <1>1, MinimalMember
<1>4. u \in SUBSET S /\ u # {} /\ ~(\E x \in u : \A y \in u : x >= y)
  BY <1>3
<1>5. PICK a \in u : TRUE
  BY <1>4
<1>6. u \ {a} \notin T
  BY <1>3, <1>5
<1>7. u \ {a} # {}
  <2> SUFFICES ASSUME u \ {a} = {} PROVE FALSE
    OBVIOUS
  <2>1. \A y \in u : y = a
    OBVIOUS
  <2>2. a \in Int
    BY <1>4, <1>5 DEF Indices
  <2> QED BY <1>4, <1>5, <2>1, <2>2
<1>8. PICK m \in u \ {a} : \A y \in u \ {a} : m >= y
  BY <1>4, <1>6, <1>7
<1>9. a \in Int /\ \A y \in u : y \in Int
  BY <1>4, <1>5 DEF Indices
<1>10. \A y \in u : (IF m >= a THEN m ELSE a) >= y
  BY <1>8, <1>9
<1> QED
  BY <1>4, <1>5, <1>8, <1>10

\* The entries of a table.
LEMMA FoldEntries ==
  ASSUME NEW h, NEW base, NEW s, NEW S, FoldTabulates(h, base, s, S), NEW t \in SUBSET S
  PROVE  /\ t = {} => h[t] = base
         /\ t # {} => h[t] = Op(h[t \ {LastIndex(t)}], s[LastIndex(t)])
BY DEF FoldTabulates

\* Tables of sequences that agree on some indices agree there.
LEMMA FoldTablesAgree ==
  ASSUME NEW base, NEW s, NEW r, NEW h, NEW k, NEW R, NEW S, IsFiniteSet(R), Indices(R),
         FoldTabulates(h, base, s, R), FoldTabulates(k, base, r, S),
         NEW t \in SUBSET R, t \in SUBSET S, \A i \in t : s[i] = r[i]
  PROVE  h[t] = k[t]
<1> DEFINE T == {u \in SUBSET t : h[u] # k[u]}
<1> SUFFICES ASSUME h[t] # k[t] PROVE FALSE
  OBVIOUS
<1>1. T \subseteq SUBSET t /\ T # {}
  OBVIOUS
<1>2. IsFiniteSet(t)
  BY FS_Subset
<1>3. PICK u \in T : \A y \in T : y \subseteq u => y = u
  <2> HIDE DEF T
  <2> QED BY <1>1, <1>2, MinimalMember
<1>4. u \in SUBSET R /\ u \in SUBSET S /\ u \in SUBSET t /\ h[u] # k[u]
  BY <1>3
<1>5. u # {}
  BY <1>4, FoldEntries
<1> DEFINE v == u \ {LastIndex(u)}
<1>6. LastIndex(u) \in u
  BY <1>4, <1>5, LastIndexMember
<1>7. v \subseteq u /\ v # u
  BY <1>6
<1>8. h[v] = k[v]
  BY <1>3, <1>4, <1>7
<1>9. s[LastIndex(u)] = r[LastIndex(u)]
  BY <1>4, <1>6
<1>10. h[u] = Op(h[v], s[LastIndex(u)])
  BY <1>4, <1>5, FoldEntries
<1>11. k[u] = Op(k[v], r[LastIndex(u)])
  BY <1>4, <1>5, FoldEntries
<1> QED
  BY <1>4, <1>8, <1>9, <1>10, <1>11

\* Over a finite set of indices the table exists.
LEMMA FoldTableExists ==
  ASSUME NEW base, NEW s, NEW S, IsFiniteSet(S), Indices(S)
  PROVE  FoldTabulates(FoldTable(base, s, S), base, s, S)
<1> DEFINE T == {u \in SUBSET S : ~FoldTabulates(FoldTable(base, s, u), base, s, u)}
<1> SUFFICES ASSUME ~FoldTabulates(FoldTable(base, s, S), base, s, S) PROVE FALSE
  OBVIOUS
<1>1. T \subseteq SUBSET S /\ T # {}
  OBVIOUS
<1>2. PICK r \in T : \A y \in T : y \subseteq r => y = r
  <2> HIDE DEF T
  <2> QED BY <1>1, MinimalMember
<1>3. r \in SUBSET S /\ ~FoldTabulates(FoldTable(base, s, r), base, s, r)
  BY <1>2
<1>4. \A u \in SUBSET r : u # r => FoldTabulates(FoldTable(base, s, u), base, s, u)
  BY <1>2, <1>3
<1>5. \A u \in SUBSET r : IsFiniteSet(u)
  BY <1>3, FS_Subset
<1>6. \A u \in SUBSET r : Indices(u)
  BY <1>3 DEF Indices
<1>7. \A u \in SUBSET r : u # {} => LastIndex(u) \in u
  <2> TAKE u \in SUBSET r
  <2>1. u \in SUBSET S
    BY <1>3
  <2> QED BY <2>1, LastIndexMember
<1> HIDE DEF T
<1> DEFINE V(u) == FoldTable(base, s, u)[u]
           g == [t \in SUBSET r |-> IF t = {} THEN base
                                    ELSE Op(V(t \ {LastIndex(t)}), s[LastIndex(t)])]
<1>8. ASSUME NEW u \in SUBSET r, u # r
      PROVE  g[u] = V(u)
  <2>1. FoldTabulates(FoldTable(base, s, u), base, s, u)
    BY <1>4, <1>8
  <2>2. CASE u = {}
    <3>1. V(u) = base
      BY <2>1, <2>2, FoldEntries
    <3> QED BY <3>1, <2>2
  <2>3. CASE u # {}
    <3> DEFINE w == u \ {LastIndex(u)}
    <3>1. w \in SUBSET r /\ w # r /\ w \in SUBSET u /\ w \in SUBSET w
      BY <2>3, <1>7
    <3>2. FoldTabulates(FoldTable(base, s, w), base, s, w)
      BY <3>1, <1>4
    <3>3. FoldTable(base, s, u)[w] = FoldTable(base, s, w)[w]
      <4> HIDE DEF w
      <4> QED BY <3>1, <3>2, <2>1, <1>5, <1>6, FoldTablesAgree
    <3>4. V(u) = Op(FoldTable(base, s, u)[w], s[LastIndex(u)])
      BY <2>1, <2>3, FoldEntries
    <3>5. g[u] = Op(V(w), s[LastIndex(u)])
      BY <2>3
    <3> QED BY <3>3, <3>4, <3>5
  <2> QED BY <2>2, <2>3
<1>9. \A t \in SUBSET r : t # {} => t \ {LastIndex(t)} \in SUBSET r /\ t \ {LastIndex(t)} # r
  BY <1>7
<1>10. \A t \in SUBSET r : t # {} => g[t \ {LastIndex(t)}] = V(t \ {LastIndex(t)})
  <2> HIDE DEF g, V
  <2> QED BY <1>8, <1>9
<1>11. FoldTabulates(g, base, s, r)
  <2>1. g = [t \in SUBSET r |-> IF t = {} THEN base
                                ELSE Op(g[t \ {LastIndex(t)}], s[LastIndex(t)])]
    <3> DEFINE G == g
    <3>1. \A t \in SUBSET r : t # {} => V(t \ {LastIndex(t)}) = G[t \ {LastIndex(t)}]
      BY <1>10
    <3>2. G = [t \in SUBSET r |-> IF t = {} THEN base
                                  ELSE Op(V(t \ {LastIndex(t)}), s[LastIndex(t)])]
      OBVIOUS
    <3> HIDE DEF G, V
    <3>3. G = [t \in SUBSET r |-> IF t = {} THEN base
                                  ELSE Op(G[t \ {LastIndex(t)}], s[LastIndex(t)])]
      BY <3>1, <3>2
    <3> QED BY <3>3 DEF G
  <2> QED BY <2>1 DEF FoldTabulates
<1>12. FoldTabulates(FoldTable(base, s, r), base, s, r)
  <2> HIDE DEF g
  <2> QED BY <1>11 DEF FoldTable
<1> QED BY <1>3, <1>12
-----------------------------------------------------------------------------
(* The fold, one element at a time *)

LEMMA IntervalIndices ==
  ASSUME NEW n \in Nat
  PROVE  IsFiniteSet(1..n) /\ Indices(1..n) /\ (n > 0 => LastIndex(1..n) = n)
<1>1. IsFiniteSet(1..n)
  BY FS_Interval
<1>2. Indices(1..n)
  BY DEF Indices
<1>3. ASSUME n > 0
      PROVE  LastIndex(1..n) = n
  <2>1. 1..n # {} /\ n \in 1..n
    BY <1>3
  <2>2. LastIndex(1..n) \in 1..n /\ \A y \in 1..n : LastIndex(1..n) >= y
    BY <1>1, <1>2, <2>1, LastIndexMember
  <2> QED BY <2>1, <2>2
<1> QED BY <1>1, <1>2, <1>3

\* The fold of nothing is the base.
LEMMA FoldEmpty ==
  ASSUME NEW base
  PROVE  Folded(base, << >>) = base
<1>1. DOMAIN << >> = {} /\ {} \in SUBSET {}
  OBVIOUS
<1>2. FoldTabulates(FoldTable(base, << >>, {}), base, << >>, {})
  BY FS_EmptySet, FoldTableExists DEF Indices
<1> QED BY <1>1, <1>2, FoldEntries DEF Folded

\* One element more is one application more.
LEMMA FoldStep ==
  ASSUME NEW base, NEW s, NEW q, NEW n \in Nat,
         DOMAIN s = 1..n+1, DOMAIN q = 1..n, \A i \in 1..n : q[i] = s[i]
  PROVE  Folded(base, s) = Op(Folded(base, q), s[n+1])
<1> DEFINE S == 1..n+1
           Q == 1..n
<1>1. IsFiniteSet(S) /\ Indices(S) /\ LastIndex(S) = n+1 /\ IsFiniteSet(Q) /\ Indices(Q)
  BY IntervalIndices
<1>2. S \ {n+1} = Q /\ Q \in SUBSET S /\ Q \in SUBSET Q /\ S \in SUBSET S /\ S # {} /\ DOMAIN s = S /\ DOMAIN q = Q
      /\ \A i \in Q : s[i] = q[i]
  OBVIOUS
<1> HIDE DEF S, Q
<1>3. FoldTabulates(FoldTable(base, s, S), base, s, S) /\ FoldTabulates(FoldTable(base, q, Q), base, q, Q)
  BY <1>1, FoldTableExists
<1>4. FoldTable(base, s, S)[S] = Op(FoldTable(base, s, S)[S \ {LastIndex(S)}], s[LastIndex(S)])
  <2> DEFINE h == FoldTable(base, s, S)
  <2>1. FoldTabulates(h, base, s, S)
    BY <1>3
  <2>2. S \in SUBSET S /\ S # {}
    BY <1>2
  <2> HIDE DEF h
  <2>3. h[S] = Op(h[S \ {LastIndex(S)}], s[LastIndex(S)])
    BY ONLY <2>1, <2>2, FoldEntries
  <2> QED BY <2>3 DEF h
<1>5. FoldTable(base, s, S)[Q] = FoldTable(base, q, Q)[Q]
  BY <1>1, <1>2, <1>3, FoldTablesAgree
<1> QED BY <1>1, <1>2, <1>4, <1>5 DEF Folded

LEMMA FoldAppend ==
  ASSUME NEW base, NEW X, NEW q \in Seq(X), NEW e
  PROVE  Folded(base, Append(q, e)) = Op(Folded(base, q), e)
<1>1. Len(q) \in Nat /\ DOMAIN q = 1..Len(q)
  OBVIOUS
<1>2. Append(q, e) \in Seq(X \cup {e})
  OBVIOUS
<1>3. DOMAIN Append(q, e) = 1..Len(q)+1 /\ Append(q, e)[Len(q)+1] = e
      /\ \A i \in 1..Len(q) : q[i] = Append(q, e)[i]
  BY <1>2
<1> DEFINE n == Len(q)
           s == Append(q, e)
<1> HIDE DEF n, s
<1>4. n \in Nat /\ DOMAIN q = 1..n /\ DOMAIN s = 1..n+1 /\ s[n+1] = e /\ \A i \in 1..n : q[i] = s[i]
  BY <1>1, <1>3 DEF n, s
<1>5. Folded(base, s) = Op(Folded(base, q), s[n+1])
  BY <1>4, FoldStep
<1> QED BY <1>4, <1>5 DEF s

LEMMA FoldOne ==
  ASSUME NEW base, NEW a
  PROVE  Folded(base, <<a>>) = Op(base, a)
<1>1. 0 \in Nat /\ DOMAIN <<a>> = 1..0+1 /\ DOMAIN << >> = 1..0 /\ <<a>>[0+1] = a
      /\ \A i \in 1..0 : << >>[i] = <<a>>[i]
  OBVIOUS
<1>2. Folded(base, <<a>>) = Op(Folded(base, << >>), <<a>>[0+1])
  <2> DEFINE n == 0
             s == <<a>>
             q == << >>
  <2>1. n \in Nat /\ DOMAIN s = 1..n+1 /\ DOMAIN q = 1..n /\ \A i \in 1..n : q[i] = s[i]
    BY <1>1
  <2> HIDE DEF n, s, q
  <2>2. Folded(base, s) = Op(Folded(base, q), s[n+1])
    BY <2>1, FoldStep
  <2> QED BY <2>2 DEF n, s, q
<1> QED BY <1>1, <1>2, FoldEmpty

LEMMA FoldTwo ==
  ASSUME NEW base, NEW a, NEW b
  PROVE  Folded(base, <<a, b>>) = Op(Op(base, a), b)
<1>1. 1 \in Nat /\ DOMAIN <<a, b>> = 1..1+1 /\ DOMAIN <<a>> = 1..1 /\ <<a, b>>[1+1] = b
      /\ \A i \in 1..1 : <<a>>[i] = <<a, b>>[i]
  OBVIOUS
<1>2. Folded(base, <<a, b>>) = Op(Folded(base, <<a>>), <<a, b>>[1+1])
  <2> DEFINE n == 1
             s == <<a, b>>
             q == <<a>>
  <2>1. n \in Nat /\ DOMAIN s = 1..n+1 /\ DOMAIN q = 1..n /\ \A i \in 1..n : q[i] = s[i]
    BY <1>1
  <2> HIDE DEF n, s, q
  <2>2. Folded(base, s) = Op(Folded(base, q), s[n+1])
    BY <2>1, FoldStep
  <2> QED BY <2>2 DEF n, s, q
<1> QED BY <1>1, <1>2, FoldOne

\* Counterexamples among the first numbers have one whose predecessor is none.
LEMMA LeastIndex ==
  ASSUME NEW m \in Nat, NEW T, T \subseteq 0..m, T # {}
  PROVE  \E k \in T : k = 0 \/ (k > 0 /\ k - 1 \notin T)
<1> DEFINE S == 1..m
           U == {1..k : k \in T}
<1>1. IsFiniteSet(S)
  BY FS_Interval
<1>2. U \subseteq SUBSET S /\ U # {}
  <2>1. \A k \in T : 1..k \in SUBSET S
    <3> TAKE k \in T
    <3>1. k \in Nat /\ k <= m
      OBVIOUS
    <3> QED BY <3>1
  <2> HIDE DEF S
  <2> QED BY <2>1
<1> HIDE DEF S
<1>3. PICK x \in U : \A y \in U : y \subseteq x => y = x
  <2> HIDE DEF U
  <2> QED BY <1>1, <1>2, MinimalMember
<1>4. PICK k \in T : x = 1..k
  BY <1>3
<1>5. k \in Nat
  OBVIOUS
<1>6. ASSUME k > 0, k - 1 \in T PROVE FALSE
  <2>1. 1..(k-1) \in U /\ 1..(k-1) \subseteq x
    BY <1>4, <1>5, <1>6
  <2>2. k \in x /\ k \notin 1..(k-1)
    BY <1>4, <1>5, <1>6
  <2> QED BY <1>3, <2>1, <2>2
<1> QED BY <1>5, <1>6

\* Two sequences after each other: the second is folded from where the first has led.
LEMMA FoldConcat ==
  ASSUME NEW base, NEW X, NEW s \in Seq(X), NEW t \in Seq(X)
  PROVE  Folded(base, s \o t) = Folded(Folded(base, s), t)
<1> DEFINE n == Len(s)
           m == Len(t)
           F == Folded(base, s)
           P(k) == [i \in 1..k |-> t[i]]
           J(k) == [i \in 1..n+k |-> IF i <= n THEN s[i] ELSE t[i-n]]
           T == {k \in 0..m : Folded(base, J(k)) # Folded(F, P(k))}
<1>1. n \in Nat /\ m \in Nat /\ DOMAIN s = 1..n /\ DOMAIN t = 1..m
  OBVIOUS
<1>2. s = [i \in 1..n |-> s[i]] /\ t = [i \in 1..m |-> t[i]]
  BY <1>1, SeqDef
<1>3. s \o t = J(m)
  <2>1. s \o t \in Seq(X) /\ Len(s \o t) = n + m
        /\ \A i \in 1..n+m : (s \o t)[i] = IF i <= n THEN s[i] ELSE t[i-n]
    BY ConcatProperties
  <2> DEFINE c == s \o t
  <2>2. c \in Seq(X) /\ Len(c) = n + m
    BY <2>1
  <2> HIDE DEF c
  <2>3. c = [i \in 1..Len(c) |-> c[i]]
    BY <2>2, SeqDef
  <2> HIDE DEF n, m
  <2>4. c = [i \in 1..n+m |-> c[i]]
    BY <2>2, <2>3
  <2>5. \A i \in 1..n+m : c[i] = IF i <= n THEN s[i] ELSE t[i-n]
    BY <2>1 DEF c
  <2> QED BY <2>4, <2>5 DEF c
<1> HIDE DEF n, m
<1>4. P(m) = t /\ P(0) = << >>
  BY <1>1, <1>2
<1>5. J(0) = s
  BY <1>1, <1>2
<1>6. 0 \notin T
  <2>1. Folded(F, << >>) = F
    BY FoldEmpty
  <2> QED BY <1>4, <1>5, <2>1
<1>7. ASSUME NEW k \in 1..m, k - 1 \notin T PROVE k \notin T
  <2> DEFINE j == k - 1
             N == n + j
  <2>1. j \in Nat /\ j \in 0..m /\ k = j + 1 /\ N \in Nat /\ n + k = N + 1
    BY <1>1
  <2>2. DOMAIN P(k) = 1..j+1 /\ DOMAIN P(j) = 1..j /\ \A i \in 1..j : P(j)[i] = P(k)[i]
    BY <2>1
  <2>3. DOMAIN J(k) = 1..N+1 /\ DOMAIN J(j) = 1..N /\ \A i \in 1..N : J(j)[i] = J(k)[i]
    BY <1>1, <2>1
  <2>4. P(k)[j+1] = t[k] /\ J(k)[N+1] = t[k]
    BY <1>1, <2>1
  <2> DEFINE p == P(k)
             q == P(j)
             u == J(k)
             v == J(j)
  <2>5. Folded(base, v) = Folded(F, q)
    BY <1>7, <2>1
  <2>6. /\ DOMAIN p = 1..j+1 /\ DOMAIN q = 1..j /\ \A i \in 1..j : q[i] = p[i]
        /\ DOMAIN u = 1..N+1 /\ DOMAIN v = 1..N /\ \A i \in 1..N : v[i] = u[i]
        /\ p[j+1] = t[k] /\ u[N+1] = t[k]
    BY <2>2, <2>3, <2>4
  <2> HIDE DEF p, q, u, v, j, N, F
  <2>7. Folded(F, p) = Op(Folded(F, q), p[j+1])
    BY <2>1, <2>6, FoldStep
  <2>8. Folded(base, u) = Op(Folded(base, v), u[N+1])
    BY <2>1, <2>6, FoldStep
  <2>9. Folded(base, u) = Folded(F, p)
    BY <2>5, <2>6, <2>7, <2>8
  <2> QED BY <2>9 DEF p, u, F
<1>8. T = {}
  <2>1. T \subseteq 0..m
    OBVIOUS
  <2> HIDE DEF T
  <2> SUFFICES ASSUME T # {} PROVE FALSE
    OBVIOUS
  <2>2. PICK k \in T : k = 0 \/ (k > 0 /\ k - 1 \notin T)
    BY <1>1, <2>1, LeastIndex
  <2>3. k \in 1..m
    BY <1>1, <1>6, <2>1, <2>2
  <2> QED BY <1>6, <1>7, <2>2, <2>3
<1>9. m \in 0..m
  BY <1>1
<1>10. Folded(base, J(m)) = Folded(F, P(m))
  BY <1>8, <1>9
<1> QED BY <1>3, <1>4, <1>10
-----------------------------------------------------------------------------
(* The fold of a function, whose values are taken in an unspecified order *)

\* h holds the fold of f over each set of arguments.
Gathers(h, base, f, S) ==
  h = [t \in SUBSET S |-> IF t = {} THEN base ELSE Op(f[Picked(t)], h[t \ {Picked(t)}])]

GatherTable(base, f, S) == CHOOSE h : Gathers(h, base, f, S)

Gathered(base, f) == GatherTable(base, f, DOMAIN f)[DOMAIN f]

\* The entry at all arguments is the community modules' fold.
LEMMA GatheredIsFold ==
  ASSUME NEW base, NEW f
  PROVE  FoldFunction(Op, base, f) = Gathered(base, f)
BY DEF FoldFunction, FoldFunctionOnSet, MapThenFoldSet, Gathered, GatherTable, Gathers, Picked

LEMMA GatherEntries ==
  ASSUME NEW h, NEW base, NEW f, NEW S, Gathers(h, base, f, S), NEW t \in SUBSET S
  PROVE  /\ t = {} => h[t] = base
         /\ t # {} => h[t] = Op(f[Picked(t)], h[t \ {Picked(t)}])
BY DEF Gathers

\* Two tables of the same function agree wherever both are defined.
LEMMA GatherTablesAgree ==
  ASSUME NEW base, NEW f, NEW h, NEW k, NEW r, NEW s, IsFiniteSet(r),
         Gathers(h, base, f, r), Gathers(k, base, f, s), NEW t \in SUBSET r, t \in SUBSET s
  PROVE  h[t] = k[t]
<1> DEFINE T == {u \in SUBSET r : u \subseteq s /\ h[u] # k[u]}
<1> SUFFICES ASSUME h[t] # k[t] PROVE FALSE
  OBVIOUS
<1>1. T \subseteq SUBSET r /\ T # {}
  OBVIOUS
<1>2. PICK u \in T : \A y \in T : y \subseteq u => y = u
  <2> HIDE DEF T
  <2> QED BY <1>1, MinimalMember
<1>3. u \in SUBSET r /\ u \in SUBSET s /\ h[u] # k[u]
  BY <1>2
<1> DEFINE v == u \ {Picked(u)}
<1>4. u # {}
  BY <1>3, GatherEntries
<1>5. v \subseteq u /\ v # u
  BY <1>4, PickedMember
<1>6. h[v] = k[v]
  BY <1>2, <1>3, <1>5
<1>7. h[u] = Op(f[Picked(u)], h[v]) /\ k[u] = Op(f[Picked(u)], k[v])
  BY <1>3, <1>4, GatherEntries
<1> QED BY <1>3, <1>6, <1>7

\* Over a finite set the table exists.
LEMMA GatherTableExists ==
  ASSUME NEW base, NEW f, NEW S, IsFiniteSet(S)
  PROVE  Gathers(GatherTable(base, f, S), base, f, S)
<1> DEFINE T == {u \in SUBSET S : ~Gathers(GatherTable(base, f, u), base, f, u)}
<1> SUFFICES ASSUME ~Gathers(GatherTable(base, f, S), base, f, S) PROVE FALSE
  OBVIOUS
<1>1. T \subseteq SUBSET S /\ T # {}
  OBVIOUS
<1>2. PICK s \in T : \A y \in T : y \subseteq s => y = s
  <2> HIDE DEF T
  <2> QED BY <1>1, MinimalMember
<1>3. s \in SUBSET S /\ ~Gathers(GatherTable(base, f, s), base, f, s)
  BY <1>2
<1>4. \A u \in SUBSET s : u # s => Gathers(GatherTable(base, f, u), base, f, u)
  BY <1>2, <1>3
<1>5. \A u \in SUBSET s : IsFiniteSet(u)
  BY <1>3, FS_Subset
<1> HIDE DEF T
<1> DEFINE V(u) == GatherTable(base, f, u)[u]
           g == [t \in SUBSET s |-> IF t = {} THEN base ELSE Op(f[Picked(t)], V(t \ {Picked(t)}))]
<1>6. ASSUME NEW u \in SUBSET s, u # s
      PROVE  g[u] = V(u)
  <2>1. Gathers(GatherTable(base, f, u), base, f, u)
    BY <1>4, <1>6
  <2>2. CASE u = {}
    <3>1. V(u) = base
      BY <2>1, <2>2, GatherEntries
    <3> QED BY <3>1, <2>2
  <2>3. CASE u # {}
    <3> DEFINE w == u \ {Picked(u)}
    <3>1. w \in SUBSET s /\ w # s /\ w \in SUBSET u /\ w \in SUBSET w
      BY <2>3, PickedMember
    <3>2. Gathers(GatherTable(base, f, w), base, f, w)
      BY <3>1, <1>4
    <3>3. GatherTable(base, f, u)[w] = GatherTable(base, f, w)[w]
      <4> HIDE DEF w
      <4> QED BY <3>1, <3>2, <2>1, <1>5, GatherTablesAgree
    <3>4. V(u) = Op(f[Picked(u)], GatherTable(base, f, u)[w])
      BY <2>1, <2>3, GatherEntries
    <3>5. g[u] = Op(f[Picked(u)], V(w))
      BY <2>3
    <3> QED BY <3>3, <3>4, <3>5
  <2> QED BY <2>2, <2>3
<1>7. \A t \in SUBSET s : t # {} => t \ {Picked(t)} \in SUBSET s /\ t \ {Picked(t)} # s
  BY PickedMember
<1>8. \A t \in SUBSET s : t # {} => g[t \ {Picked(t)}] = V(t \ {Picked(t)})
  <2> HIDE DEF g, V
  <2> QED BY <1>6, <1>7
<1>9. Gathers(g, base, f, s)
  <2> DEFINE G == g
  <2>1. \A t \in SUBSET s : t # {} => V(t \ {Picked(t)}) = G[t \ {Picked(t)}]
    BY <1>8
  <2>2. G = [t \in SUBSET s |-> IF t = {} THEN base ELSE Op(f[Picked(t)], V(t \ {Picked(t)}))]
    OBVIOUS
  <2> HIDE DEF G, V
  <2>3. G = [t \in SUBSET s |-> IF t = {} THEN base ELSE Op(f[Picked(t)], G[t \ {Picked(t)}])]
    BY <2>1, <2>2
  <2> QED BY <2>3 DEF G, Gathers
<1>10. Gathers(GatherTable(base, f, s), base, f, s)
  <2> HIDE DEF g
  <2> QED BY <1>9 DEF GatherTable
<1> QED BY <1>3, <1>10
=============================================================================
