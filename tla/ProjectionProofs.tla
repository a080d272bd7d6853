-------------------------- MODULE ProjectionProofs --------------------------
(***************************************************************************)
(* Proofs about Projection and Recompile, for every set of programs and of *)
(* renamings.  Identifiers are numbered without gaps or collisions and     *)
(* every item is written once (IInv).  The text of an item says what the   *)
(* item is (TextInv), the mark stands after what main reaches (ReachInv),  *)
(* and everything stands in an order the text alone determines (OrderInv), *)
(* so that the text of another compilation is the same (CoupleInv).        *)
(*                                                                         *)
(* Preorder is recursive.  What it computes is proved by the least         *)
(* counterexample: LeastNat follows from the well-foundedness of the       *)
(* proper-subset ordering of finite sets, which needs no induction over an *)
(* operator, and gives the existence and uniqueness of functions that are  *)
(* defined by recursion on a rank.                                         *)
(***************************************************************************)
EXTENDS Recompile, FiniteSetTheorems, SequenceTheorems, TLAPS

-----------------------------------------------------------------------------
\* A set of naturals that is not empty has a least element.
LEMMA LeastNat ==
  ASSUME NEW S \in SUBSET Nat, S # {}
  PROVE  \E n \in S : \A m \in S : n <= m
<1> DEFINE R == StrictSubsetOrdering(Nat)
           F == FiniteSubsetsOf(Nat)
           T == {1 .. n : n \in S}
<1>1. IsWellFoundedOn(R, F)
  BY FS_StrictSubsetOrderingWellFounded
<1>2. T \subseteq F /\ T # {}
  <2>1. ASSUME NEW n \in S PROVE 1 .. n \in F
    <3>1. IsFiniteSet(1 .. n)
      BY FS_Interval
    <3> QED BY <3>1 DEF FiniteSubsetsOf
  <2> HIDE DEF F
  <2> QED BY <2>1
<1>3. \A X, Y : <<Y, X>> \in R <=> Y \in SUBSET Nat /\ X \in SUBSET Nat /\ Y \subseteq X /\ Y # X
  BY DEF StrictSubsetOrdering
<1>4. PICK X \in T : \A Y \in T : ~(<<Y, X>> \in R)
  <2> HIDE DEF R, F, T
  <2> QED BY <1>1, <1>2, WFMin
<1> PICK n \in S : X = 1 .. n
  OBVIOUS
<1>5. \A m \in S : ~(m < n)
  <2> SUFFICES ASSUME NEW m \in S, m < n PROVE FALSE
    OBVIOUS
  <2>1. 1 .. m \subseteq X /\ 1 .. m # X
    <3>1. n \in 1 .. n /\ n \notin 1 .. m
      OBVIOUS
    <3> QED BY <3>1
  <2>2. 1 .. m \in SUBSET Nat /\ X \in SUBSET Nat
    OBVIOUS
  <2>3. 1 .. m \in T
    OBVIOUS
  <2>4. \A Y \in T : ~(<<Y, X>> \in R)
    BY <1>4
  <2>5. <<1 .. m, X>> \in R
    BY <2>1, <2>2, <1>3
  <2> QED BY <2>3, <2>4, <2>5
<1> QED BY <1>5

\* A function by recursion on a rank: G says what the value at e is, given the
\* values below e.
Lower(D, rank, e) == {x \in D : rank[x] < rank[e]}
Step(D, rank, G, f, e) == G[<<e, [x \in Lower(D, rank, e) |-> f[x]]>>]
Yields(D, rank, G, V) == \A e \in D : \A h \in [Lower(D, rank, e) -> V] : G[<<e, h>>] \in V
Solves(D, rank, G, C, f) ==
  /\ \A e \in C : Lower(D, rank, e) \subseteq C
  /\ \A e \in C : f[e] = Step(D, rank, G, f, e)

\* Two functions that satisfy one recursion, each up to a rank of its own,
\* agree where both are.
LEMMA RecursionAgrees ==
  ASSUME NEW D, NEW rank \in [D -> Nat], NEW G, NEW C \in SUBSET D, NEW f, NEW g,
         Solves(D, rank, G, C, f), Solves(D, rank, G, C, g)
  PROVE  \A e \in C : f[e] = g[e]
<1> DEFINE S == {rank[e] : e \in {x \in C : f[x] # g[x]}}
<1> SUFFICES ASSUME S # {} PROVE FALSE
  OBVIOUS
<1>1. S \in SUBSET Nat
  OBVIOUS
<1>2. PICK n \in S : \A m \in S : n <= m
  <2> HIDE DEF S
  <2> QED BY <1>1, LeastNat
<1>3. PICK e \in C : f[e] # g[e] /\ rank[e] = n
  OBVIOUS
<1>4. \A x \in Lower(D, rank, e) : f[x] = g[x]
  <2> SUFFICES ASSUME NEW x \in Lower(D, rank, e), f[x] # g[x] PROVE FALSE
    OBVIOUS
  <2>1. x \in C /\ rank[x] < rank[e] /\ rank[x] \in Nat /\ rank[e] \in Nat
    BY DEF Lower, Solves
  <2>2. rank[x] \in S
    BY <2>1
  <2> QED BY <2>1, <2>2, <1>2, <1>3
<1>5. [x \in Lower(D, rank, e) |-> f[x]] = [x \in Lower(D, rank, e) |-> g[x]]
  BY <1>4
<1>6. /\ f[e] = Step(D, rank, G, f, e)
      /\ g[e] = Step(D, rank, G, g, e)
  BY DEF Solves
<1> QED BY <1>3, <1>5, <1>6 DEF Step

\* A rule that gives each element a value from those of smaller rank has a
\* solution.
LEMMA RecursionExists ==
  ASSUME NEW D, NEW rank \in [D -> Nat], NEW V, NEW G, Yields(D, rank, G, V)
  PROVE  \E f \in [D -> V] : Solves(D, rank, G, D, f)
<1> DEFINE C(n) == {x \in D : rank[x] < n}
           Good(n, g) == /\ g \in [C(n) -> V]
                         /\ \A e \in C(n) : g[e] = Step(D, rank, G, g, e)
<1>1. ASSUME NEW m \in Nat, NEW n \in Nat, m <= n, NEW g, NEW h, Good(m, g), Good(n, h)
      PROVE  \A e \in C(m) : g[e] = h[e]
  <2>1. C(m) \subseteq C(n) /\ C(m) \in SUBSET D
    BY <1>1
  <2>2. \A e \in C(m) : Lower(D, rank, e) \subseteq C(m)
    BY DEF Lower
  <2>3. \A e \in C(m) : h[e] = Step(D, rank, G, h, e)
    BY <2>1, <1>1
  <2>4. \A e \in C(m) : g[e] = Step(D, rank, G, g, e)
    BY <1>1
  <2> HIDE DEF C, Good
  <2>5. PICK B \in SUBSET D : B = C(m)
    BY <2>1
  <2>6. \A e \in B : g[e] = h[e]
    <3>1. Solves(D, rank, G, B, g) /\ Solves(D, rank, G, B, h)
      BY <2>2, <2>3, <2>4, <2>5 DEF Solves
    <3> QED BY <3>1, RecursionAgrees
  <2> QED BY <2>5, <2>6
<1>2. \A n \in Nat : \E g : Good(n, g)
  <2> DEFINE S == {n \in Nat : ~\E g : Good(n, g)}
  <2> SUFFICES ASSUME S # {} PROVE FALSE
    OBVIOUS
  <2>1. PICK n \in S : \A m \in S : n <= m
    <3>1. S \in SUBSET Nat
      OBVIOUS
    <3> HIDE DEF S
    <3> QED BY <3>1, LeastNat
  <2>2. n # 0
    <3>1. C(0) = {}
      OBVIOUS
    <3>2. Good(0, [e \in {} |-> e])
      BY <3>1
    <3> QED BY <3>2
  <2>3. n - 1 \in Nat /\ n - 1 \notin S
    <3>1. n - 1 \in Nat /\ ~(n <= n - 1)
      BY <2>2
    <3> HIDE DEF S
    <3> QED BY <3>1, <2>1
  <2>4. PICK g : Good(n - 1, g)
    BY <2>3
  <2> DEFINE h == [e \in C(n) |-> Step(D, rank, G, g, e)]
  <2>5. \A e \in C(n) : Lower(D, rank, e) \subseteq C(n - 1)
    BY DEF Lower
  <2>6. \A e \in C(n - 1) : e \in C(n) /\ h[e] = g[e]
    BY <2>4
  <2>7. \A e \in C(n) : [x \in Lower(D, rank, e) |-> g[x]] \in [Lower(D, rank, e) -> V]
    <3> SUFFICES ASSUME NEW e \in C(n)
                 PROVE  [x \in Lower(D, rank, e) |-> g[x]] \in [Lower(D, rank, e) -> V]
      OBVIOUS
    <3>1. g \in [C(n - 1) -> V]
      BY <2>4
    <3>2. Lower(D, rank, e) \subseteq C(n - 1)
      BY <2>5
    <3> HIDE DEF C, Good
    <3> QED BY <3>1, <3>2
  <2>8. h \in [C(n) -> V]
    <3>1. \A e \in C(n) : Step(D, rank, G, g, e) \in V
      <4> SUFFICES ASSUME NEW e \in C(n) PROVE Step(D, rank, G, g, e) \in V
        OBVIOUS
      <4>1. e \in D /\ [x \in Lower(D, rank, e) |-> g[x]] \in [Lower(D, rank, e) -> V]
        BY <2>7
      <4> HIDE DEF C
      <4> QED BY <4>1 DEF Step, Yields
    <3> QED BY <3>1
  <2>9. \A e \in C(n) : h[e] = Step(D, rank, G, h, e)
    <3> SUFFICES ASSUME NEW e \in C(n)
                 PROVE  h[e] = Step(D, rank, G, h, e)
      OBVIOUS
    <3>1. h[e] = Step(D, rank, G, g, e)
      OBVIOUS
    <3>2. \A x \in Lower(D, rank, e) : h[x] = g[x]
      BY <2>5, <2>6
    <3> HIDE DEF h
    <3>3. [x \in Lower(D, rank, e) |-> h[x]] = [x \in Lower(D, rank, e) |-> g[x]]
      BY <3>2
    <3> QED BY <3>1, <3>3 DEF Step
  <2>10. Good(n, h)
    BY <2>8, <2>9
  <2> QED BY <2>10
<1> DEFINE Up(e) == CHOOSE g : Good(rank[e] + 1, g)
           f == [e \in D |-> Up(e)[e]]
<1>3. \A e \in D : Good(rank[e] + 1, Up(e))
  <2> SUFFICES ASSUME NEW e \in D PROVE Good(rank[e] + 1, Up(e))
    OBVIOUS
  <2> HIDE DEF Good
  <2>1. \E g : Good(rank[e] + 1, g)
    <3>1. rank[e] + 1 \in Nat
      OBVIOUS
    <3> QED BY <3>1, <1>2
  <2> QED BY <2>1
<1>4. \A e \in D : e \in C(rank[e] + 1) /\ Lower(D, rank, e) \subseteq C(rank[e] + 1)
  BY DEF Lower
<1>5. f \in [D -> V]
  <2>1. ASSUME NEW e \in D PROVE Up(e)[e] \in V
    <3>1. Up(e) \in [C(rank[e] + 1) -> V]
      BY <1>3
    <3>2. e \in C(rank[e] + 1)
      BY <1>4
    <3> HIDE DEF C, Up
    <3> QED BY <3>1, <3>2
  <2> HIDE DEF Up
  <2> QED BY <2>1
<1>6. ASSUME NEW e \in D PROVE f[e] = Step(D, rank, G, f, e)
  <2> DEFINE u == Up(e)
  <2>1. u[e] = Step(D, rank, G, u, e)
    <3>1. Good(rank[e] + 1, u) /\ e \in C(rank[e] + 1)
      BY <1>3, <1>4
    <3> HIDE DEF C, u
    <3> QED BY <3>1
  <2>2. ASSUME NEW x \in Lower(D, rank, e) PROVE f[x] = u[x]
    <3>1. x \in D /\ rank[x] + 1 <= rank[e] + 1 /\ rank[x] + 1 \in Nat /\ rank[e] + 1 \in Nat
      BY DEF Lower
    <3>2. Good(rank[x] + 1, Up(x)) /\ Good(rank[e] + 1, u) /\ x \in C(rank[x] + 1)
      BY <3>1, <1>3, <1>4
    <3>3. f[x] = Up(x)[x]
      BY <3>1
    <3> HIDE DEF Good, C, Up, f, u
    <3>4. Up(x)[x] = u[x]
      BY <3>1, <3>2, <1>1
    <3> QED BY <3>3, <3>4
  <2>3. f[e] = u[e]
    OBVIOUS
  <2> HIDE DEF f, u
  <2>4. [x \in Lower(D, rank, e) |-> f[x]] = [x \in Lower(D, rank, e) |-> u[x]]
    BY <2>2
  <2> QED BY <2>1, <2>3, <2>4 DEF Step
<1> HIDE DEF f
<1>7. \A e \in D : Lower(D, rank, e) \subseteq D
  BY DEF Lower
<1> QED BY <1>5, <1>6, <1>7 DEF Solves

-----------------------------------------------------------------------------
\* Concatenation is associative.
LEMMA ConcatAssoc == \A V : \A a, b, c \in Seq(V) : (a \o b) \o c = a \o (b \o c)
BY ConcatAssociative

\* Three sequences that can be put end to end from either side.
Associates(a, b, c) == (a \o b) \o c = a \o (b \o c)

\* So it is with any three.
LEMMA AssociatesIn ==
  ASSUME NEW V, NEW a \in Seq(V), NEW b \in Seq(V), NEW c \in Seq(V)
  PROVE  Associates(a, b, c)
BY ConcatAssoc DEF Associates

\* FlattenSeq puts sequences end to end.
Chain(ss, g) == \A i \in 1 .. Len(ss) : g[i] = IF i = 1 THEN ss[i] ELSE g[i - 1] \o ss[i]

\* Two sequences of partial concatenations of one sequence of sequences
\* agree.
LEMMA ChainAgrees ==
  ASSUME NEW ss, Len(ss) \in Nat, NEW f, NEW g, Chain(ss, f), Chain(ss, g)
  PROVE  \A i \in 1 .. Len(ss) : f[i] = g[i]
<1> DEFINE S == {i \in 1 .. Len(ss) : f[i] # g[i]}
<1> SUFFICES ASSUME S # {} PROVE FALSE
  OBVIOUS
<1>1. PICK n \in S : \A m \in S : n <= m
  <2>1. S \in SUBSET Nat
    OBVIOUS
  <2> HIDE DEF S
  <2> QED BY <2>1, LeastNat
<1>2. CASE n = 1
  BY <1>2 DEF Chain
<1>3. CASE n # 1
  <2>1. n - 1 \in 1 .. Len(ss) /\ ~(n <= n - 1)
    BY <1>3
  <2>2. f[n - 1] = g[n - 1]
    BY <2>1, <1>1
  <2>3. f[n] = f[n - 1] \o ss[n] /\ g[n] = g[n - 1] \o ss[n]
    BY <1>3 DEF Chain
  <2> QED BY <2>2, <2>3
<1> QED BY <1>2, <1>3

\* A sequence of sequences has its partial concatenations.
LEMMA ChainExists ==
  ASSUME NEW V, NEW ss \in Seq(Seq(V))
  PROVE  \E g \in [1 .. Len(ss) -> Seq(V)] : Chain(ss, g)
<1> DEFINE D == 1 .. Len(ss)
           rank == [i \in D |-> i]
           P == UNION {{i} \X [Lower(D, rank, i) -> Seq(V)] : i \in D}
           G == [p \in P |-> IF p[1] = 1 THEN ss[p[1]] ELSE p[2][p[1] - 1] \o ss[p[1]]]
<1>1. rank \in [D -> Nat] /\ \A i \in D : Lower(D, rank, i) = 1 .. i - 1
  BY DEF Lower
<1>2. ASSUME NEW i \in D, NEW h \in [Lower(D, rank, i) -> Seq(V)]
      PROVE  /\ G[<<i, h>>] = IF i = 1 THEN ss[i] ELSE h[i - 1] \o ss[i]
             /\ G[<<i, h>>] \in Seq(V)
  <2>1. <<i, h>> \in P
    <3> HIDE DEF D, rank
    <3> QED OBVIOUS
  <2>2. G[<<i, h>>] = IF i = 1 THEN ss[i] ELSE h[i - 1] \o ss[i]
    BY <2>1
  <2>3. ss[i] \in Seq(V)
    OBVIOUS
  <2>4. i # 1 => h[i - 1] \in Seq(V)
    <3>1. i # 1 => i - 1 \in 1 .. i - 1
      <4>1. i \in Nat \ {0}
        OBVIOUS
      <4> QED BY ONLY <4>1
    <3>2. Lower(D, rank, i) = 1 .. i - 1
      BY ONLY <1>1, i \in D
    <3> HIDE DEF D, rank
    <3> QED BY ONLY <3>1, <3>2, h \in [Lower(D, rank, i) -> Seq(V)]
  <2> HIDE DEF G, P
  <2>5. i # 1 => h[i - 1] \o ss[i] \in Seq(V)
    BY <2>3, <2>4
  <2> QED BY <2>2, <2>3, <2>5
<1>3. PICK g \in [D -> Seq(V)] : Solves(D, rank, G, D, g)
  <2> HIDE DEF D, rank, G
  <2>1. Yields(D, rank, G, Seq(V))
    BY <1>2 DEF Yields
  <2> QED BY <1>1, <2>1, RecursionExists
<1>4. ASSUME NEW i \in D PROVE g[i] = IF i = 1 THEN ss[i] ELSE g[i - 1] \o ss[i]
  <2> DEFINE h == [x \in Lower(D, rank, i) |-> g[x]]
  <2>1. h \in [Lower(D, rank, i) -> Seq(V)]
    BY DEF Lower
  <2>2. i # 1 => h[i - 1] = g[i - 1]
    <3>1. i # 1 => i - 1 \in 1 .. i - 1
      <4>1. i \in Nat \ {0}
        OBVIOUS
      <4> QED BY ONLY <4>1
    <3>2. Lower(D, rank, i) = 1 .. i - 1
      BY ONLY <1>1, i \in D
    <3> HIDE DEF D, rank
    <3> QED BY <3>1, <3>2
  <2>3. g[i] = G[<<i, h>>]
    BY <1>3 DEF Step, Solves
  <2> HIDE DEF D, rank, G, h
  <2> QED BY <2>1, <2>2, <2>3, <1>2
<1>5. Chain(ss, g)
  BY <1>4 DEF Chain
<1> QED BY <1>5

\* What FlattenSeq is, without the function that computes it.
LEMMA FlattenIs ==
  ASSUME NEW V, NEW ss \in Seq(Seq(V))
  PROVE  /\ ss = <<>> => FlattenSeq(ss) = <<>>
         /\ \A g : ss # <<>> /\ Chain(ss, g) => FlattenSeq(ss) = g[Len(ss)]
         /\ FlattenSeq(ss) \in Seq(V)
<1>1. ss = <<>> => FlattenSeq(ss) = <<>>
  BY DEF FlattenSeq
<1>2. ASSUME ss # <<>>, NEW g, Chain(ss, g) PROVE FlattenSeq(ss) = g[Len(ss)]
  <2> DEFINE Body(f) == [i \in 1 .. Len(ss) |-> IF i = 1 THEN ss[i] ELSE f[i - 1] \o ss[i]]
             F == CHOOSE f : f = Body(f)
             k == [i \in 1 .. Len(ss) |-> g[i]]
  <2>0. Len(ss) \in Nat /\ Len(ss) # 0
    BY <1>2
  <2>1. k = Body(k)
    <3>1. ASSUME NEW i \in 1 .. Len(ss) PROVE k[i] = Body(k)[i]
      <4>1. CASE i = 1
        BY <4>1, <1>2 DEF Chain
      <4>2. CASE i # 1
        <5>1. i - 1 \in 1 .. Len(ss)
          BY <4>2
        <5>2. k[i - 1] = g[i - 1] /\ k[i] = g[i]
          BY <5>1
        <5> QED BY <4>2, <5>2, <1>2 DEF Chain
      <4> QED BY <4>1, <4>2
    <3> HIDE DEF Chain
    <3>2. k = [i \in 1 .. Len(ss) |-> k[i]] /\ Body(k) = [i \in 1 .. Len(ss) |-> Body(k)[i]]
      OBVIOUS
    <3> HIDE DEF k, Body
    <3> QED BY <3>1, <3>2
  <2>2. F = Body(F)
    <3> HIDE DEF k, Body
    <3> QED BY <2>1
  <2>3. Chain(ss, F)
    <3> HIDE DEF F
    <3>1. ASSUME NEW i \in 1 .. Len(ss)
          PROVE  F[i] = IF i = 1 THEN ss[i] ELSE F[i - 1] \o ss[i]
      BY <2>2
    <3> QED BY <3>1 DEF Chain
  <2>4. FlattenSeq(ss) = F[Len(ss)]
    BY <2>0 DEF FlattenSeq
  <2> HIDE DEF F
  <2>5. F[Len(ss)] = g[Len(ss)]
    BY <2>0, <2>3, <1>2, ChainAgrees
  <2> QED BY <2>4, <2>5
<1>3. FlattenSeq(ss) \in Seq(V)
  <2>1. CASE ss = <<>>
    <3>1. FlattenSeq(ss) = <<>> /\ <<>> \in Seq(V)
      BY <2>1, <1>1
    <3> QED BY <3>1
  <2>2. CASE ss # <<>>
    <3>1. PICK g \in [1 .. Len(ss) -> Seq(V)] : Chain(ss, g)
      BY ChainExists
    <3>2. Len(ss) \in 1 .. Len(ss)
      BY <2>2
    <3> QED BY <2>2, <3>1, <3>2, <1>2
  <2> QED BY <2>1, <2>2
<1> QED BY <1>1, <1>2, <1>3

\* Flattening one sequence more appends it.
LEMMA FlattenAppend ==
  ASSUME NEW V, NEW ss \in Seq(Seq(V)), NEW s \in Seq(V)
  PROVE  FlattenSeq(Append(ss, s)) = FlattenSeq(ss) \o s
<1> DEFINE tt == Append(ss, s)
           n == Len(ss)
<1>1. /\ tt \in Seq(Seq(V)) /\ Len(tt) = n + 1 /\ n \in Nat /\ tt # <<>>
      /\ \A i \in 1 .. n : tt[i] = ss[i]
      /\ tt[n + 1] = s
  <2>1. PICK W : W = Seq(V)
    OBVIOUS
  <2>2. ss \in Seq(W) /\ s \in W
    BY <2>1
  <2>3. /\ tt \in Seq(W) /\ Len(tt) = n + 1 /\ n \in Nat
        /\ \A i \in 1 .. n : tt[i] = ss[i]
        /\ tt[n + 1] = s
    BY <2>2, AppendProperties
  <2>4. tt # <<>>
    <3> HIDE DEF tt, n
    <3> QED BY ONLY <2>3
  <2> QED BY ONLY <2>1, <2>3, <2>4
<1>2. PICK g \in [1 .. Len(tt) -> Seq(V)] : Chain(tt, g)
  <2> HIDE DEF tt
  <2> QED BY <1>1, ChainExists
<1> HIDE DEF tt
<1>3. FlattenSeq(tt) = g[n + 1]
  BY <1>1, <1>2, FlattenIs
<1>4. CASE ss = <<>>
  <2>1. n = 0 /\ g[1] = s
    BY <1>4, <1>1, <1>2 DEF Chain
  <2>2. FlattenSeq(ss) = <<>>
    BY <1>4, FlattenIs
  <2> QED BY <2>1, <2>2, <1>3 DEF tt
<1>5. CASE ss # <<>>
  <2>1. n # 0
    BY <1>5
  <2>2. Chain(ss, g)
    <3> SUFFICES ASSUME NEW i \in 1 .. n PROVE g[i] = IF i = 1 THEN ss[i] ELSE g[i - 1] \o ss[i]
      BY DEF Chain
    <3>1. i \in 1 .. Len(tt) /\ tt[i] = ss[i]
      BY <1>1
    <3> QED BY <3>1, <1>2 DEF Chain
  <2>3. FlattenSeq(ss) = g[n]
    BY <1>5, <2>2, FlattenIs
  <2>4. g[n + 1] = g[n] \o s
    <3>1. n + 1 \in 1 .. Len(tt) /\ n + 1 # 1 /\ (n + 1) - 1 = n
      BY <1>1, <2>1
    <3>2. g[n + 1] = g[(n + 1) - 1] \o tt[n + 1]
      BY <3>1, <1>2 DEF Chain
    <3> QED BY <3>1, <3>2, <1>1
  <2> QED BY <2>3, <2>4, <1>3 DEF tt
<1> QED BY <1>4, <1>5

-----------------------------------------------------------------------------
\* Appending to the second of two sequences appends to both.
LEMMA ConcatAppend ==
  ASSUME NEW S, NEW s \in Seq(S), NEW u \in Seq(S), NEW x \in S
  PROVE  s \o Append(u, x) = Append(s \o u, x) /\ s \o u \in Seq(S)
<1>0. <<x>> \in Seq(S)
  OBVIOUS
<1> PICK y \in Seq(S) : y = <<x>>
  BY <1>0
<1>1. s \o u \in Seq(S)
  BY ConcatProperties
<1>2. Append(u, x) = u \o y /\ Append(s \o u, x) = (s \o u) \o y
  BY <1>1, AppendIsConcat
<1>3. (s \o u) \o y = s \o (u \o y)
  BY ConcatAssociative
<1> QED BY <1>1, <1>2, <1>3

\* A sequence that is not empty is one element appended to a shorter one.
LEMMA EndsIn ==
  ASSUME NEW S, NEW t \in Seq(S), t # <<>>
  PROVE  \E u \in Seq(S), x \in S : t = Append(u, x) /\ Len(t) = Len(u) + 1
<1>1. PICK u \in Seq(S), x \in S : t = Append(u, x)
  BY SequenceEmptyOrAppend
<1>2. Len(t) = Len(u) + 1
  BY <1>1, AppendProperties
<1> QED BY <1>1, <1>2

\* Flattening distributes over concatenation.
LEMMA FlattenConcat ==
  ASSUME NEW V, NEW ss \in Seq(Seq(V)), NEW tt \in Seq(Seq(V))
  PROVE  FlattenSeq(ss \o tt) = FlattenSeq(ss) \o FlattenSeq(tt)
<1> DEFINE Bad == {n \in Nat : \E t \in Seq(Seq(V)) :
                     Len(t) = n /\ FlattenSeq(ss \o t) # FlattenSeq(ss) \o FlattenSeq(t)}
<1> SUFFICES ASSUME Bad # {} PROVE FALSE
  <2>1. Len(tt) \in Nat
    OBVIOUS
  <2> QED BY <2>1
<1>1. PICK n \in Bad : \A m \in Bad : n <= m
  <2>1. Bad \in SUBSET Nat
    OBVIOUS
  <2> HIDE DEF Bad
  <2> QED BY <2>1, LeastNat
<1>2. PICK t \in Seq(Seq(V)) :
        Len(t) = n /\ FlattenSeq(ss \o t) # FlattenSeq(ss) \o FlattenSeq(t)
  OBVIOUS
<1>3. ASSUME NEW u \in Seq(Seq(V)), Len(u) \in Nat, Len(u) < Len(t)
      PROVE  FlattenSeq(ss \o u) = FlattenSeq(ss) \o FlattenSeq(u)
  <2> SUFFICES ASSUME FlattenSeq(ss \o u) # FlattenSeq(ss) \o FlattenSeq(u) PROVE FALSE
    OBVIOUS
  <2>1. Len(u) \in Bad
    BY <1>3
  <2>2. n <= Len(u)
    BY <2>1, <1>1
  <2> QED BY <2>2, <1>2, <1>3
<1> HIDE DEF Bad
<1>4. FlattenSeq(ss) \in Seq(V)
  BY FlattenIs
<1>5. CASE t = <<>>
  <2>1. ss \o t = ss
    BY <1>5, ConcatEmptySeq
  <2>2. FlattenSeq(t) = <<>>
    BY <1>5, FlattenIs
  <2>3. FlattenSeq(ss) \o <<>> = FlattenSeq(ss)
    BY <1>4, ConcatEmptySeq
  <2> QED BY <2>1, <2>2, <2>3, <1>2
<1>6. CASE t # <<>>
  <2>1. PICK u \in Seq(Seq(V)), x \in Seq(V) : t = Append(u, x) /\ Len(t) = Len(u) + 1
    BY <1>6, EndsIn
  <2>2. Len(u) \in Nat /\ Len(u) < Len(t)
    BY <2>1, LenProperties
  <2>3. FlattenSeq(ss \o u) = FlattenSeq(ss) \o FlattenSeq(u)
    BY <2>2, <1>3
  <2>4. ss \o t = Append(ss \o u, x) /\ ss \o u \in Seq(Seq(V))
    BY <2>1, ConcatAppend
  <2>5. /\ FlattenSeq(Append(ss \o u, x)) = FlattenSeq(ss \o u) \o x
        /\ FlattenSeq(t) = FlattenSeq(u) \o x
    BY <2>1, <2>4, FlattenAppend
  <2>6. FlattenSeq(u) \in Seq(V) /\ x \in Seq(V)
    BY FlattenIs
  <2>7. (FlattenSeq(ss) \o FlattenSeq(u)) \o x = FlattenSeq(ss) \o (FlattenSeq(u) \o x)
    <3>1. Associates(FlattenSeq(ss), FlattenSeq(u), x)
      BY ONLY <1>4, <2>6, AssociatesIn
    <3> QED BY ONLY <3>1 DEF Associates
  <2> QED BY <1>2, <2>3, <2>4, <2>5, <2>7
<1> QED BY <1>5, <1>6

\* Preorder is what its definition says, and a sequence of expressions.
LEMMA PreorderTree ==
  /\ \A e \in Expr : Preorder[e] \in Seq(Expr) /\ Preorder[e] = <<e>> \o Preorders(e.parts)
  /\ \A es \in Seq(Expr) : /\ Preorders(es) \in Seq(Expr)
                           /\ [i \in DOMAIN es |-> Preorder[es[i]]] \in Seq(Seq(Expr))
<1> DEFINE V == Seq(Expr)
           P == UNION {{e} \X [Lower(Expr, Depth, e) -> V] : e \in Expr}
           Body(f, e) == <<e>> \o FlattenSeq([i \in DOMAIN e.parts |-> f[e.parts[i]]])
           G == [p \in P |-> Body(p[2], p[1])]
<1>1. \A e \in Expr : /\ e.parts \in Seq(Expr)
                      /\ \A i \in DOMAIN e.parts : e.parts[i] \in Lower(Expr, Depth, e)
  <2> SUFFICES ASSUME NEW e \in Expr
               PROVE  /\ e.parts \in Seq(Expr)
                      /\ \A i \in DOMAIN e.parts : e.parts[i] \in Lower(Expr, Depth, e)
    OBVIOUS
  <2>1. e.parts \in Seq(Expr)
    BY ExprAssumption
  <2>2. \A i \in DOMAIN e.parts : e.parts[i] \in Expr
    BY <2>1
  <2> QED BY <2>1, <2>2, DepthAssumption DEF Lower
<1>2. ASSUME NEW e \in Expr, NEW h, \A x \in Lower(Expr, Depth, e) : h[x] \in V
      PROVE  /\ [i \in DOMAIN e.parts |-> h[e.parts[i]]] \in Seq(V)
             /\ Body(h, e) \in V
  <2> DEFINE s == [i \in DOMAIN e.parts |-> h[e.parts[i]]]
  <2>1. s \in Seq(V)
    <3>1. \A i \in DOMAIN e.parts : h[e.parts[i]] \in V
      BY <1>1, <1>2
    <3>2. DOMAIN e.parts = 1 .. Len(e.parts) /\ Len(e.parts) \in Nat
      BY <1>1
    <3> HIDE DEF V
    <3> QED BY <3>1, <3>2
  <2>2. FlattenSeq(s) \in V
    <3> HIDE DEF s
    <3> QED BY <2>1, FlattenIs
  <2> HIDE DEF s
  <2>3. <<e>> \o FlattenSeq(s) \in V
    BY <2>2
  <2> QED BY <2>1, <2>3 DEF s
<1>3. ASSUME NEW e \in Expr, NEW f, NEW g, \A x \in Lower(Expr, Depth, e) : f[x] = g[x]
      PROVE  Body(f, e) = Body(g, e)
  <2>1. [i \in DOMAIN e.parts |-> f[e.parts[i]]] = [i \in DOMAIN e.parts |-> g[e.parts[i]]]
    BY <1>1, <1>3
  <2> QED BY <2>1
<1>4. ASSUME NEW e \in Expr, NEW h \in [Lower(Expr, Depth, e) -> V]
      PROVE  G[<<e, h>>] = Body(h, e)
  <2>1. <<e, h>> \in P
    <3> HIDE DEF V
    <3> QED OBVIOUS
  <2> HIDE DEF P, Body
  <2> QED BY <2>1
<1>5. ASSUME NEW f \in [Expr -> V], NEW e \in Expr PROVE Step(Expr, Depth, G, f, e) = Body(f, e)
  <2> DEFINE h == [x \in Lower(Expr, Depth, e) |-> f[x]]
  <2>1. h \in [Lower(Expr, Depth, e) -> V] /\ \A x \in Lower(Expr, Depth, e) : h[x] = f[x]
    BY DEF Lower
  <2>2. Step(Expr, Depth, G, f, e) = G[<<e, h>>]
    BY DEF Step
  <2> HIDE DEF h, G, Body
  <2> QED BY <2>1, <2>2, <1>3, <1>4
<1>6. PICK f \in [Expr -> V] : Solves(Expr, Depth, G, Expr, f)
  <2> HIDE DEF G, V, Body
  <2>1. Yields(Expr, Depth, G, V)
    BY <1>2, <1>4 DEF Yields
  <2>2. Depth \in [Expr -> Nat]
    BY DepthAssumption
  <2> QED BY <2>1, <2>2, RecursionExists
<1> DEFINE Eq(g) == g = [e \in Expr |-> <<e>> \o FlattenSeq([i \in DOMAIN e.parts |-> g[e.parts[i]]])]
<1>7. Eq(f)
  <2>1. ASSUME NEW e \in Expr PROVE f[e] = Body(f, e)
    BY <1>5, <1>6 DEF Solves
  <2>2. f = [e \in Expr |-> Body(f, e)]
    <3> HIDE DEF Body, V
    <3> QED BY <2>1
  <2> QED BY <2>2
<1>8. Eq(Preorder)
  <2>1. Preorder = CHOOSE g : Eq(g)
    BY DEF Preorder
  <2> HIDE DEF Eq
  <2> QED BY <2>1, <1>7
<1>9. \A e \in Expr : Preorder[e] = Body(Preorder, e) /\ f[e] = Body(f, e)
  <2> HIDE DEF V
  <2> QED BY <1>7, <1>8
<1>10. \A e \in Expr : Preorder[e] = f[e]
  <2> DEFINE S == {Depth[e] : e \in {x \in Expr : Preorder[x] # f[x]}}
  <2> SUFFICES ASSUME S # {} PROVE FALSE
    OBVIOUS
  <2>1. PICK n \in S : \A m \in S : n <= m
    <3>1. S \in SUBSET Nat
      BY DepthAssumption
    <3> HIDE DEF S
    <3> QED BY <3>1, LeastNat
  <2>2. PICK e \in Expr : Preorder[e] # f[e] /\ Depth[e] = n
    OBVIOUS
  <2>3. \A x \in Lower(Expr, Depth, e) : Preorder[x] = f[x]
    <3> SUFFICES ASSUME NEW x \in Lower(Expr, Depth, e), Preorder[x] # f[x] PROVE FALSE
      OBVIOUS
    <3>1. x \in Expr /\ Depth[x] < Depth[e] /\ Depth[x] \in Nat /\ Depth[e] \in Nat
      BY DepthAssumption DEF Lower
    <3>2. Depth[x] \in S
      BY <3>1
    <3>3. ~(Depth[e] <= Depth[x])
      BY <3>1
    <3> HIDE DEF S
    <3> QED BY <3>2, <3>3, <2>1, <2>2
  <2> HIDE DEF Body
  <2> QED BY <2>2, <2>3, <1>3, <1>9
<1>11. \A e \in Expr : Preorder[e] \in V
  <2> HIDE DEF V
  <2> QED BY <1>10
<1>12. \A e \in Expr : Preorder[e] = <<e>> \o Preorders(e.parts)
  BY <1>9 DEF Preorders
<1>13. ASSUME NEW es \in Seq(Expr)
       PROVE  Preorders(es) \in Seq(Expr) /\ [i \in DOMAIN es |-> Preorder[es[i]]] \in Seq(Seq(Expr))
  <2> DEFINE s == [i \in DOMAIN es |-> Preorder[es[i]]]
  <2>1. s \in Seq(Seq(Expr))
    <3>1. \A i \in 1 .. Len(es) : Preorder[es[i]] \in V
      BY <1>11
    <3>2. DOMAIN es = 1 .. Len(es) /\ Len(es) \in Nat
      OBVIOUS
    <3>3. s \in Seq(V)
      <4> HIDE DEF V
      <4> QED BY <3>1, <3>2
    <3> QED BY <3>3
  <2>2. FlattenSeq(s) \in Seq(Expr)
    <3> HIDE DEF s
    <3> QED BY <2>1, FlattenIs
  <2> QED BY <2>1, <2>2 DEF Preorders
<1> QED BY <1>11, <1>12, <1>13

\* The preorder of two lists is that of one and then of the other.
LEMMA PreordersConcat ==
  ASSUME NEW es \in Seq(Expr), NEW fs \in Seq(Expr)
  PROVE  Preorders(es \o fs) = Preorders(es) \o Preorders(fs)
<1> DEFINE All(s) == [i \in DOMAIN s |-> Preorder[s[i]]]
<1>1. All(es \o fs) = All(es) \o All(fs)
  <2> PICK W : W = Seq(Expr)
    OBVIOUS
  <2>1. \A s \in Seq(Expr) : /\ All(s) \in Seq(W) /\ Len(All(s)) = Len(s)
                             /\ \A i \in 1 .. Len(s) : All(s)[i] = Preorder[s[i]]
    <3> SUFFICES ASSUME NEW s \in Seq(Expr)
                 PROVE  /\ All(s) \in Seq(W) /\ Len(All(s)) = Len(s)
                        /\ \A i \in 1 .. Len(s) : All(s)[i] = Preorder[s[i]]
      OBVIOUS
    <3>1. All(s) \in Seq(W)
      BY PreorderTree
    <3>2. DOMAIN All(s) = 1 .. Len(s) /\ Len(s) \in Nat
      OBVIOUS
    <3>3. DOMAIN All(s) = 1 .. Len(All(s)) /\ Len(All(s)) \in Nat
      BY <3>1, LenProperties
    <3> QED BY <3>1, <3>2, <3>3
  <2>2. es \o fs \in Seq(Expr) /\ Len(es \o fs) = Len(es) + Len(fs)
    BY ConcatProperties
  <2>3. Len(es) \in Nat /\ Len(fs) \in Nat
    OBVIOUS
  <2>4. /\ All(es) \o All(fs) \in Seq(W) /\ Len(All(es) \o All(fs)) = Len(es) + Len(fs)
        /\ \A i \in 1 .. Len(es) + Len(fs) :
             (All(es) \o All(fs))[i] = IF i <= Len(es) THEN All(es)[i] ELSE All(fs)[i - Len(es)]
    <3>1. PICK a \in Seq(W), b \in Seq(W) : a = All(es) /\ b = All(fs)
      BY <2>1
    <3>2. Len(a) = Len(es) /\ Len(b) = Len(fs)
      BY <3>1, <2>1
    <3>3. /\ a \o b \in Seq(W) /\ Len(a \o b) = Len(a) + Len(b)
          /\ \A i \in 1 .. Len(a) + Len(b) : (a \o b)[i] = IF i <= Len(a) THEN a[i] ELSE b[i - Len(a)]
      BY ConcatProperties
    <3> QED BY <3>1, <3>2, <3>3
  <2>5. ASSUME NEW i \in 1 .. Len(es) + Len(fs)
        PROVE  All(es \o fs)[i] = (All(es) \o All(fs))[i]
    <3>1. All(es \o fs)[i] = Preorder[(es \o fs)[i]]
      BY <2>1, <2>2
    <3> HIDE DEF All
    <3>2. CASE i <= Len(es)
      <4>1. i \in 1 .. Len(es) /\ (es \o fs)[i] = es[i]
        BY <3>2, <2>3, ConcatProperties
      <4> QED BY <3>1, <3>2, <4>1, <2>1, <2>4
    <3>3. CASE ~(i <= Len(es))
      <4>1. i - Len(es) \in 1 .. Len(fs) /\ (es \o fs)[i] = fs[i - Len(es)]
        BY <3>3, <2>3, ConcatProperties
      <4> QED BY <3>1, <3>3, <4>1, <2>1, <2>4
    <3> QED BY <3>2, <3>3
  <2>6. All(es \o fs) \in Seq(W) /\ Len(All(es \o fs)) = Len(es) + Len(fs)
    BY <2>1, <2>2
  <2> HIDE DEF All
  <2> QED BY <2>4, <2>5, <2>6, SeqEqual
<1>2. All(es) \in Seq(Seq(Expr)) /\ All(fs) \in Seq(Seq(Expr))
  BY PreorderTree
<1>3. \A s : Preorders(s) = FlattenSeq(All(s))
  BY DEF Preorders
<1> HIDE DEF All
<1> QED BY <1>1, <1>2, <1>3, FlattenConcat

\* The preorder of one expression is its preorder as a list.
LEMMA SinglePreorder ==
  ASSUME NEW e \in Expr
  PROVE  Preorders(<<e>>) = Preorder[e]
<1>0. <<e>> \in Seq(Expr)
  OBVIOUS
<1> PICK one \in Seq(Expr) : one = <<e>>
  BY <1>0
<1> DEFINE s == [i \in DOMAIN one |-> Preorder[one[i]]]
<1>1. s \in Seq(Seq(Expr))
  BY PreorderTree
<1>2. DOMAIN s = 1 .. 1 /\ s[1] = Preorder[e]
  <2>1. Len(one) = 1 /\ one[1] = e
    OBVIOUS
  <2> QED BY <2>1
<1>3. Len(s) = 1
  <2> HIDE DEF s
  <2>1. PICK W : W = Seq(Expr)
    OBVIOUS
  <2>2. DOMAIN s = 1 .. Len(s) /\ Len(s) \in Nat
    BY <1>1, <2>1, LenProperties
  <2>3. \A n \in Nat : 1 .. n = 1 .. 1 => n = 1
    <3> SUFFICES ASSUME NEW n \in Nat, 1 .. n = 1 .. 1 PROVE n = 1
      OBVIOUS
    <3>1. 1 \in 1 .. n
      OBVIOUS
    <3>2. n \in 1 .. n => n \in 1 .. 1
      OBVIOUS
    <3> QED BY <3>1, <3>2
  <2> QED BY <2>2, <2>3, <1>2
<1> HIDE DEF s
<1>4. s # <<>>
  <2>1. ASSUME NEW x, x = <<>> PROVE Len(x) = 0
    BY <2>1
  <2>2. 0 # 1
    OBVIOUS
  <2> QED BY <2>1, <2>2, <1>3, Zenon
<1>5. Chain(s, s)
  BY <1>3 DEF Chain
<1>6. FlattenSeq(s) = s[1]
  BY <1>1, <1>3, <1>4, <1>5, FlattenIs
<1> QED BY <1>2, <1>6 DEF Preorders, s

\* The preorder of what is still to be written, one expression at a time.
LEMMA PreordersCons ==
  ASSUME NEW es \in Seq(Expr), es # <<>>
  PROVE  /\ Head(es) \in Expr /\ Head(es).parts \o Tail(es) \in Seq(Expr)
         /\ Preorders(es) = <<Head(es)>> \o Preorders(Head(es).parts \o Tail(es))
<1> PICK e \in Expr, fs \in Seq(Expr) : e = Head(es) /\ fs = Tail(es)
  BY HeadTailProperties
<1>1. <<e>> \in Seq(Expr) /\ e.parts \in Seq(Expr)
  BY ExprAssumption
<1>2. es = <<e>> \o fs
  OBVIOUS
<1>3. Preorders(<<e>>) = Preorder[e]
  BY SinglePreorder
<1>4. Preorders(es) = Preorder[e] \o Preorders(fs)
  BY <1>1, <1>2, <1>3, PreordersConcat
<1>5. Preorder[e] = <<e>> \o Preorders(e.parts)
  BY PreorderTree
<1>6. Preorders(e.parts \o fs) = Preorders(e.parts) \o Preorders(fs)
  BY <1>1, PreordersConcat
<1>7. Preorders(e.parts) \in Seq(Expr) /\ Preorders(fs) \in Seq(Expr)
  BY <1>1, PreorderTree
<1>8. (<<e>> \o Preorders(e.parts)) \o Preorders(fs) = <<e>> \o (Preorders(e.parts) \o Preorders(fs))
  BY <1>1, <1>7, ConcatAssoc
<1>9. e.parts \o fs \in Seq(Expr)
  BY <1>1, ConcatProperties
<1> QED BY <1>4, <1>5, <1>6, <1>8, <1>9

-----------------------------------------------------------------------------
ItemName == [kind : {"function", "global"}, id : Nat]
Tokens   == [form : {e.form : e \in Expr}, kind : NameKind, n : Nat, parts : Nat]
Entries  == [kind : {"function", "global"}, n : Nat, missing : BOOLEAN, reached : BOOLEAN,
             text : Seq(Tokens)]

\* The numbers 0, 1, 2 ... of as many ids, each given once.
Dense(numbers) ==
  /\ DOMAIN numbers \subseteq Nat
  /\ IsFiniteSet(DOMAIN numbers)
  /\ numbers \in [DOMAIN numbers -> Nat]
  /\ \A a \in DOMAIN numbers : numbers[a] < Cardinality(DOMAIN numbers)
  /\ \A a, b \in DOMAIN numbers : numbers[a] = numbers[b] => a = b

TypeOK ==
  /\ IsProgram(program)
  /\ Dense(functions) /\ Dense(globals) /\ Dense(locals)
  /\ function_queue \in Seq(Nat)
  /\ global_queue \in Seq(Nat)
  /\ todo \in Seq(Expr)
  /\ leftover \in Seq(ItemName)
  /\ out \in Seq(Entries)
  /\ phase \in {"reached", "unreachable", "done"}

\* The queue of one kind of items holds what is numbered and has no entry, in
\* the order of the numbers.
QueueHolds(queue, numbers, kind, entries) ==
  \E k \in Nat :
    /\ k + Len(queue) = Cardinality(DOMAIN numbers)
    /\ \A i \in 1 .. Len(queue) : queue[i] \in DOMAIN numbers /\ numbers[queue[i]] = k + i - 1
    /\ \A i \in DOMAIN entries : entries[i].kind = kind => entries[i].n < k
    /\ \A n \in Nat : n < k => \E i \in DOMAIN entries : entries[i].kind = kind /\ entries[i].n = n

Distinct(entries) ==
  \A i, j \in DOMAIN entries :
    entries[i].kind = entries[j].kind /\ entries[i].n = entries[j].n => i = j

\* Once the unreachable part has begun, what is unnumbered is still listed.
Listed ==
  phase # "reached" =>
    \A k \in DOMAIN Items :
      HasNumber(Items[k]) \/ \E j \in DOMAIN leftover : leftover[j] = Items[k]

IInv ==
  /\ TypeOK
  /\ QueueHolds(function_queue, functions, "function", out)
  /\ QueueHolds(global_queue, globals, "global", out)
  /\ Distinct(out)
  /\ Listed
  /\ phase = "done" => function_queue = <<>> /\ global_queue = <<>> /\ leftover = <<>>
                       /\ todo = <<>>

-----------------------------------------------------------------------------
\* Numbering one id more.
LEMMA NumberedDense ==
  ASSUME NEW m, Dense(m), NEW id \in Nat
  PROVE  /\ Dense(Numbered(m, id))
         /\ id \in DOMAIN m => Numbered(m, id) = m
         /\ DOMAIN Numbered(m, id) = DOMAIN m \cup {id}
         /\ \A a \in DOMAIN m : Numbered(m, id)[a] = m[a]
         /\ id \notin DOMAIN m =>
              /\ Numbered(m, id)[id] = Cardinality(DOMAIN m)
              /\ Cardinality(DOMAIN m \cup {id}) = Cardinality(DOMAIN m) + 1
<1> DEFINE n == Numbered(m, id)
<1>1. DOMAIN n = DOMAIN m \cup {id} /\ \A a \in DOMAIN m : n[a] = m[a]
  BY DEF Numbered
<1>2. Cardinality(DOMAIN m) \in Nat
  BY FS_CardinalityType DEF Dense
<1>3. CASE id \in DOMAIN m
  <2>1. DOMAIN n = DOMAIN m
    BY <1>1, <1>3
  <2>2. n = m
    BY <1>1, <1>3, <2>1 DEF Numbered, Dense
  <2> QED BY <1>1, <1>3, <2>2
<1>4. CASE id \notin DOMAIN m
  <2>1. n[id] = Cardinality(DOMAIN m)
    BY <1>4 DEF Numbered
  <2>2. /\ IsFiniteSet(DOMAIN m \cup {id})
        /\ Cardinality(DOMAIN m \cup {id}) = Cardinality(DOMAIN m) + 1
    BY <1>4, FS_AddElement DEF Dense
  <2>3. n \in [DOMAIN n -> Nat]
    BY <1>1, <1>2, <2>1 DEF Numbered, Dense
  <2>4. \A a \in DOMAIN n : n[a] < Cardinality(DOMAIN n)
    BY <1>1, <1>2, <2>1, <2>2 DEF Dense
  <2>5. \A a, b \in DOMAIN n : n[a] = n[b] => a = b
    BY <1>1, <1>2, <2>1 DEF Dense
  <2>6. DOMAIN n \subseteq Nat /\ IsFiniteSet(DOMAIN n)
    BY <1>1, <2>2 DEF Dense
  <2>7. Dense(n)
    BY <2>3, <2>4, <2>5, <2>6 DEF Dense
  <2> QED BY <1>1, <1>4, <2>1, <2>2, <2>7
<1> QED BY <1>3, <1>4

\* Meeting an item keeps its queue in order.
LEMMA MeetingQueues ==
  ASSUME NEW m, Dense(m), NEW q \in Seq(Nat), NEW id \in Nat, NEW kind, NEW o,
         QueueHolds(q, m, kind, o)
  PROVE  /\ QueueHolds(Queued(q, m, id), Numbered(m, id), kind, o)
         /\ Queued(q, m, id) \in Seq(Nat)
<1>1. CASE id \in DOMAIN m
  BY <1>1, NumberedDense DEF Queued
<1>2. CASE id \notin DOMAIN m
  <2> DEFINE n == Numbered(m, id)
             r == Append(q, id)
  <2>1. PICK k \in Nat :
          /\ k + Len(q) = Cardinality(DOMAIN m)
          /\ \A i \in 1 .. Len(q) : q[i] \in DOMAIN m /\ m[q[i]] = k + i - 1
          /\ \A i \in DOMAIN o : o[i].kind = kind => o[i].n < k
          /\ \A x \in Nat : x < k => \E i \in DOMAIN o : o[i].kind = kind /\ o[i].n = x
    BY DEF QueueHolds
  <2>2. /\ DOMAIN n = DOMAIN m \cup {id} /\ \A a \in DOMAIN m : n[a] = m[a]
        /\ n[id] = Cardinality(DOMAIN m)
        /\ Cardinality(DOMAIN n) = Cardinality(DOMAIN m) + 1
    <3>1. /\ DOMAIN Numbered(m, id) = DOMAIN m \cup {id}
          /\ \A a \in DOMAIN m : Numbered(m, id)[a] = m[a]
          /\ Numbered(m, id)[id] = Cardinality(DOMAIN m)
          /\ Cardinality(DOMAIN m \cup {id}) = Cardinality(DOMAIN m) + 1
      BY ONLY <1>2, Dense(m), id \in Nat, NumberedDense, Zenon
    <3> QED BY ONLY <3>1
  <2>3. /\ r \in Seq(Nat) /\ Len(r) = Len(q) + 1
        /\ \A i \in 1 .. Len(q) : r[i] = q[i]
        /\ r[Len(q) + 1] = id
    OBVIOUS
  <2>h. Queued(q, m, id) = r
    BY <1>2 DEF Queued
  <2> HIDE DEF n, r
  <2>4. k + Len(r) = Cardinality(DOMAIN n)
    BY <2>1, <2>2, <2>3
  <2>5. \A i \in 1 .. Len(r) : r[i] \in DOMAIN n /\ n[r[i]] = k + i - 1
    <3> SUFFICES ASSUME NEW i \in 1 .. Len(r)
                 PROVE  r[i] \in DOMAIN n /\ n[r[i]] = k + i - 1
      OBVIOUS
    <3>1. CASE i \in 1 .. Len(q)
      BY <3>1, <2>1, <2>2, <2>3
    <3>2. CASE i = Len(q) + 1
      BY <3>2, <2>1, <2>2, <2>3
    <3> QED BY <3>1, <3>2, <2>3
  <2>6. QueueHolds(r, n, kind, o)
    BY <2>1, <2>4, <2>5 DEF QueueHolds
  <2> QED BY <2>6, <2>3, <2>h DEF n
<1> QED BY <1>1, <1>2

\* Writing the head of a queue.
LEMMA WritingHead ==
  ASSUME NEW m, NEW q \in Seq(Nat), q # <<>>, NEW kind, NEW o \in Seq(Entries),
         NEW e \in Entries, e.kind = kind, e.n = m[Head(q)],
         QueueHolds(q, m, kind, o)
  PROVE  /\ QueueHolds(Tail(q), m, kind, Append(o, e))
         /\ \A i \in DOMAIN o : o[i].kind = kind => o[i].n # e.n
<1>1. PICK k \in Nat :
        /\ k + Len(q) = Cardinality(DOMAIN m)
        /\ \A i \in 1 .. Len(q) : q[i] \in DOMAIN m /\ m[q[i]] = k + i - 1
        /\ \A i \in DOMAIN o : o[i].kind = kind => o[i].n < k
        /\ \A x \in Nat : x < k => \E i \in DOMAIN o : o[i].kind = kind /\ o[i].n = x
  BY DEF QueueHolds
<1> DEFINE t == Tail(q)
           p == Append(o, e)
<1>2. e.n = k
  BY <1>1
<1>3. /\ Len(t) = Len(q) - 1 /\ Len(q) \in Nat /\ Len(t) \in Nat
      /\ \A i \in 1 .. Len(t) : t[i] = q[i + 1]
  OBVIOUS
<1>4. /\ DOMAIN p = DOMAIN o \cup {Len(o) + 1}
      /\ \A i \in DOMAIN o : p[i] = o[i]
      /\ p[Len(o) + 1] = e
  OBVIOUS
<1> HIDE DEF t, p
<1>5. (k + 1) + Len(t) = Cardinality(DOMAIN m)
  BY <1>1, <1>3
<1>6. \A i \in 1 .. Len(t) : t[i] \in DOMAIN m /\ m[t[i]] = (k + 1) + i - 1
  <2> SUFFICES ASSUME NEW i \in 1 .. Len(t)
               PROVE  t[i] \in DOMAIN m /\ m[t[i]] = (k + 1) + i - 1
    OBVIOUS
  <2>1. i + 1 \in 1 .. Len(q) /\ t[i] = q[i + 1]
    BY <1>3
  <2>2. q[i + 1] \in DOMAIN m /\ m[q[i + 1]] = k + (i + 1) - 1
    BY <2>1, <1>1
  <2>3. k + (i + 1) - 1 = (k + 1) + i - 1
    BY <2>1
  <2> QED BY <2>1, <2>2, <2>3
<1>7. \A i \in DOMAIN p : p[i].kind = kind => p[i].n < k + 1
  <2> SUFFICES ASSUME NEW i \in DOMAIN p, p[i].kind = kind PROVE p[i].n < k + 1
    OBVIOUS
  <2>1. CASE i \in DOMAIN o
    <3>1. p[i] = o[i] /\ o[i] \in Entries
      BY <2>1, <1>4
    <3>2. o[i].n < k /\ o[i].n \in Nat
      BY <2>1, <3>1, <1>1 DEF Entries
    <3> QED BY <3>1, <3>2
  <2>2. CASE i = Len(o) + 1
    BY <2>2, <1>2, <1>4
  <2> QED BY <2>1, <2>2, <1>4
<1>8. \A x \in Nat : x < k + 1 => \E i \in DOMAIN p : p[i].kind = kind /\ p[i].n = x
  <2> SUFFICES ASSUME NEW x \in Nat, x < k + 1
               PROVE  \E i \in DOMAIN p : p[i].kind = kind /\ p[i].n = x
    OBVIOUS
  <2>1. CASE x < k
    <3>1. PICK i \in DOMAIN o : o[i].kind = kind /\ o[i].n = x
      BY <1>1, <2>1
    <3> QED BY <3>1, <1>4
  <2>2. CASE ~(x < k)
    <3>1. x = k
      BY <2>2
    <3> QED BY <3>1, <1>2, <1>4
  <2> QED BY <2>1, <2>2
<1>9. QueueHolds(t, m, kind, p)
  <2>1. k + 1 \in Nat
    OBVIOUS
  <2> QED BY <2>1, <1>5, <1>6, <1>7, <1>8 DEF QueueHolds
<1>10. \A i \in DOMAIN o : o[i].kind = kind => o[i].n # e.n
  BY <1>1, <1>2
<1> QED BY <1>9, <1>10 DEF t, p

\* An entry of the other kind, and tokens added to an entry, leave a queue as
\* it is.
LEMMA QueueKept ==
  ASSUME NEW m, NEW q, NEW kind, NEW o, NEW p,
         DOMAIN o \subseteq DOMAIN p,
         \A i \in DOMAIN o : p[i].kind = o[i].kind /\ p[i].n = o[i].n,
         \A i \in DOMAIN p : i \notin DOMAIN o => p[i].kind # kind,
         QueueHolds(q, m, kind, o)
  PROVE  QueueHolds(q, m, kind, p)
<1>1. PICK k \in Nat :
        /\ k + Len(q) = Cardinality(DOMAIN m)
        /\ \A i \in 1 .. Len(q) : q[i] \in DOMAIN m /\ m[q[i]] = k + i - 1
        /\ \A i \in DOMAIN o : o[i].kind = kind => o[i].n < k
        /\ \A x \in Nat : x < k => \E i \in DOMAIN o : o[i].kind = kind /\ o[i].n = x
  BY DEF QueueHolds
<1>2. \A i \in DOMAIN p : p[i].kind = kind => p[i].n < k
  BY <1>1
<1>3. \A x \in Nat : x < k => \E i \in DOMAIN p : p[i].kind = kind /\ p[i].n = x
  BY <1>1
<1> QED BY <1>1, <1>2, <1>3 DEF QueueHolds

-----------------------------------------------------------------------------
\* The facts about the program the steps need.
LEMMA ProgramTypes ==
  ASSUME IsProgram(program)
  PROVE  /\ FunctionIds \in Seq(ItemName) /\ GlobalIds \in Seq(ItemName)
         /\ Items \in Seq(ItemName)
         /\ \A id \in Nat : HasFunction(id) =>
              Append(FunctionById(id).parameters, FunctionById(id).body) \in Seq(Expr)
         /\ \A id \in Nat : HasGlobal(id) => <<program.globals[id]>> \in Seq(Expr)
<1>1. /\ program.functions \in Seq(FunctionEntry)
      /\ program.keys \in Seq(Nat)
      /\ program.globals \in [{program.keys[i] : i \in DOMAIN program.keys} -> Expr]
  BY DEF IsProgram
<1> DEFINE fs == program.functions
           ks == program.keys
<1>2. FunctionIds \in Seq(ItemName)
  <2>1. \A i \in 1 .. Len(fs) : Id("function", fs[i].id) \in ItemName
    <3>1. \A i \in 1 .. Len(fs) : fs[i] \in FunctionEntry
      BY <1>1
    <3>2. \A f \in FunctionEntry : f.id \in Nat
      BY DEF FunctionEntry
    <3> QED BY <3>1, <3>2 DEF Id, ItemName
  <2>2. FunctionIds = [i \in 1 .. Len(fs) |-> Id("function", fs[i].id)]
    BY <1>1 DEF FunctionIds
  <2> HIDE DEF fs
  <2>3. Len(fs) \in Nat
    BY <1>1 DEF fs
  <2> QED BY <2>1, <2>2, <2>3
<1>3. GlobalIds \in Seq(ItemName)
  <2>1. \A i \in 1 .. Len(ks) : Id("global", ks[i]) \in ItemName
    BY <1>1 DEF Id, ItemName
  <2>2. GlobalIds = [i \in 1 .. Len(ks) |-> Id("global", ks[i])]
    BY <1>1 DEF GlobalIds
  <2> HIDE DEF ks
  <2>3. Len(ks) \in Nat
    BY <1>1 DEF ks
  <2> QED BY <2>1, <2>2, <2>3
<1>4. Items \in Seq(ItemName)
  BY <1>2, <1>3 DEF Items
<1>5. ASSUME NEW id \in Nat, HasFunction(id)
      PROVE  Append(FunctionById(id).parameters, FunctionById(id).body) \in Seq(Expr)
  <2>1. FunctionById(id) \in FunctionEntry
    BY <1>1, <1>5 DEF HasFunction, FunctionById
  <2>2. FunctionById(id).parameters \in Seq(Expr) /\ FunctionById(id).body \in Expr
    BY <2>1 DEF FunctionEntry
  <2> QED BY <2>2
<1>6. ASSUME NEW id \in Nat, HasGlobal(id)
      PROVE  <<program.globals[id]>> \in Seq(Expr)
  <2>1. program.globals[id] \in Expr
    BY <1>1, <1>6 DEF HasGlobal
  <2> QED BY <2>1
<1> QED BY <1>2, <1>3, <1>4, <1>5, <1>6

\* No numbers are dense numbers.
LEMMA EmptyDense == Dense([id \in {} |-> 0])
BY FS_EmptySet DEF Dense

\* Nothing is written of a program but main is queued.
Fresh ==
  /\ IsProgram(program)
  /\ functions = [id \in {Main} |-> 0] /\ function_queue = <<Main>>
  /\ globals = [id \in {} |-> 0] /\ global_queue = <<>>
  /\ locals = [id \in {} |-> 0]
  /\ out = <<>> /\ todo = <<>> /\ leftover = <<>> /\ phase = "reached"

\* A program that is about to be compiled is fresh.
LEMMA InitFresh == Init => Fresh
BY ProgramAssumption DEF Init, Fresh

\* The invariant holds of a fresh program.
LEMMA FreshInv == Fresh => IInv
<1> SUFFICES ASSUME Fresh PROVE IInv
  OBVIOUS
<1>1. /\ IsProgram(program) /\ functions = [id \in {Main} |-> 0] /\ function_queue = <<Main>>
      /\ globals = [id \in {} |-> 0] /\ global_queue = <<>> /\ locals = [id \in {} |-> 0]
      /\ out = <<>> /\ todo = <<>> /\ leftover = <<>> /\ phase = "reached"
  BY DEF Fresh
<1>2. IsFiniteSet({Main}) /\ Cardinality({Main}) = 1 /\ Cardinality({}) = 0
  BY FS_Singleton, FS_EmptySet
<1>3. Dense(functions)
  BY <1>1, <1>2 DEF Dense, Main
<1>4. Dense(globals) /\ Dense(locals)
  BY <1>1, EmptyDense
<1>5. /\ function_queue \in Seq(Nat) /\ global_queue \in Seq(Nat) /\ todo \in Seq(Expr)
      /\ leftover \in Seq(ItemName) /\ out \in Seq(Entries)
  BY <1>1 DEF Main
<1>6. TypeOK
  BY <1>1, <1>3, <1>4, <1>5 DEF TypeOK
<1>7. QueueHolds(function_queue, functions, "function", out)
  <2>1. 0 + Len(function_queue) = Cardinality(DOMAIN functions)
    BY <1>1, <1>2
  <2>2. \A i \in 1 .. Len(function_queue) :
          /\ function_queue[i] \in DOMAIN functions
          /\ functions[function_queue[i]] = 0 + i - 1
    BY <1>1
  <2>3. /\ \A i \in DOMAIN out : out[i].kind = "function" => out[i].n < 0
        /\ \A n \in Nat : n < 0 => \E i \in DOMAIN out : out[i].kind = "function" /\ out[i].n = n
    BY <1>1
  <2> QED BY <2>1, <2>2, <2>3 DEF QueueHolds
<1>8. QueueHolds(global_queue, globals, "global", out)
  <2>1. 0 + Len(global_queue) = Cardinality(DOMAIN globals)
    BY <1>1, <1>2
  <2>2. \A i \in 1 .. Len(global_queue) :
          /\ global_queue[i] \in DOMAIN globals
          /\ globals[global_queue[i]] = 0 + i - 1
    BY <1>1
  <2>3. /\ \A i \in DOMAIN out : out[i].kind = "global" => out[i].n < 0
        /\ \A n \in Nat : n < 0 => \E i \in DOMAIN out : out[i].kind = "global" /\ out[i].n = n
    BY <1>1
  <2> QED BY <2>1, <2>2, <2>3 DEF QueueHolds
<1>9. Distinct(out) /\ Listed
  BY <1>1 DEF Distinct, Listed
<1> QED BY <1>1, <1>6, <1>7, <1>8, <1>9 DEF IInv

\* A numbered item stays numbered.
LEMMA StaysNumbered ==
  ASSUME program' = program,
         DOMAIN functions \subseteq DOMAIN functions', DOMAIN globals \subseteq DOMAIN globals'
  PROVE  Items' = Items /\ \A item : HasNumber(item) => HasNumber(item)'
<1>1. Items' = Items
  BY DEF Items, FunctionIds, GlobalIds
<1>2. \A item : HasNumber(item) => HasNumber(item)'
  BY DEF HasNumber
<1> QED BY <1>1, <1>2

\* Meeting a function keeps what is numbered and queued.
LEMMA FunctionMet ==
  ASSUME IInv, NEW id \in Nat, function_id(id)
  PROVE  /\ Dense(functions)' /\ Dense(globals)'
         /\ function_queue' \in Seq(Nat) /\ global_queue' \in Seq(Nat)
         /\ QueueHolds(function_queue', functions', "function", out)
         /\ QueueHolds(global_queue', globals', "global", out)
         /\ DOMAIN functions' = DOMAIN functions \cup {id} /\ DOMAIN globals' = DOMAIN globals
<1>1. /\ functions' = Numbered(functions, id)
      /\ function_queue' = Queued(function_queue, functions, id)
      /\ globals' = globals /\ global_queue' = global_queue
  BY DEF function_id
<1>2. Dense(functions) /\ Dense(globals) /\ function_queue \in Seq(Nat) /\ global_queue \in Seq(Nat)
  BY DEF IInv, TypeOK
<1>3. /\ QueueHolds(function_queue, functions, "function", out)
      /\ QueueHolds(global_queue, globals, "global", out)
  BY DEF IInv
<1>4. Dense(functions') /\ DOMAIN functions' = DOMAIN functions \cup {id}
  BY <1>1, <1>2, NumberedDense
<1>5. QueueHolds(function_queue', functions', "function", out) /\ function_queue' \in Seq(Nat)
  BY <1>1, <1>2, <1>3, MeetingQueues
<1> QED BY <1>1, <1>2, <1>3, <1>4, <1>5 DEF Dense

\* Meeting a global keeps what is numbered and queued.
LEMMA GlobalMet ==
  ASSUME IInv, NEW id \in Nat, global_id(id)
  PROVE  /\ Dense(functions)' /\ Dense(globals)'
         /\ function_queue' \in Seq(Nat) /\ global_queue' \in Seq(Nat)
         /\ QueueHolds(function_queue', functions', "function", out)
         /\ QueueHolds(global_queue', globals', "global", out)
         /\ DOMAIN globals' = DOMAIN globals \cup {id} /\ DOMAIN functions' = DOMAIN functions
<1>1. /\ globals' = Numbered(globals, id)
      /\ global_queue' = Queued(global_queue, globals, id)
      /\ functions' = functions /\ function_queue' = function_queue
  BY DEF global_id
<1>2. Dense(functions) /\ Dense(globals) /\ function_queue \in Seq(Nat) /\ global_queue \in Seq(Nat)
  BY DEF IInv, TypeOK
<1>3. /\ QueueHolds(function_queue, functions, "function", out)
      /\ QueueHolds(global_queue, globals, "global", out)
  BY DEF IInv
<1>4. Dense(globals') /\ DOMAIN globals' = DOMAIN globals \cup {id}
  BY <1>1, <1>2, NumberedDense
<1>5. QueueHolds(global_queue', globals', "global", out) /\ global_queue' \in Seq(Nat)
  BY <1>1, <1>2, <1>3, MeetingQueues
<1> QED BY <1>1, <1>2, <1>3, <1>4, <1>5 DEF Dense

\* Tokens are added to an entry that keeps its kind and number.
LEMMA WrittenEntries ==
  ASSUME out \in Seq(Entries), NEW token \in Tokens
  PROVE  /\ Written(token) \in Seq(Entries)
         /\ DOMAIN Written(token) = DOMAIN out
         /\ \A i \in DOMAIN out : /\ Written(token)[i].kind = out[i].kind
                                 /\ Written(token)[i].n = out[i].n
<1> DEFINE o == Written(token)
           last == [out[Len(out)] EXCEPT !.text = Append(@, token)]
<1>1. DOMAIN o = 1 .. Len(out) /\ \A i \in 1 .. Len(out) : i # Len(out) => o[i] = out[i]
  BY DEF Written
<1>2. ASSUME out # <<>>
      PROVE  /\ o[Len(out)] = last /\ last \in Entries
             /\ last.kind = out[Len(out)].kind /\ last.n = out[Len(out)].n
  <2>1. out[Len(out)] \in Entries /\ Len(out) \in 1 .. Len(out)
    BY <1>2
  <2>2. o[Len(out)] = last
    BY <2>1 DEF Written
  <2>3. out[Len(out)].text \in Seq(Tokens)
    BY <2>1 DEF Entries
  <2>4. Append(out[Len(out)].text, token) \in Seq(Tokens)
    BY <2>3
  <2>5. last \in Entries /\ last.kind = out[Len(out)].kind /\ last.n = out[Len(out)].n
    BY <2>1, <2>4 DEF Entries
  <2> QED BY <2>2, <2>5
<1>3. \A i \in 1 .. Len(out) : /\ o[i] \in Entries
                              /\ o[i].kind = out[i].kind /\ o[i].n = out[i].n
  <2> SUFFICES ASSUME NEW i \in 1 .. Len(out)
               PROVE  o[i] \in Entries /\ o[i].kind = out[i].kind /\ o[i].n = out[i].n
    OBVIOUS
  <2>1. CASE i # Len(out)
    BY <2>1, <1>1
  <2>2. CASE i = Len(out)
    <3>1. out # <<>>
      OBVIOUS
    <3>2. o[i] = last /\ last \in Entries /\ last.kind = out[i].kind /\ last.n = out[i].n
      BY <2>2, <3>1, <1>2
    <3> HIDE DEF o, last
    <3> QED BY <3>2
  <2> QED BY <2>1, <2>2
<1>4. o = [i \in 1 .. Len(out) |-> o[i]]
  BY <1>1 DEF Written
<1>5. Len(out) \in Nat /\ DOMAIN out = 1 .. Len(out)
  OBVIOUS
<1> HIDE DEF o
<1>6. o \in Seq(Entries)
  BY <1>3, <1>4, <1>5
<1> QED BY <1>1, <1>3, <1>5, <1>6 DEF o

\* The token of an expression is well formed.
LEMMA TokenType ==
  ASSUME TypeOK, NEW e \in Expr
  PROVE  Token(e) \in Tokens
<1>1. e.name \in Name /\ e.parts \in Seq(Expr)
  BY ExprAssumption
<1>2. e.name.kind \in NameKind /\ e.name.id \in Nat /\ Len(e.parts) \in Nat
  BY <1>1 DEF Name
<1>3. ASSUME NEW m, Dense(m), NEW id \in Nat
      PROVE  Numbered(m, id)[id] \in Nat
  <2>1. Dense(Numbered(m, id)) /\ DOMAIN Numbered(m, id) = DOMAIN m \cup {id}
    BY <1>3, NumberedDense
  <2> QED BY <2>1 DEF Dense
<1>4. NumberOf(e.name) \in Nat
  <2>1. /\ Numbered(functions, e.name.id)[e.name.id] \in Nat
        /\ Numbered(globals, e.name.id)[e.name.id] \in Nat
        /\ Numbered(locals, e.name.id)[e.name.id] \in Nat
    BY <1>2, <1>3 DEF TypeOK
  <2> QED BY <2>1, <1>2 DEF NumberOf, NameKind
<1> QED BY <1>2, <1>4 DEF Token, Tokens

\* Tokens do not change which entry an entry is.
LEMMA DistinctKept ==
  ASSUME NEW o, NEW p, DOMAIN p = DOMAIN o, Distinct(o),
         \A i \in DOMAIN o : p[i].kind = o[i].kind /\ p[i].n = o[i].n
  PROVE  Distinct(p)
BY DEF Distinct

\* Writing an expression keeps the invariant.
LEMMA WriteExprInv == IInv /\ WriteExpr => IInv'
<1> SUFFICES ASSUME IInv, WriteExpr PROVE IInv'
  OBVIOUS
<1> DEFINE e == Head(todo)
<1>1. TypeOK /\ todo # <<>> /\ todo \in Seq(Expr) /\ out \in Seq(Entries)
  BY DEF IInv, TypeOK, WriteExpr
<1>2. e \in Expr /\ Tail(todo) \in Seq(Expr)
  BY <1>1
<1>3. e.name \in Name /\ e.parts \in Seq(Expr) /\ e.name.id \in Nat
  BY <1>2, ExprAssumption DEF Name
<1>4. /\ definition(e.name) /\ out' = Written(Token(e)) /\ todo' = e.parts \o Tail(todo)
      /\ program' = program /\ leftover' = leftover /\ phase' = phase
  BY DEF WriteExpr
<1>5. phase # "done"
  BY <1>1 DEF IInv
<1>6. todo' \in Seq(Expr)
  BY <1>2, <1>3, <1>4
<1>7. /\ out' \in Seq(Entries) /\ DOMAIN out' = DOMAIN out
      /\ \A i \in DOMAIN out : out'[i].kind = out[i].kind /\ out'[i].n = out[i].n
  BY <1>1, <1>2, <1>4, TokenType, WrittenEntries
<1>8. /\ Dense(functions') /\ Dense(globals') /\ Dense(locals')
      /\ function_queue' \in Seq(Nat) /\ global_queue' \in Seq(Nat)
      /\ QueueHolds(function_queue', functions', "function", out)
      /\ QueueHolds(global_queue', globals', "global", out)
      /\ DOMAIN functions \subseteq DOMAIN functions' /\ DOMAIN globals \subseteq DOMAIN globals'
  <2>0. /\ Dense(functions) /\ Dense(globals) /\ Dense(locals)
        /\ function_queue \in Seq(Nat) /\ global_queue \in Seq(Nat)
        /\ QueueHolds(function_queue, functions, "function", out)
        /\ QueueHolds(global_queue, globals, "global", out)
    BY DEF IInv, TypeOK
  <2>1. CASE function_id(e.name.id) /\ locals' = locals
    BY <2>0, <2>1, <1>3, FunctionMet DEF Dense
  <2>2. CASE global_id(e.name.id) /\ locals' = locals
    BY <2>0, <2>2, <1>3, GlobalMet DEF Dense
  <2>3. CASE /\ local_id(e.name.id)
             /\ UNCHANGED <<functions, function_queue, globals, global_queue>>
    <3>1. Dense(locals')
      BY <2>0, <2>3, <1>3, NumberedDense DEF local_id
    <3> QED BY <2>0, <2>3, <3>1
  <2>4. CASE UNCHANGED <<functions, function_queue, globals, global_queue, locals>>
    BY <2>0, <2>4
  <2> QED BY <1>4, <2>1, <2>2, <2>3, <2>4 DEF definition
<1>9. TypeOK'
  BY <1>1, <1>4, <1>6, <1>7, <1>8 DEF TypeOK
<1>10. /\ QueueHolds(function_queue', functions', "function", out')
       /\ QueueHolds(global_queue', globals', "global", out')
  BY <1>7, <1>8, QueueKept
<1>11. Distinct(out')
  <2>1. Distinct(out)
    BY DEF IInv
  <2> QED BY <2>1, <1>7, DistinctKept
<1>12. Listed'
  BY <1>4, <1>8, StaysNumbered DEF Listed, IInv
<1> QED BY <1>4, <1>5, <1>9, <1>10, <1>11, <1>12 DEF IInv

\* What is the same for the two items drain() writes.
LEMMA EntryAdded ==
  ASSUME NEW o \in Seq(Entries), NEW e \in Entries, Distinct(o),
         \A i \in DOMAIN o : o[i].kind = e.kind => o[i].n # e.n
  PROVE  /\ Append(o, e) \in Seq(Entries) /\ Distinct(Append(o, e))
         /\ DOMAIN o \subseteq DOMAIN Append(o, e)
         /\ \A i \in DOMAIN o : Append(o, e)[i] = o[i]
         /\ \A i \in DOMAIN Append(o, e) : i \notin DOMAIN o => Append(o, e)[i] = e
<1> DEFINE p == Append(o, e)
<1>1. /\ p \in Seq(Entries)
      /\ DOMAIN p = DOMAIN o \cup {Len(o) + 1} /\ Len(o) + 1 \notin DOMAIN o
      /\ \A i \in DOMAIN o : p[i] = o[i]
      /\ p[Len(o) + 1] = e
  OBVIOUS
<1> HIDE DEF p
<1>2. Distinct(p)
  <2> SUFFICES ASSUME NEW i \in DOMAIN p, NEW j \in DOMAIN p,
                      p[i].kind = p[j].kind, p[i].n = p[j].n
               PROVE  i = j
    BY DEF Distinct
  <2>1. CASE i \in DOMAIN o /\ j \in DOMAIN o
    BY <2>1, <1>1 DEF Distinct
  <2>2. CASE i = Len(o) + 1 /\ j \in DOMAIN o
    BY <2>2, <1>1
  <2>3. CASE i \in DOMAIN o /\ j = Len(o) + 1
    BY <2>3, <1>1
  <2>4. CASE i = Len(o) + 1 /\ j = Len(o) + 1
    BY <2>4
  <2> QED BY <2>1, <2>2, <2>3, <2>4, <1>1
<1> QED BY <1>1, <1>2 DEF p

\* A new entry for a function keeps the invariant.
LEMMA EmitFunctionInv == IInv /\ emit_function => IInv'
<1> SUFFICES ASSUME IInv, emit_function PROVE IInv'
  OBVIOUS
<1> DEFINE id == Head(function_queue)
           e  == Entry("function", functions[id], ~HasFunction(id))
<1>1. /\ TypeOK /\ function_queue \in Seq(Nat) /\ function_queue # <<>>
      /\ out \in Seq(Entries) /\ Distinct(out) /\ phase # "done"
  BY DEF IInv, TypeOK, emit_function, Draining
<1>2. /\ function_queue' = Tail(function_queue) /\ out' = Append(out, e)
      /\ program' = program /\ functions' = functions /\ globals' = globals
      /\ global_queue' = global_queue /\ leftover' = leftover /\ phase' = phase
  BY DEF emit_function
<1>3. id \in Nat /\ Tail(function_queue) \in Seq(Nat)
  BY <1>1
<1>4. id \in DOMAIN functions
  BY <1>1 DEF IInv, QueueHolds
<1>5. e \in Entries /\ e.kind = "function" /\ e.n = functions[id]
  <2>1. functions[id] \in Nat
    BY <1>1, <1>4 DEF TypeOK, Dense
  <2>2. <<>> \in Seq(Tokens)
    OBVIOUS
  <2> QED BY <2>1, <2>2 DEF Entry, Entries
<1> HIDE DEF e
<1>6. /\ QueueHolds(function_queue', functions', "function", out')
      /\ \A i \in DOMAIN out : out[i].kind = "function" => out[i].n # e.n
  <2>1. QueueHolds(function_queue, functions, "function", out)
    BY DEF IInv
  <2>2. e.n = functions[Head(function_queue)]
    BY <1>5
  <2>3. /\ QueueHolds(Tail(function_queue), functions, "function", Append(out, e))
        /\ \A i \in DOMAIN out : out[i].kind = "function" => out[i].n # e.n
    <3>1. PICK q, m, o : q = function_queue /\ m = functions /\ o = out
      OBVIOUS
    <3>2. PICK c \in Entries : c = e
      BY <1>5
    <3>3. /\ q \in Seq(Nat) /\ q # <<>> /\ o \in Seq(Entries)
          /\ c.kind = "function" /\ c.n = m[Head(q)] /\ QueueHolds(q, m, "function", o)
      BY <3>1, <3>2, <2>1, <2>2, <1>1, <1>5
    <3>4. /\ QueueHolds(Tail(q), m, "function", Append(o, c))
          /\ \A i \in DOMAIN o : o[i].kind = "function" => o[i].n # c.n
      BY <3>3, WritingHead
    <3> QED BY <3>1, <3>2, <3>4
  <2> QED BY <2>3, <1>2
<1>7. /\ out' \in Seq(Entries) /\ Distinct(out') /\ DOMAIN out \subseteq DOMAIN out'
      /\ \A i \in DOMAIN out : out'[i] = out[i]
      /\ \A i \in DOMAIN out' : i \notin DOMAIN out => out'[i] = e
  BY <1>1, <1>2, <1>5, <1>6, EntryAdded
<1>8. QueueHolds(global_queue', globals', "global", out')
  <2>1. QueueHolds(global_queue, globals, "global", out)
    BY DEF IInv
  <2>2. \A i \in DOMAIN out' : i \notin DOMAIN out => out'[i].kind # "global"
    BY <1>5, <1>7
  <2> QED BY <2>1, <2>2, <1>2, <1>7, QueueKept
<1>9. Dense(locals') /\ todo' \in Seq(Expr)
  <2>1. Dense(locals) /\ todo \in Seq(Expr)
    BY <1>1 DEF TypeOK
  <2>2. CASE ~HasFunction(id)
    <3>1. locals' = locals /\ todo' = todo
      BY <2>2 DEF emit_function
    <3> QED BY <2>1, <3>1
  <2>3. CASE HasFunction(id)
    <3>1. /\ locals' = [l \in {} |-> 0]
          /\ todo' = Append(FunctionById(id).parameters, FunctionById(id).body)
      BY <2>3 DEF emit_function
    <3>2. todo' \in Seq(Expr)
      BY <3>1, <2>3, <1>1, <1>3, ProgramTypes DEF TypeOK
    <3> QED BY <3>1, <3>2, EmptyDense
  <2> QED BY <2>2, <2>3
<1>10. TypeOK'
  BY <1>1, <1>2, <1>3, <1>7, <1>9 DEF TypeOK, Dense
<1>11. Listed'
  BY <1>2, StaysNumbered DEF IInv, Listed
<1> QED BY <1>1, <1>2, <1>6, <1>7, <1>8, <1>10, <1>11 DEF IInv

\* A new entry for a global keeps the invariant.
LEMMA EmitGlobalInv == IInv /\ emit_global => IInv'
<1> SUFFICES ASSUME IInv, emit_global PROVE IInv'
  OBVIOUS
<1> DEFINE id == Head(global_queue)
           e  == Entry("global", globals[id], ~HasGlobal(id))
<1>1. /\ TypeOK /\ global_queue \in Seq(Nat) /\ global_queue # <<>>
      /\ out \in Seq(Entries) /\ Distinct(out) /\ phase # "done"
  BY DEF IInv, TypeOK, emit_global, Draining
<1>2. /\ global_queue' = Tail(global_queue) /\ out' = Append(out, e)
      /\ program' = program /\ functions' = functions /\ globals' = globals
      /\ function_queue' = function_queue /\ leftover' = leftover /\ phase' = phase
  BY DEF emit_global
<1>3. id \in Nat /\ Tail(global_queue) \in Seq(Nat)
  BY <1>1
<1>4. id \in DOMAIN globals
  BY <1>1 DEF IInv, QueueHolds
<1>5. e \in Entries /\ e.kind = "global" /\ e.n = globals[id]
  <2>1. globals[id] \in Nat
    BY <1>1, <1>4 DEF TypeOK, Dense
  <2>2. <<>> \in Seq(Tokens)
    OBVIOUS
  <2> QED BY <2>1, <2>2 DEF Entry, Entries
<1> HIDE DEF e
<1>6. /\ QueueHolds(global_queue', globals', "global", out')
      /\ \A i \in DOMAIN out : out[i].kind = "global" => out[i].n # e.n
  <2>1. QueueHolds(global_queue, globals, "global", out)
    BY DEF IInv
  <2>2. e.n = globals[Head(global_queue)]
    BY <1>5
  <2>3. /\ QueueHolds(Tail(global_queue), globals, "global", Append(out, e))
        /\ \A i \in DOMAIN out : out[i].kind = "global" => out[i].n # e.n
    <3>1. PICK q, m, o : q = global_queue /\ m = globals /\ o = out
      OBVIOUS
    <3>2. PICK c \in Entries : c = e
      BY <1>5
    <3>3. /\ q \in Seq(Nat) /\ q # <<>> /\ o \in Seq(Entries)
          /\ c.kind = "global" /\ c.n = m[Head(q)] /\ QueueHolds(q, m, "global", o)
      BY <3>1, <3>2, <2>1, <2>2, <1>1, <1>5
    <3>4. /\ QueueHolds(Tail(q), m, "global", Append(o, c))
          /\ \A i \in DOMAIN o : o[i].kind = "global" => o[i].n # c.n
      BY ONLY <3>3, c \in Entries, WritingHead
    <3> QED BY ONLY <3>1, <3>2, <3>4
  <2> QED BY <2>3, <1>2
<1>7. /\ out' \in Seq(Entries) /\ Distinct(out') /\ DOMAIN out \subseteq DOMAIN out'
      /\ \A i \in DOMAIN out : out'[i] = out[i]
      /\ \A i \in DOMAIN out' : i \notin DOMAIN out => out'[i] = e
  <2>1. \A i \in DOMAIN out : out[i].kind = e.kind => out[i].n # e.n
    BY ONLY <1>5, <1>6
  <2>2. PICK o \in Seq(Entries), c \in Entries : o = out /\ c = e
    BY <1>1, <1>5
  <2>3. Distinct(o) /\ \A i \in DOMAIN o : o[i].kind = c.kind => o[i].n # c.n
    BY ONLY <1>1, <2>1, <2>2
  <2>4. /\ Append(o, c) \in Seq(Entries) /\ Distinct(Append(o, c))
        /\ DOMAIN o \subseteq DOMAIN Append(o, c)
        /\ \A i \in DOMAIN o : Append(o, c)[i] = o[i]
        /\ \A i \in DOMAIN Append(o, c) : i \notin DOMAIN o => Append(o, c)[i] = c
    BY ONLY o \in Seq(Entries), c \in Entries, <2>3, EntryAdded
  <2>5. out' = Append(o, c)
    BY ONLY <1>2, <2>2
  <2> QED BY ONLY <2>2, <2>4, <2>5
<1>8. QueueHolds(function_queue', functions', "function", out')
  <2>1. QueueHolds(function_queue, functions, "function", out)
    BY DEF IInv
  <2>2. \A i \in DOMAIN out' : i \notin DOMAIN out => out'[i].kind # "function"
    BY <1>5, <1>7
  <2> QED BY <2>1, <2>2, <1>2, <1>7, QueueKept
<1>9. Dense(locals') /\ todo' \in Seq(Expr)
  <2>1. Dense(locals) /\ todo \in Seq(Expr)
    BY <1>1 DEF TypeOK
  <2>2. CASE ~HasGlobal(id)
    <3>1. locals' = locals /\ todo' = todo
      BY <2>2 DEF emit_global
    <3> QED BY <2>1, <3>1
  <2>3. CASE HasGlobal(id)
    <3>1. locals' = [l \in {} |-> 0] /\ todo' = <<program.globals[id]>>
      BY <2>3 DEF emit_global
    <3>2. todo' \in Seq(Expr)
      BY <3>1, <2>3, <1>1, <1>3, ProgramTypes DEF TypeOK
    <3> QED BY <3>1, <3>2, EmptyDense
  <2> QED BY <2>2, <2>3
<1>10. TypeOK'
  BY <1>1, <1>2, <1>3, <1>7, <1>9 DEF TypeOK, Dense
<1>11. Listed'
  BY <1>2, StaysNumbered DEF IInv, Listed
<1> QED BY <1>1, <1>2, <1>6, <1>7, <1>8, <1>10, <1>11 DEF IInv

\* Listing what is unnumbered keeps the invariant.
LEMMA StartUnreachableInv == IInv /\ StartUnreachable => IInv'
<1> SUFFICES ASSUME IInv, StartUnreachable PROVE IInv'
  OBVIOUS
<1>1. /\ phase' = "unreachable" /\ leftover' = Items /\ program' = program
      /\ functions' = functions /\ function_queue' = function_queue /\ globals' = globals
      /\ global_queue' = global_queue /\ locals' = locals /\ out' = out /\ todo' = todo
  BY DEF StartUnreachable
<1>2. TypeOK /\ Items \in Seq(ItemName)
  BY ProgramTypes DEF IInv, TypeOK
<1>3. TypeOK'
  BY <1>1, <1>2 DEF TypeOK, Dense
<1>4. Items' = Items
  BY <1>1 DEF Items, FunctionIds, GlobalIds
<1>5. Listed'
  BY <1>1, <1>4 DEF Listed
<1>6. /\ QueueHolds(function_queue', functions', "function", out')
      /\ QueueHolds(global_queue', globals', "global", out')
      /\ Distinct(out')
  BY <1>1 DEF IInv
<1> QED BY <1>1, <1>3, <1>5, <1>6 DEF IInv

\* Numbering a listed item keeps the invariant.
LEMMA NumberLeftoverInv == IInv /\ NumberLeftover => IInv'
<1> SUFFICES ASSUME IInv, NumberLeftover PROVE IInv'
  OBVIOUS
<1>1. /\ TypeOK /\ leftover \in Seq(ItemName) /\ leftover # <<>>
  BY DEF IInv, TypeOK, NumberLeftover
<1>h. PICK item \in ItemName : item = Head(leftover)
  BY <1>1
<1>2. /\ leftover' = Tail(leftover) /\ program' = program /\ locals' = locals
      /\ out' = out /\ todo' = todo /\ phase' = phase
  BY DEF NumberLeftover
<1>3. item.id \in Nat /\ item.kind \in {"function", "global"}
  BY <1>h DEF ItemName
<1>4. Tail(leftover) \in Seq(ItemName)
  BY <1>1
<1>5. phase # "done"
  BY <1>1 DEF IInv
<1>6. /\ Dense(functions)' /\ Dense(globals)'
      /\ function_queue' \in Seq(Nat) /\ global_queue' \in Seq(Nat)
      /\ QueueHolds(function_queue', functions', "function", out)
      /\ QueueHolds(global_queue', globals', "global", out)
      /\ DOMAIN functions \subseteq DOMAIN functions' /\ DOMAIN globals \subseteq DOMAIN globals'
      /\ HasNumber(item)'
  <2>1. CASE item.kind = "function" /\ function_id(item.id)
    <3>1. DOMAIN functions' = DOMAIN functions \cup {item.id}
      BY <2>1, <1>3, FunctionMet
    <3>2. HasNumber(item)'
      BY <3>1, <2>1, <1>2 DEF HasNumber
    <3> QED BY <3>2, <2>1, <1>3, FunctionMet
  <2>2. CASE item.kind = "global" /\ global_id(item.id)
    <3>1. DOMAIN globals' = DOMAIN globals \cup {item.id}
      BY <2>2, <1>3, GlobalMet
    <3>2. HasNumber(item)'
      BY <3>1, <2>2, <1>2 DEF HasNumber
    <3> QED BY <3>2, <2>2, <1>3, GlobalMet
  <2> QED BY <2>1, <2>2, <1>h DEF NumberLeftover
<1>7. TypeOK'
  BY <1>1, <1>2, <1>4, <1>6 DEF TypeOK, Dense
<1>8. Listed'
  <2> SUFFICES ASSUME phase' # "reached", NEW k \in DOMAIN Items'
               PROVE  HasNumber(Items[k])' \/ \E j \in DOMAIN leftover' : leftover'[j] = Items'[k]
    BY DEF Listed
  <2>1. Items' = Items /\ \A x : HasNumber(x) => HasNumber(x)'
    BY <1>2, <1>6, StaysNumbered
  <2>2. CASE HasNumber(Items[k])
    BY <2>1, <2>2
  <2>3. CASE \E j \in DOMAIN leftover : leftover[j] = Items[k]
    <3>1. PICK j \in DOMAIN leftover : leftover[j] = Items[k]
      BY <2>3
    <3>2. CASE j = 1
      <4>1. Items[k] = item
        BY <3>1, <3>2, <1>1, <1>h
      <4>2. HasNumber(Items[k])'
        BY <4>1, <2>1, <1>6 DEF HasNumber
      <4> QED BY <4>2
    <3>3. CASE j # 1
      <4>1. j - 1 \in DOMAIN Tail(leftover) /\ Tail(leftover)[j - 1] = leftover[j]
        BY <3>1, <3>3, <1>1
      <4> QED BY <4>1, <3>1, <2>1, <1>2
    <3> QED BY <3>2, <3>3
  <2> QED BY <2>1, <2>2, <2>3, <1>2 DEF IInv, Listed
<1> QED BY <1>2, <1>5, <1>6, <1>7, <1>8 DEF IInv, Distinct

\* Finishing keeps the invariant.
LEMMA FinishInv == IInv /\ Finish => IInv'
<1> SUFFICES ASSUME IInv, Finish PROVE IInv'
  OBVIOUS
<1>1. /\ phase' = "done" /\ leftover' = leftover /\ program' = program
      /\ functions' = functions /\ function_queue' = function_queue /\ globals' = globals
      /\ global_queue' = global_queue /\ locals' = locals /\ out' = out /\ todo' = todo
      /\ function_queue = <<>> /\ global_queue = <<>> /\ leftover = <<>> /\ todo = <<>>
  BY DEF Finish, Drained, Draining
<1>2. TypeOK'
  BY <1>1 DEF IInv, TypeOK, Dense
<1>3. Items' = Items /\ \A x : HasNumber(x)' = HasNumber(x)
  BY <1>1 DEF Items, FunctionIds, GlobalIds, HasNumber
<1>4. \A k \in DOMAIN Items : HasNumber(Items[k])
  <2>1. CASE phase = "reached"
    BY <2>1 DEF Finish, Unnumbered
  <2>2. CASE phase # "reached"
    BY <2>2, <1>1 DEF IInv, Listed
  <2> QED BY <2>1, <2>2
<1>5. Listed'
  BY <1>3, <1>4 DEF Listed
<1>6. /\ QueueHolds(function_queue', functions', "function", out')
      /\ QueueHolds(global_queue', globals', "global", out')
      /\ Distinct(out')
  BY <1>1 DEF IInv
<1> QED BY <1>1, <1>2, <1>5, <1>6 DEF IInv

\* Every step of a compilation keeps the invariant.
LEMMA NextInv == IInv /\ [Next]_vars => IInv'
<1> SUFFICES ASSUME IInv, [Next]_vars PROVE IInv'
  OBVIOUS
<1>1. CASE Next
  BY <1>1, WriteExprInv, EmitFunctionInv, EmitGlobalInv, StartUnreachableInv,
     NumberLeftoverInv, FinishInv DEF Next
<1>2. CASE UNCHANGED vars
  <2>1. /\ phase' = phase /\ leftover' = leftover /\ program' = program
        /\ functions' = functions /\ function_queue' = function_queue /\ globals' = globals
        /\ global_queue' = global_queue /\ locals' = locals /\ out' = out /\ todo' = todo
    BY <1>2 DEF vars, work
  <2>2. Items' = Items /\ \A x : HasNumber(x)' = HasNumber(x)
    BY <2>1 DEF Items, FunctionIds, GlobalIds, HasNumber
  <2>3. Listed' = Listed
    BY <2>1, <2>2 DEF Listed
  <2>4. TypeOK' = TypeOK
    BY <2>1 DEF TypeOK, Dense
  <2>5. /\ QueueHolds(function_queue', functions', "function", out')
        /\ QueueHolds(global_queue', globals', "global", out')
        /\ Distinct(out')
    BY <2>1 DEF IInv
  <2> QED BY <2>1, <2>3, <2>4, <2>5 DEF IInv
<1> QED BY <1>1, <1>2

-----------------------------------------------------------------------------
\* A renaming that permutes its ids gives each image back its origin.
LEMMA OriginOf ==
  ASSUME NEW f, OneToOne(f), NEW a \in DOMAIN f
  PROVE  Origin(f, f[a]) = a
BY DEF OneToOne, Origin

\* What another compilation of a program is: the same functions and globals,
\* renamed, where their new ids say.
LEMMA Renames ==
  ASSUME NEW r \in Renaming, NEW p, IsProgram(p), Fits(r, p)
  PROVE  /\ IsProgram(Renamed(r, p))
         /\ DOMAIN Renamed(r, p).functions = DOMAIN p.functions
         /\ Renamed(r, p).keys = p.keys
         /\ DOMAIN Renamed(r, p).globals = DOMAIN p.globals
         /\ \A i \in DOMAIN p.functions : Renamed(r, p).functions[i].id = i - 1
         /\ \A i \in DOMAIN p.functions :
              /\ r.function[p.functions[i].id] + 1 \in DOMAIN p.functions
              /\ Renamed(r, p).functions[r.function[p.functions[i].id] + 1]
                   = RenamedFunction(r, p.functions[i])
         /\ \A k \in DOMAIN p.globals :
              /\ r.global[k] \in DOMAIN p.globals
              /\ Renamed(r, p).globals[r.global[k]] = r.expr[p.globals[k]]
<1> DEFINE q == Renamed(r, p)
           fs == p.functions
<1>1. /\ OneToOne(r.function) /\ OneToOne(r.global) /\ r.expr \in [Expr -> Expr]
  BY RenamingAssumption
<1>2. /\ fs \in Seq(FunctionEntry) /\ p.keys \in Seq(Nat)
      /\ \A i, j \in DOMAIN p.keys : i < j => p.keys[i] < p.keys[j]
      /\ p.globals \in [{p.keys[i] : i \in DOMAIN p.keys} -> Expr]
  BY DEF IsProgram
<1>3. /\ \A i \in DOMAIN fs : fs[i].id = i - 1
      /\ {r.function[fs[i].id] : i \in DOMAIN fs} = {fs[i].id : i \in DOMAIN fs}
      /\ \A i \in DOMAIN fs : fs[i].id \in DOMAIN r.function
      /\ DOMAIN p.globals \subseteq DOMAIN r.global
      /\ {r.global[k] : k \in DOMAIN p.globals} = DOMAIN p.globals
  BY DEF Fits
<1>4. DOMAIN fs = 1 .. Len(fs) /\ Len(fs) \in Nat
  BY <1>2
<1>5. /\ q.functions = [i \in DOMAIN fs |-> RenamedFunction(r, fs[Origin(r.function, i - 1) + 1])]
      /\ q.keys = p.keys
      /\ q.globals = [k \in DOMAIN p.globals |-> r.expr[p.globals[Origin(r.global, k)]]]
  BY DEF Renamed
<1> HIDE DEF q
<1>6. ASSUME NEW i \in DOMAIN fs
      PROVE  /\ r.function[fs[i].id] + 1 \in DOMAIN fs
             /\ q.functions[r.function[fs[i].id] + 1] = RenamedFunction(r, fs[i])
             /\ RenamedFunction(r, fs[i]) \in FunctionEntry
  <2>1. PICK j \in DOMAIN fs : r.function[fs[i].id] = fs[j].id
    BY <1>3
  <2>2. r.function[fs[i].id] + 1 = j /\ j \in Nat
    BY <2>1, <1>3, <1>4
  <2>3. Origin(r.function, r.function[fs[i].id]) = fs[i].id
    BY <1>1, <1>3, OriginOf
  <2>4. Origin(r.function, j - 1) + 1 = i
    BY <2>2, <2>3, <1>3, <1>4, <2>1
  <2>5. q.functions[j] = RenamedFunction(r, fs[i])
    BY <2>4, <1>5
  <2>6. fs[i] \in FunctionEntry
    BY <1>2
  <2>7. /\ fs[i].parameters \in Seq(Expr) /\ fs[i].body \in Expr
    BY <2>6 DEF FunctionEntry
  <2>8. r.function[fs[i].id] \in Nat
    BY <1>1, <1>3 DEF OneToOne
  <2>9. [x \in DOMAIN fs[i].parameters |-> r.expr[fs[i].parameters[x]]] \in Seq(Expr)
    <3> PICK ps \in Seq(Expr) : ps = fs[i].parameters
      BY <2>7
    <3>1. DOMAIN ps = 1 .. Len(ps) /\ Len(ps) \in Nat /\ \A x \in DOMAIN ps : ps[x] \in Expr
      OBVIOUS
    <3>2. \A x \in 1 .. Len(ps) : r.expr[ps[x]] \in Expr
      BY <3>1, <1>1
    <3>3. [x \in DOMAIN ps |-> r.expr[ps[x]]] \in Seq(Expr)
      BY <3>1, <3>2
    <3> QED BY <3>3
  <2>10. r.expr[fs[i].body] \in Expr
    BY <2>7, <1>1
  <2>11. RenamedFunction(r, fs[i]) \in FunctionEntry
    BY <2>8, <2>9, <2>10 DEF RenamedFunction, FunctionEntry
  <2> QED BY <2>1, <2>2, <2>5, <2>11
<1>7. ASSUME NEW i \in DOMAIN fs
      PROVE  q.functions[i] \in FunctionEntry /\ q.functions[i].id = i - 1
  <2>1. PICK j \in DOMAIN fs : r.function[fs[j].id] = fs[i].id
    BY <1>3
  <2>2. r.function[fs[j].id] + 1 = i
    BY <2>1, <1>3, <1>4
  <2>3. q.functions[i] = RenamedFunction(r, fs[j]) /\ RenamedFunction(r, fs[j]) \in FunctionEntry
    BY <2>2, <1>6
  <2>4. RenamedFunction(r, fs[j]).id = i - 1
    BY <2>1, <1>3 DEF RenamedFunction
  <2> QED BY <2>3, <2>4
<1>8. DOMAIN q.functions = DOMAIN fs /\ q.functions \in Seq(FunctionEntry)
  <2>1. q.functions = [i \in 1 .. Len(fs) |-> q.functions[i]]
    BY <1>4, <1>5
  <2> HIDE DEF fs
  <2> QED BY <1>4, <1>7, <2>1
<1>9. ASSUME NEW k \in DOMAIN p.globals
      PROVE  /\ r.global[k] \in DOMAIN p.globals
             /\ q.globals[r.global[k]] = r.expr[p.globals[k]]
             /\ r.expr[p.globals[k]] \in Expr
  <2>1. r.global[k] \in DOMAIN p.globals
    BY <1>3
  <2>2. Origin(r.global, r.global[k]) = k
    BY <1>1, <1>3, OriginOf
  <2>3. p.globals[k] \in Expr
    BY <1>2
  <2>4. r.expr[p.globals[k]] \in Expr
    BY <2>3, <1>1
  <2> QED BY <2>1, <2>2, <2>4, <1>5
<1>10. DOMAIN q.globals = DOMAIN p.globals /\ q.globals \in [DOMAIN p.globals -> Expr]
  <2>1. ASSUME NEW k \in DOMAIN p.globals PROVE q.globals[k] \in Expr
    <3>1. PICK o \in DOMAIN p.globals : r.global[o] = k
      BY <1>3
    <3> QED BY <3>1, <1>9
  <2> QED BY <2>1, <1>5
<1>11. IsProgram(q)
  <2>1. DOMAIN p.globals = {p.keys[i] : i \in DOMAIN p.keys}
    BY <1>2
  <2>2. q.keys = p.keys /\ q.keys \in Seq(Nat)
    BY <1>2, <1>5
  <2>3. q.globals \in [{q.keys[i] : i \in DOMAIN q.keys} -> Expr]
    BY <2>1, <2>2, <1>10
  <2>4. \A i, j \in DOMAIN q.keys : i < j => q.keys[i] < q.keys[j]
    BY <2>2, <1>2
  <2> QED BY <2>2, <2>3, <2>4, <1>8 DEF IsProgram
<1> QED BY <1>5, <1>6, <1>7, <1>8, <1>9, <1>10, <1>11 DEF q

\* Compiling again starts with a fresh program.
LEMMA CompileAgainFresh == IInv /\ CompileAgain => Fresh'
<1> SUFFICES ASSUME IInv, CompileAgain PROVE Fresh'
  OBVIOUS
<1>1. IsProgram(program) /\ todo = <<>> /\ leftover = <<>>
  BY DEF IInv, TypeOK, CompileAgain
<1>2. PICK r \in Renaming : Fits(r, program) /\ program' = Renamed(r, program)
  BY DEF CompileAgain
<1>3. IsProgram(program')
  BY <1>1, <1>2, Renames
<1> QED BY <1>1, <1>3 DEF CompileAgain, Fresh

\* The invariant holds of the program that is compiled again.
LEMMA FreshAgain == Fresh' => IInv'
BY FreshInv, PTL

\* IInv holds throughout both compilations.
LEMMA Induction == RecompileSpec => []IInv
<1>1. RecompileInit => IInv
  BY InitFresh, FreshInv DEF RecompileInit
<1>2. IInv /\ [RecompileNext]_<<vars, earlier>> => IInv'
  <2> SUFFICES ASSUME IInv, [RecompileNext]_<<vars, earlier>> PROVE IInv'
    OBVIOUS
  <2>1. CASE Next \/ UNCHANGED <<vars, earlier>>
    <3>1. [Next]_vars
      BY <2>1
    <3> QED BY <3>1, NextInv
  <2>2. CASE CompileAgain
    BY <2>2, CompileAgainFresh, FreshAgain
  <2> QED BY <2>1, <2>2 DEF RecompileNext
<1> QED BY <1>1, <1>2, PTL DEF RecompileSpec

\* Functions, globals and the locals of the item being written are numbered
\* without collisions, so the text tells different identifiers apart.
THEOREM NumbersNeverCollide == RecompileSpec => []NumbersDiffer
<1>1. IInv => NumbersDiffer
  BY DEF IInv, TypeOK, Dense, NumbersDiffer
<1> QED BY <1>1, Induction, PTL

\* Every function and global of the program has exactly one entry in its text,
\* however the items use each other.
THEOREM WrittenOnce == RecompileSpec => []EachItemOnce
<1>1. IInv => EachItemOnce
  <2> SUFFICES ASSUME IInv PROVE EachItemOnce
    OBVIOUS
  <2>1. \A i, j \in DOMAIN out : out[i].kind = out[j].kind /\ out[i].n = out[j].n => i = j
    BY DEF IInv, Distinct
  <2>2. ASSUME phase = "done", NEW k \in DOMAIN Items
        PROVE  HasNumber(Items[k]) /\ \E i \in DOMAIN out : IsEntryOf(i, Items[k])
    <3> DEFINE item == Items[k]
    <3>1. function_queue = <<>> /\ global_queue = <<>> /\ leftover = <<>>
      BY <2>2 DEF IInv
    <3>2. HasNumber(item)
      BY <2>2, <3>1 DEF IInv, Listed
    <3>3. item \in ItemName /\ item.kind \in {"function", "global"}
      <4>1. Items \in Seq(ItemName)
        BY ProgramTypes DEF IInv, TypeOK
      <4>2. item \in ItemName
        BY <4>1, <2>2
      <4> QED BY <4>2 DEF ItemName
    <3> HIDE DEF item
    <3>4. ASSUME NEW m, NEW q, NEW kind, Dense(m), QueueHolds(q, m, kind, out), q = <<>>,
                 NEW id \in DOMAIN m
          PROVE  \E i \in DOMAIN out : out[i].kind = kind /\ out[i].n = m[id]
      <4>1. PICK n \in Nat :
              /\ n + Len(q) = Cardinality(DOMAIN m)
              /\ \A x \in Nat : x < n => \E i \in DOMAIN out : out[i].kind = kind /\ out[i].n = x
        BY <3>4 DEF QueueHolds
      <4>2. m[id] \in Nat /\ m[id] < Cardinality(DOMAIN m)
        BY <3>4 DEF Dense
      <4>3. n = Cardinality(DOMAIN m)
        BY <4>1, <3>4
      <4> QED BY <4>1, <4>2, <4>3
    <3>5. /\ Dense(functions) /\ Dense(globals)
          /\ QueueHolds(function_queue, functions, "function", out)
          /\ QueueHolds(global_queue, globals, "global", out)
      BY DEF IInv, TypeOK
    <3>6. CASE item.kind = "function"
      <4>1. item.id \in DOMAIN functions /\ ItemNumber(item) = functions[item.id]
        BY <3>2, <3>6 DEF HasNumber, ItemNumber
      <4>2. \E i \in DOMAIN out : out[i].kind = "function" /\ out[i].n = functions[item.id]
        BY <4>1, <3>1, <3>4, <3>5
      <4> QED BY <4>1, <4>2, <3>2, <3>6 DEF IsEntryOf, item
    <3>7. CASE item.kind = "global"
      <4>1. item.id \in DOMAIN globals /\ ItemNumber(item) = globals[item.id]
        BY <3>2, <3>7 DEF HasNumber, ItemNumber
      <4>2. \E i \in DOMAIN out : out[i].kind = "global" /\ out[i].n = globals[item.id]
        BY <4>1, <3>1, <3>4, <3>5
      <4> QED BY <4>1, <4>2, <3>2, <3>7 DEF IsEntryOf, item
    <3> QED BY <3>3, <3>6, <3>7
  <2> QED BY <2>1, <2>2 DEF EachItemOnce
<1> QED BY <1>1, Induction, PTL

-----------------------------------------------------------------------------
\* What entry i is the entry of, and what is still to be written of it.
Owner(i, item) == HasNumber(item) /\ IsEntryOf(i, item)
Rest(i)        == IF i = Len(out) THEN todo ELSE <<>>

Met(name)   == name.kind \in {"function", "global"} => HasNumber(name)
LocalsOf(s) == {s[j].name.id : j \in {k \in DOMAIN s : s[k].name.kind = "local"}}

\* The text of entry i says what the first expressions of the item are; the
\* others are to be written, and the locals numbered are those of the first.
TextOf(i, item) ==
  \E pre \in Seq(Expr) :
    /\ Source(item) = pre \o Preorders(Rest(i))
    /\ out[i].text = [k \in DOMAIN pre |-> Reads(Source(item), k)]
    /\ \A k \in DOMAIN pre : Met(pre[k].name)
    /\ Rest(i) # <<>> =>
         /\ DOMAIN locals = LocalsOf(pre)
         /\ \A id \in DOMAIN locals : locals[id] = LocalNumber(Source(item), id)

TextInv ==
  /\ out = <<>> => todo = <<>>
  /\ \A i \in DOMAIN out : \E item \in ItemName : Owner(i, item) /\ TextOf(i, item)

\* Numbers are never taken back.
Extended ==
  /\ DOMAIN functions \subseteq DOMAIN functions'
  /\ \A id \in DOMAIN functions : functions'[id] = functions[id]
  /\ DOMAIN globals \subseteq DOMAIN globals'
  /\ \A id \in DOMAIN globals : globals'[id] = globals[id]

\* An entry has one owner.
LEMMA OwnerUnique ==
  ASSUME IInv, NEW i, NEW a \in ItemName, NEW b \in ItemName, Owner(i, a), Owner(i, b)
  PROVE  a = b
<1>1. Dense(functions) /\ Dense(globals)
  BY DEF IInv, TypeOK
<1>2. a.kind = b.kind /\ ItemNumber(a) = ItemNumber(b) /\ HasNumber(a) /\ HasNumber(b)
  BY DEF Owner, IsEntryOf
<1>3. a.kind \in {"function", "global"}
  BY DEF ItemName
<1>4. a.id = b.id
  <2>1. CASE a.kind = "function"
    BY <2>1, <1>1, <1>2 DEF Dense, ItemNumber, HasNumber
  <2>2. CASE a.kind = "global"
    BY <2>2, <1>1, <1>2 DEF Dense, ItemNumber, HasNumber
  <2> QED BY <1>3, <2>1, <2>2
<1> QED BY <1>2, <1>4 DEF ItemName

\* ItemOf finds the owner of an entry.
LEMMA ItemOfOwner ==
  ASSUME IInv, NEW i, NEW a \in ItemName, Owner(i, a)
  PROVE  ItemOf(out[i]) = a
<1> DEFINE All == {Id("function", id) : id \in DOMAIN functions}
                  \cup {Id("global", id) : id \in DOMAIN globals}
<1>1. DOMAIN functions \subseteq Nat /\ DOMAIN globals \subseteq Nat
  BY DEF IInv, TypeOK, Dense
<1>2. \A b \in All : b \in ItemName /\ HasNumber(b)
  BY <1>1 DEF Id, ItemName, HasNumber
<1>3. a \in All
  <2>1. a = Id(a.kind, a.id) /\ a.kind \in {"function", "global"}
    BY DEF ItemName, Id
  <2> QED BY <2>1 DEF Owner, HasNumber
<1>4. a.kind = out[i].kind /\ ItemNumber(a) = out[i].n
  BY DEF Owner, IsEntryOf
<1>5. \A b \in All : b.kind = out[i].kind /\ ItemNumber(b) = out[i].n => b = a
  BY <1>2, OwnerUnique DEF Owner, IsEntryOf
<1> HIDE DEF All
<1>6. (CHOOSE b \in All : b.kind = out[i].kind /\ ItemNumber(b) = out[i].n) = a
  BY <1>3, <1>4, <1>5
<1> QED BY <1>6 DEF ItemOf, All

\* The owner of an entry stays its owner while numbers are only added.
LEMMA OwnerKept ==
  ASSUME Extended, NEW i, NEW item \in ItemName, Owner(i, item),
         out'[i].kind = out[i].kind, out'[i].n = out[i].n
  PROVE  Owner(i, item)'
BY DEF Extended, Owner, IsEntryOf, HasNumber, ItemNumber, ItemName

\* An item's expressions change only with the program.
LEMMA SourceKept ==
  ASSUME program' = program
  PROVE  \A item : Source(item)' = Source(item)
BY DEF Source, Parts, HasGlobal, HasFunction, FunctionById

\* An item's parts and its preorder are sequences of expressions.
LEMMA SourceType ==
  ASSUME IsProgram(program), NEW item \in ItemName
  PROVE  Parts(item) \in Seq(Expr) /\ Source(item) \in Seq(Expr)
<1>1. item.id \in Nat
  BY DEF ItemName
<1>2. Parts(item) \in Seq(Expr)
  <2>1. <<>> \in Seq(Expr)
    OBVIOUS
  <2> QED BY <1>1, <2>1, ProgramTypes DEF Parts
<1> QED BY <1>2, PreorderTree DEF Source

\* What was written of an expression stays right while numbers are only
\* added.
LEMMA ReadsKept ==
  ASSUME Extended, NEW s \in Seq(Expr), NEW k \in DOMAIN s, Met(s[k].name)
  PROVE  Reads(s, k)' = Reads(s, k) /\ Met(s[k].name)'
<1> DEFINE name == s[k].name
<1>1. Met(name)'
  BY DEF Met, HasNumber, Extended
<1>2. name.kind \in {"function", "global"} => ItemNumber(name)' = ItemNumber(name)
  BY DEF Met, HasNumber, Extended, ItemNumber
<1> QED BY <1>1, <1>2 DEF Reads

\* Meeting a name numbers it and takes no number back.
LEMMA MeetingExtends ==
  ASSUME IInv, NEW name \in Name, definition(name)
  PROVE  /\ Extended /\ Met(name)'
         /\ name.kind \in {"function", "global"} => NumberOf(name) = ItemNumber(name)'
         /\ name.kind = "local" => locals' = Numbered(locals, name.id)
         /\ name.kind # "local" => locals' = locals
         /\ \A item \in ItemName : HasNumber(item)' => HasNumber(item) \/ item = name
<1>1. Dense(functions) /\ Dense(globals) /\ name.id \in Nat /\ name.kind \in NameKind
  BY DEF IInv, TypeOK, Name
<1>2. ASSUME NEW m, Dense(m)
      PROVE  /\ DOMAIN Numbered(m, name.id) = DOMAIN m \cup {name.id}
             /\ \A a \in DOMAIN m : Numbered(m, name.id)[a] = m[a]
  BY <1>1, <1>2, NumberedDense
<1>h. \A item \in ItemName : item.kind = name.kind /\ item.id = name.id => item = name
  BY DEF ItemName, Name
<1>3. CASE name.kind = "function"
  <2>1. functions' = Numbered(functions, name.id) /\ globals' = globals /\ locals' = locals
    BY <1>3 DEF definition, function_id
  <2>2. \A item \in ItemName : HasNumber(item)' => HasNumber(item) \/ item = name
    <3> SUFFICES ASSUME NEW item \in ItemName, HasNumber(item)', ~HasNumber(item)
                 PROVE  item = name
      OBVIOUS
    <3>1. DOMAIN functions' = DOMAIN functions \cup {name.id}
      BY <1>1, <1>2, <2>1
    <3>2. item.kind \in {"function", "global"}
      BY DEF ItemName
    <3>3. item.kind = "function" /\ item.id = name.id
      BY <3>1, <3>2, <2>1 DEF HasNumber
    <3> QED BY <3>3, <1>3, <1>h
  <2> QED BY <1>1, <1>2, <1>3, <2>1, <2>2 DEF Extended, Met, HasNumber, NumberOf, ItemNumber
<1>4. CASE name.kind = "global"
  <2>1. globals' = Numbered(globals, name.id) /\ functions' = functions /\ locals' = locals
    BY <1>4 DEF definition, global_id
  <2>2. \A item \in ItemName : HasNumber(item)' => HasNumber(item) \/ item = name
    <3> SUFFICES ASSUME NEW item \in ItemName, HasNumber(item)', ~HasNumber(item)
                 PROVE  item = name
      OBVIOUS
    <3>1. DOMAIN globals' = DOMAIN globals \cup {name.id}
      BY <1>1, <1>2, <2>1
    <3>2. item.kind \in {"function", "global"}
      BY DEF ItemName
    <3>3. item.kind = "global" /\ item.id = name.id
      BY <3>1, <3>2, <2>1 DEF HasNumber
    <3> QED BY <3>3, <1>4, <1>h
  <2> QED BY <1>1, <1>2, <1>4, <2>1, <2>2 DEF Extended, Met, HasNumber, NumberOf, ItemNumber
<1>5. CASE name.kind = "local"
  <2>1. functions' = functions /\ globals' = globals /\ locals' = Numbered(locals, name.id)
    BY <1>5 DEF definition, local_id
  <2> QED BY <1>5, <2>1 DEF Extended, Met, HasNumber
<1>6. CASE name.kind \in {"named", "none"}
  <2>1. functions' = functions /\ globals' = globals /\ locals' = locals
    BY <1>6 DEF definition
  <2> QED BY <1>6, <2>1 DEF Extended, Met, HasNumber
<1> QED BY <1>1, <1>3, <1>4, <1>5, <1>6 DEF NameKind

\* The number of a local where the text first names it.
LEMMA LocalFirst ==
  ASSUME NEW s \in Seq(Expr), NEW k \in DOMAIN s, s[k].name.kind = "local",
         \A j \in DOMAIN s : j < k /\ s[j].name.kind = "local" => s[j].name.id # s[k].name.id
  PROVE  LocalNumber(s, s[k].name.id)
           = Cardinality({s[j].name.id : j \in {i \in DOMAIN s : s[i].name.kind = "local" /\ i < k}})
<1> DEFINE At == {i \in DOMAIN s : s[i].name.kind = "local"}
           id == s[k].name.id
           First == CHOOSE i \in At : s[i].name.id = id /\ \A j \in At : s[j].name.id = id => i <= j
<1>1. k \in At /\ At \subseteq Nat /\ \A j \in At : s[j].name.id = id => k <= j
  <2>1. At \subseteq Nat
    OBVIOUS
  <2>2. ASSUME NEW j \in At, s[j].name.id = id PROVE k <= j
    <3>1. j \in Nat /\ k \in Nat /\ ~(j < k)
      BY <2>1, <2>2
    <3> QED BY <3>1
  <2> QED BY <2>1, <2>2
<1>2. \A i \in At : s[i].name.id = id /\ (\A j \in At : s[j].name.id = id => i <= j) => i = k
  <2> SUFFICES ASSUME NEW i \in At, s[i].name.id = id, \A j \in At : s[j].name.id = id => i <= j
               PROVE  i = k
    OBVIOUS
  <2>1. i <= k /\ k <= i /\ i \in Nat /\ k \in Nat
    BY <1>1
  <2> QED BY <2>1
<1> HIDE DEF At, id
<1>3. First = k
  BY <1>1, <1>2 DEF id
<1>4. {i \in At : i < k} = {i \in DOMAIN s : s[i].name.kind = "local" /\ i < k}
  BY DEF At
<1> QED BY <1>3, <1>4 DEF LocalNumber, At, id

\* The preorder of no expressions is empty.
LEMMA EmptyPreorders == Preorders(<<>>) = <<>>
<1>1. [i \in DOMAIN <<>> |-> Preorder[<<>>[i]]] = <<>>
  OBVIOUS
<1> QED BY <1>1 DEF Preorders, FlattenSeq

\* The preorder of an item's first expressions stands where its source begins.
LEMMA PreAt ==
  ASSUME NEW s, NEW pre \in Seq(Expr), NEW rest \in Seq(Expr), s = pre \o rest
  PROVE  /\ s \in Seq(Expr) /\ Len(s) = Len(pre) + Len(rest)
         /\ \A k \in DOMAIN pre : k \in DOMAIN s /\ s[k] = pre[k]
<1>1. /\ pre \o rest \in Seq(Expr) /\ Len(pre \o rest) = Len(pre) + Len(rest)
      /\ \A i \in 1 .. Len(pre) + Len(rest) :
           (pre \o rest)[i] = IF i <= Len(pre) THEN pre[i] ELSE rest[i - Len(pre)]
  BY ConcatProperties
<1>2. Len(pre) \in Nat /\ Len(rest) \in Nat /\ DOMAIN pre = 1 .. Len(pre)
  OBVIOUS
<1>3. DOMAIN (pre \o rest) = 1 .. Len(pre) + Len(rest)
  BY <1>1, <1>2
<1> QED BY <1>1, <1>2, <1>3

\* What is written stays a prefix of the item's text.
LEMMA TextKept ==
  ASSUME IInv, Extended, program' = program, NEW i, NEW item \in ItemName, TextOf(i, item),
         out'[i].text = out[i].text, Rest(i)' = Rest(i), Rest(i) # <<>> => locals' = locals
  PROVE  TextOf(i, item)'
<1>1. PICK pre \in Seq(Expr) :
        /\ Source(item) = pre \o Preorders(Rest(i))
        /\ out[i].text = [k \in DOMAIN pre |-> Reads(Source(item), k)]
        /\ \A k \in DOMAIN pre : Met(pre[k].name)
        /\ Rest(i) # <<>> =>
             /\ DOMAIN locals = LocalsOf(pre)
             /\ \A id \in DOMAIN locals : locals[id] = LocalNumber(Source(item), id)
  BY DEF TextOf
<1> PICK s : s = Source(item)
  OBVIOUS
<1>2. Source(item)' = s
  BY SourceKept
<1>3. Rest(i) \in Seq(Expr) /\ Preorders(Rest(i)) \in Seq(Expr)
  <2>1. Rest(i) \in Seq(Expr)
    BY DEF IInv, TypeOK, Rest
  <2> QED BY <2>1, PreorderTree
<1>4. s \in Seq(Expr) /\ \A k \in DOMAIN pre : k \in DOMAIN s /\ s[k] = pre[k]
  BY <1>1, <1>3, PreAt
<1>5. \A k \in DOMAIN pre : Reads(s, k)' = Reads(s, k) /\ Met(pre[k].name)'
  <2> SUFFICES ASSUME NEW k \in DOMAIN pre PROVE Reads(s, k)' = Reads(s, k) /\ Met(pre[k].name)'
    OBVIOUS
  <2>1. k \in DOMAIN s /\ s[k] = pre[k] /\ Met(s[k].name)
    BY <1>1, <1>4
  <2>2. Reads(s, k)' = Reads(s, k) /\ Met(s[k].name)'
    BY <1>4, <2>1, ReadsKept
  <2> QED BY <2>1, <2>2
<1>6. out'[i].text = [k \in DOMAIN pre |-> Reads(s, k)']
  BY <1>1, <1>5
<1>7. Rest(i)' # <<>> => /\ DOMAIN locals' = LocalsOf(pre)
                         /\ \A id \in DOMAIN locals' : locals'[id] = LocalNumber(s, id)
  BY <1>1
<1>8. s = pre \o Preorders(Rest(i)')
  BY <1>1
<1>9. Source(item)' = pre \o Preorders(Rest(i)')
  BY <1>2, <1>8
<1>10. out'[i].text = [k \in DOMAIN pre |-> Reads(Source(item), k)']
  BY <1>2, <1>6 DEF Reads
<1> QED BY <1>2, <1>5, <1>7, <1>9, <1>10 DEF TextOf

\* One token more.
LEMMA WrittenText ==
  ASSUME out \in Seq(Entries), out # <<>>, NEW token, out' = Written(token)
  PROVE  /\ Len(out') = Len(out) /\ DOMAIN out' = DOMAIN out /\ Len(out) \in DOMAIN out
         /\ \A i \in DOMAIN out : i # Len(out) => out'[i] = out[i]
         /\ \A i \in DOMAIN out : /\ out'[i].kind = out[i].kind /\ out'[i].n = out[i].n
                                 /\ out'[i].missing = out[i].missing
                                 /\ out'[i].reached = out[i].reached
         /\ out'[Len(out)].text = Append(out[Len(out)].text, token)
<1>1. Len(out) \in Nat /\ DOMAIN out = 1 .. Len(out) /\ Len(out) \in DOMAIN out
  OBVIOUS
<1>2. out' = [out EXCEPT ![Len(out)].text = Append(@, token)]
  BY DEF Written
<1>3. DOMAIN out' = DOMAIN out /\ \A i \in DOMAIN out : i # Len(out) => out'[i] = out[i]
  BY <1>1, <1>2
<1>4. out'[Len(out)] = [out[Len(out)] EXCEPT !.text = Append(@, token)]
  BY <1>1, <1>2
<1>5. out[Len(out)] \in Entries
  BY <1>1
<1>6. /\ out'[Len(out)].text = Append(out[Len(out)].text, token)
      /\ out'[Len(out)].kind = out[Len(out)].kind /\ out'[Len(out)].n = out[Len(out)].n
      /\ out'[Len(out)].missing = out[Len(out)].missing
      /\ out'[Len(out)].reached = out[Len(out)].reached
  BY <1>4, <1>5 DEF Entries
<1>7. Len(out') = Len(out)
  <2>1. out' = [i \in 1 .. Len(out) |-> out'[i]]
    BY <1>1, <1>2
  <2> PICK n \in Nat : n = Len(out)
    BY <1>1
  <2> PICK o : o = out'
    OBVIOUS
  <2>2. o = [i \in 1 .. n |-> o[i]]
    BY <2>1
  <2>3. Len(o) = n
    BY <2>2
  <2> QED BY <2>3
<1> QED BY <1>1, <1>3, <1>6, <1>7

\* One expression more of what is to be written.
LEMMA NextExpr ==
  ASSUME IInv, WriteExpr
  PROVE  /\ Head(todo) \in Expr /\ Head(todo).name \in Name
         /\ todo \in Seq(Expr) /\ todo' \in Seq(Expr)
         /\ Preorders(todo) = <<Head(todo)>> \o Preorders(todo')
<1>1. todo \in Seq(Expr) /\ todo # <<>> /\ todo' = Head(todo).parts \o Tail(todo)
  BY DEF IInv, TypeOK, WriteExpr
<1>2. /\ Head(todo) \in Expr /\ todo' \in Seq(Expr)
      /\ Preorders(todo) = <<Head(todo)>> \o Preorders(todo')
  BY <1>1, PreordersCons
<1> QED BY <1>1, <1>2, ExprAssumption

\* The locals of a list with one expression more.
LEMMA LocalsAppend ==
  ASSUME NEW pre \in Seq(Expr), NEW e \in Expr
  PROVE  LocalsOf(Append(pre, e)) =
           LocalsOf(pre) \cup (IF e.name.kind = "local" THEN {e.name.id} ELSE {})
<1> DEFINE p == Append(pre, e)
<1>1. /\ DOMAIN p = DOMAIN pre \cup {Len(pre) + 1}
      /\ \A i \in DOMAIN pre : p[i] = pre[i]
      /\ p[Len(pre) + 1] = e
  OBVIOUS
<1> HIDE DEF p
<1>2. ASSUME NEW x \in LocalsOf(p)
      PROVE  x \in LocalsOf(pre) \cup (IF e.name.kind = "local" THEN {e.name.id} ELSE {})
  <2>1. PICK j \in DOMAIN p : p[j].name.kind = "local" /\ p[j].name.id = x
    BY DEF LocalsOf
  <2>2. CASE j \in DOMAIN pre
    BY <2>1, <2>2, <1>1 DEF LocalsOf
  <2>3. CASE j = Len(pre) + 1
    BY <2>1, <2>3, <1>1
  <2> QED BY <2>2, <2>3, <1>1
<1>3. ASSUME NEW x \in LocalsOf(pre) PROVE x \in LocalsOf(p)
  <2>1. PICK j \in DOMAIN pre : pre[j].name.kind = "local" /\ pre[j].name.id = x
    BY DEF LocalsOf
  <2> QED BY <2>1, <1>1 DEF LocalsOf
<1>4. e.name.kind = "local" => e.name.id \in LocalsOf(p)
  BY <1>1 DEF LocalsOf
<1>5. \A x : x \in LocalsOf(p) <=>
        x \in LocalsOf(pre) \cup (IF e.name.kind = "local" THEN {e.name.id} ELSE {})
  BY <1>2, <1>3, <1>4
<1> QED BY <1>5 DEF p

LocalsAre(numbers, pre, s) ==
  /\ DOMAIN numbers = LocalsOf(pre)
  /\ \A id \in DOMAIN numbers : numbers[id] = LocalNumber(s, id)

\* What one more expression does to the locals of an entry.
LEMMA LocalsGrow ==
  ASSUME NEW pre \in Seq(Expr), NEW e \in Expr, NEW rest \in Seq(Expr), NEW s,
         s = Append(pre, e) \o rest, NEW m, NEW n, Dense(m), LocalsAre(m, pre, s), e.name.kind = "local",
         n = Numbered(m, e.name.id), e.name.id \in Nat
  PROVE  LocalsAre(n, Append(pre, e), s)
<1> DEFINE p == Append(pre, e)
           k == Len(pre) + 1
           x == e.name.id
<1>1. /\ p \in Seq(Expr) /\ DOMAIN p = DOMAIN pre \cup {k} /\ DOMAIN pre = 1 .. Len(pre)
      /\ Len(pre) \in Nat
      /\ \A i \in DOMAIN pre : p[i] = pre[i]
      /\ p[k] = e
  OBVIOUS
<1>2. DOMAIN n = LocalsOf(p)
  <2>1. LocalsOf(p) = LocalsOf(pre) \cup {x}
    BY LocalsAppend
  <2>2. DOMAIN n = DOMAIN m \cup {x}
    BY NumberedDense
  <2> QED BY <2>1, <2>2 DEF LocalsAre
<1> HIDE DEF p
<1>3. /\ s \in Seq(Expr) /\ \A i \in DOMAIN p : i \in DOMAIN s /\ s[i] = p[i]
  <2>1. s = p \o rest
    BY DEF p
  <2> QED BY <2>1, <1>1, PreAt
<1>4. CASE x \in DOMAIN m
  <2>1. n = m
    BY <1>4, NumberedDense
  <2> QED BY <2>1, <1>2 DEF p, LocalsAre
<1>5. CASE x \notin DOMAIN m
  <2>1. n[x] = Cardinality(LocalsOf(pre)) /\ DOMAIN n = DOMAIN m \cup {x}
        /\ \A a \in DOMAIN m : n[a] = m[a]
    BY <1>5, NumberedDense DEF LocalsAre
  <2>2. k \in DOMAIN s /\ s[k] = e
    BY <1>1, <1>3
  <2>3. {s[j].name.id : j \in {i \in DOMAIN s : s[i].name.kind = "local" /\ i < k}} = LocalsOf(pre)
    <3>1. \A i \in DOMAIN s : i \in Nat
      BY <1>3
    <3>2. \A i \in DOMAIN s : i < k <=> i \in DOMAIN pre
      <4>1. DOMAIN s = 1 .. Len(s)
        BY <1>3
      <4> QED BY <1>1, <4>1, <3>1
    <3>3. \A i \in DOMAIN pre : i \in DOMAIN s /\ s[i] = pre[i]
      BY <1>1, <1>3
    <3> QED BY <3>2, <3>3 DEF LocalsOf
  <2>4. \A j \in DOMAIN s : j < k /\ s[j].name.kind = "local" => s[j].name.id # x
    <3> SUFFICES ASSUME NEW j \in DOMAIN s, j < k, s[j].name.kind = "local", s[j].name.id = x
                 PROVE  FALSE
      OBVIOUS
    <3>1. x \in {s[i].name.id : i \in {y \in DOMAIN s : s[y].name.kind = "local" /\ y < k}}
      OBVIOUS
    <3> QED BY <3>1, <2>3, <1>5 DEF LocalsAre
  <2>5. LocalNumber(s, x) = Cardinality(LocalsOf(pre))
    <3>1. s[k].name.id = x /\ s[k].name.kind = "local"
      BY <2>2
    <3>2. LocalNumber(s, s[k].name.id)
           = Cardinality({s[j].name.id : j \in {i \in DOMAIN s : s[i].name.kind = "local" /\ i < k}})
      <4> HIDE DEF k, x
      <4>1. \A j \in DOMAIN s : j < k /\ s[j].name.kind = "local" => s[j].name.id # s[k].name.id
        BY <2>4, <3>1
      <4> QED BY <4>1, <3>1, <2>2, <1>3, LocalFirst
    <3> QED BY <3>1, <3>2, <2>3
  <2> QED BY <2>1, <2>5, <1>2 DEF p, LocalsAre
<1> QED BY <1>4, <1>5

\* Writing an expression leaves every text a true beginning of its item's.
LEMMA WriteExprText == IInv /\ TextInv /\ WriteExpr => TextInv'
<1> SUFFICES ASSUME IInv, TextInv, WriteExpr PROVE TextInv'
  OBVIOUS
<1> PICK e, n : e = Head(todo) /\ n = Len(out)
  OBVIOUS
<1>1. /\ e \in Expr /\ e.name \in Name /\ todo \in Seq(Expr) /\ todo' \in Seq(Expr)
      /\ Preorders(todo) = <<e>> \o Preorders(todo')
  BY NextExpr
<1>2. /\ todo # <<>> /\ out \in Seq(Entries) /\ out # <<>> /\ definition(e.name)
      /\ out' = Written(Token(e)) /\ program' = program /\ IsProgram(program) /\ Dense(locals)
  BY DEF IInv, TypeOK, WriteExpr, TextInv
<1>3. /\ Extended /\ Met(e.name)'
      /\ e.name.kind \in {"function", "global"} => NumberOf(e.name) = ItemNumber(e.name)'
      /\ e.name.kind = "local" => locals' = Numbered(locals, e.name.id)
      /\ e.name.kind # "local" => locals' = locals
  BY <1>1, <1>2, MeetingExtends
<1>4. /\ Len(out') = n /\ DOMAIN out' = DOMAIN out /\ n \in DOMAIN out
      /\ \A i \in DOMAIN out : i # n => out'[i] = out[i]
      /\ \A i \in DOMAIN out : out'[i].kind = out[i].kind /\ out'[i].n = out[i].n
      /\ out'[n].text = Append(out[n].text, Token(e))
  BY <1>2, WrittenText
<1>5. ASSUME NEW i \in DOMAIN out, i # n, NEW item \in ItemName, TextOf(i, item)
      PROVE  TextOf(i, item)'
  <2>1. Rest(i) = <<>> /\ Rest(i)' = <<>> /\ out'[i].text = out[i].text
    BY <1>4, <1>5 DEF Rest
  <2> QED BY <2>1, <1>2, <1>3, <1>5, TextKept
<1>6. ASSUME NEW item \in ItemName, TextOf(n, item)
      PROVE  TextOf(n, item)'
  <2>1. Rest(n) = todo /\ Rest(n)' = todo'
    BY <1>4 DEF Rest
  <2>2. PICK pre \in Seq(Expr) :
          /\ Source(item) = pre \o Preorders(todo)
          /\ out[n].text = [k \in DOMAIN pre |-> Reads(Source(item), k)]
          /\ \A k \in DOMAIN pre : Met(pre[k].name)
          /\ DOMAIN locals = LocalsOf(pre)
          /\ \A id \in DOMAIN locals : locals[id] = LocalNumber(Source(item), id)
    BY <1>6, <1>2, <2>1 DEF TextOf
  <2> PICK s : s = Source(item)
    OBVIOUS
  <2> DEFINE p == Append(pre, e)
  <2>3. /\ p \in Seq(Expr) /\ Len(p) = Len(pre) + 1 /\ Len(pre) \in Nat
        /\ DOMAIN pre = 1 .. Len(pre)
        /\ DOMAIN p = DOMAIN pre \cup {Len(p)} /\ p[Len(p)] = e
        /\ \A k \in DOMAIN pre : p[k] = pre[k]
        /\ p = pre \o <<e>> /\ <<e>> \in Seq(Expr)
    <3>1. <<e>> \in Seq(Expr) /\ e \in Expr
      BY <1>1
    <3>2. p = pre \o <<e>>
      BY <3>1, AppendIsConcat
    <3>3. p \in Seq(Expr) /\ Len(p) = Len(pre) + 1 /\ Len(pre) \in Nat
      BY <3>1
    <3>4. DOMAIN p = DOMAIN pre \cup {Len(p)} /\ p[Len(p)] = e /\ \A k \in DOMAIN pre : p[k] = pre[k]
      BY <3>1
    <3> QED BY <3>1, <3>2, <3>3, <3>4
  <2> HIDE DEF p
  <2>4. Preorders(todo') \in Seq(Expr) /\ Preorders(todo) \in Seq(Expr)
    BY <1>1, PreorderTree
  <2>5. s = p \o Preorders(todo')
    <3>1. (pre \o <<e>>) \o Preorders(todo') = pre \o (<<e>> \o Preorders(todo'))
      BY <2>3, <2>4, ConcatAssoc
    <3> QED BY <3>1, <2>2, <2>3, <1>1
  <2>6. s \in Seq(Expr) /\ \A k \in DOMAIN p : k \in DOMAIN s /\ s[k] = p[k]
    BY <2>3, <2>4, <2>5, PreAt
  <2>7. Source(item)' = s
    BY <1>2, SourceKept
  <2>8. /\ DOMAIN locals' = LocalsOf(p)
        /\ \A id \in DOMAIN locals' : locals'[id] = LocalNumber(s, id)
    <3>1. CASE e.name.kind = "local"
      <4>1. e.name.id \in Nat
        BY <1>1 DEF Name
      <4>2. s = Append(pre, e) \o Preorders(todo')
        BY <2>5 DEF p
      <4>3. locals' = Numbered(locals, e.name.id)
        BY <3>1, <1>3
      <4>4. PICK m, q, rest : m = locals /\ q = locals' /\ rest = Preorders(todo')
        OBVIOUS
      <4>5. /\ DOMAIN q = LocalsOf(Append(pre, e))
            /\ \A id \in DOMAIN q : q[id] = LocalNumber(s, id)
        <5>1. /\ Dense(m) /\ LocalsAre(m, pre, s)
              /\ q = Numbered(m, e.name.id)
              /\ s = Append(pre, e) \o rest /\ rest \in Seq(Expr) /\ e \in Expr
          BY <4>2, <4>3, <4>4, <2>2, <2>4, <1>1, <1>2 DEF LocalsAre
        <5>2. LocalsAre(q, Append(pre, e), s)
          BY <5>1, <3>1, <4>1, LocalsGrow
        <5> QED BY <5>2 DEF LocalsAre
      <4> QED BY <4>4, <4>5 DEF p
    <3>2. CASE e.name.kind # "local"
      <4>1. LocalsOf(p) = LocalsOf(pre)
        BY <3>2, <1>1, LocalsAppend DEF p
      <4> QED BY <4>1, <3>2, <1>3, <2>2
    <3> QED BY <3>1, <3>2
  <2>9. ASSUME NEW k \in DOMAIN pre
        PROVE  Reads(s, k)' = Reads(s, k) /\ Met(p[k].name)'
    <3>1. k \in DOMAIN s /\ s[k] = p[k] /\ p[k] = pre[k] /\ Met(s[k].name)
      BY <2>2, <2>3, <2>6
    <3>2. Reads(s, k)' = Reads(s, k) /\ Met(s[k].name)'
      BY <3>1, <2>6, <1>3, ReadsKept
    <3> QED BY <3>1, <3>2
  <2>10. Reads(s, Len(p))' = Token(e)
    <3>1. s[Len(p)] = e
      BY <2>3, <2>6
    <3>2. e.name.kind = "local" => LocalNumber(s, e.name.id) = NumberOf(e.name)
      <4> SUFFICES ASSUME e.name.kind = "local"
                   PROVE  LocalNumber(s, e.name.id) = NumberOf(e.name)
        OBVIOUS
      <4>0. Len(p) \in DOMAIN p /\ p[Len(p)].name.kind = "local" /\ p[Len(p)].name.id = e.name.id
        BY <2>3
      <4>1. e.name.id \in DOMAIN locals'
        BY <4>0, <2>8 DEF LocalsOf
      <4>2. locals' = Numbered(locals, e.name.id)
        BY <1>3
      <4> QED BY <4>1, <4>2, <2>8 DEF NumberOf
    <3>3. e.name.kind \in {"named", "none"} => NumberOf(e.name) = e.name.id
      BY DEF NumberOf
    <3>4. e.name.kind \in NameKind
      BY <1>1 DEF Name
    <3>5. e.name.kind \in {"function", "global", "local", "named", "none"}
      BY <3>4 DEF NameKind
    <3>6. Reads(s, Len(p))' = [form |-> e.form, kind |-> e.name.kind, parts |-> Len(e.parts),
            n |-> CASE e.name.kind \in {"function", "global"} -> ItemNumber(e.name)'
                    [] e.name.kind = "local" -> LocalNumber(s, e.name.id)
                    [] OTHER -> e.name.id]
      BY <3>1 DEF Reads
    <3>7. NumberOf(e.name) = CASE e.name.kind \in {"function", "global"} -> ItemNumber(e.name)'
                               [] e.name.kind = "local" -> LocalNumber(s, e.name.id)
                               [] OTHER -> e.name.id
      BY <3>2, <3>3, <3>5, <1>3
    <3> QED BY <3>6, <3>7 DEF Token
  <2>11. out'[n].text = [k \in DOMAIN p |-> Reads(s, k)']
    <3> PICK token : token = Token(e)
      OBVIOUS
    <3>1. out'[n].text = Append([k \in 1 .. Len(pre) |-> Reads(s, k)], token)
      BY <1>4, <2>2, <2>3
    <3>2. [k \in 1 .. Len(pre) |-> Reads(s, k)] = [k \in 1 .. Len(pre) |-> Reads(s, k)']
      BY <2>3, <2>9
    <3>3. out'[n].text = Append([k \in 1 .. Len(pre) |-> Reads(s, k)'], token)
      BY <3>1, <3>2
    <3>4. ASSUME NEW l \in Nat, NEW f, f[l + 1] = token
          PROVE  Append([k \in 1 .. l |-> f[k]], token) = [k \in 1 .. l + 1 |-> f[k]]
      <4> DEFINE a == [k \in 1 .. l |-> f[k]]
      <4>1. Len(a) = l /\ Append(a, token) = [k \in 1 .. l + 1 |-> IF k = l + 1 THEN token ELSE a[k]]
        OBVIOUS
      <4> QED BY <3>4, <4>1
    <3> DEFINE f == [k \in DOMAIN p |-> Reads(s, k)']
    <3>5. DOMAIN p = 1 .. Len(pre) + 1 /\ f[Len(pre) + 1] = token
      BY <2>3, <2>10
    <3>6. [k \in 1 .. Len(pre) |-> Reads(s, k)'] = [k \in 1 .. Len(pre) |-> f[k]]
      BY <3>5, <2>3
    <3>7. [k \in 1 .. Len(pre) + 1 |-> f[k]] = f
      BY <3>5
    <3> HIDE DEF f
    <3>8. Append([k \in 1 .. Len(pre) |-> f[k]], token) = [k \in 1 .. Len(pre) + 1 |-> f[k]]
      BY <3>4, <3>5, <2>3
    <3>9. out'[n].text = f
      BY <3>3, <3>6, <3>7, <3>8
    <3> QED BY <3>9 DEF f
  <2>12. \A k \in DOMAIN p : Met(p[k].name)'
    BY <2>3, <2>9, <1>3
  <2>13. Source(item)' = p \o Preorders(Rest(n)')
    BY <2>1, <2>5, <2>7
  <2>14. out'[n].text = [k \in DOMAIN p |-> Reads(Source(item), k)']
    BY <2>7, <2>11 DEF Reads
  <2>15. /\ DOMAIN locals' = LocalsOf(p)
         /\ \A id \in DOMAIN locals' : locals'[id] = LocalNumber(Source(item)', id)
    BY <2>7, <2>8
  <2> QED BY <2>3, <2>12, <2>13, <2>14, <2>15 DEF TextOf
<1>7. ASSUME NEW i \in DOMAIN out'
      PROVE  \E item \in ItemName : Owner(i, item)' /\ TextOf(i, item)'
  <2>1. PICK item \in ItemName : Owner(i, item) /\ TextOf(i, item)
    BY <1>4, <1>7 DEF TextInv
  <2>2. Owner(i, item)'
    BY <2>1, <1>3, <1>4, <1>7, OwnerKept
  <2>3. TextOf(i, item)'
    BY <2>1, <1>4, <1>5, <1>6, <1>7
  <2> QED BY <2>2, <2>3
<1>8. out' # <<>>
  BY <1>4
<1> QED BY <1>7, <1>8 DEF TextInv

\* A new entry has all of its item still to be written.
LEMMA EntryText ==
  ASSUME IInv, TextInv, todo = <<>>, functions' = functions, globals' = globals,
         program' = program, NEW item \in ItemName, HasNumber(item), NEW entry \in Entries,
         out' = Append(out, entry), entry.kind = item.kind, entry.n = ItemNumber(item),
         entry.text = <<>>, todo' = Parts(item), todo' # <<>> => locals' = [l \in {} |-> 0]
  PROVE  TextInv'
<1>1. out \in Seq(Entries) /\ IsProgram(program)
  BY DEF IInv, TypeOK
<1> PICK n : n = Len(out) + 1
  OBVIOUS
<1>2. /\ Len(out') = n /\ DOMAIN out' = DOMAIN out \cup {n} /\ out'[n] = entry
      /\ \A i \in DOMAIN out : out'[i] = out[i] /\ i # n
      /\ out' # <<>>
  BY <1>1
<1>3. Extended
  BY DEF Extended
<1>4. ASSUME NEW i \in DOMAIN out
      PROVE  \E a \in ItemName : Owner(i, a)' /\ TextOf(i, a)'
  <2>1. PICK a \in ItemName : Owner(i, a) /\ TextOf(i, a)
    BY DEF TextInv
  <2>2. Owner(i, a)'
    BY <2>1, <1>2, <1>3, OwnerKept
  <2>3. Rest(i) = <<>> /\ Rest(i)' = <<>>
    BY <1>2 DEF Rest
  <2>4. TextOf(i, a)'
    BY <2>1, <2>3, <1>2, <1>3, TextKept
  <2> QED BY <2>2, <2>4
<1>5. Owner(n, item)'
  BY <1>2 DEF Owner, IsEntryOf, HasNumber, ItemNumber
<1>6. TextOf(n, item)'
  <2> PICK s, rest : s = Source(item) /\ rest = todo'
    OBVIOUS
  <2>1. rest \in Seq(Expr) /\ s = Preorders(rest) /\ s \in Seq(Expr)
    BY <1>1, SourceType DEF Source
  <2>2. Source(item)' = s
    BY SourceKept
  <2>3. <<>> \in Seq(Expr)
    OBVIOUS
  <2>4. s = <<>> \o Preorders(rest)
    BY <2>1, ConcatEmptySeq
  <2>5. Rest(n)' = rest
    BY <1>2 DEF Rest
  <2>6. out'[n].text = [k \in DOMAIN <<>> |-> Reads(Source(item), k)']
    BY <1>2
  <2>7. rest # <<>> => /\ DOMAIN locals' = LocalsOf(<<>>)
                       /\ \A id \in DOMAIN locals' : locals'[id] = LocalNumber(s, id)
    <3>1. LocalsOf(<<>>) = {}
      BY DEF LocalsOf
    <3> QED BY <3>1
  <2>8. \A k \in DOMAIN <<>> : Met(<<>>[k].name)'
    OBVIOUS
  <2>9. Source(item)' = <<>> \o Preorders(Rest(n)')
    BY <2>2, <2>4, <2>5
  <2>10. Rest(n)' # <<>> =>
           /\ DOMAIN locals' = LocalsOf(<<>>)
           /\ \A id \in DOMAIN locals' : locals'[id] = LocalNumber(Source(item)', id)
    BY <2>2, <2>5, <2>7
  <2> PICK pre \in Seq(Expr) : pre = <<>>
    BY <2>3
  <2> QED BY <2>6, <2>8, <2>9, <2>10 DEF TextOf
<1>7. \A i \in DOMAIN out' : \E a \in ItemName : Owner(i, a)' /\ TextOf(i, a)'
  BY <1>2, <1>4, <1>5, <1>6
<1> QED BY <1>2, <1>7 DEF TextInv

\* A function's entry begins with no text and all of its parts to write.
LEMMA EmitFunctionText == IInv /\ TextInv /\ emit_function => TextInv'
<1> SUFFICES ASSUME IInv, TextInv, emit_function PROVE TextInv'
  OBVIOUS
<1> PICK id, e, item : /\ id = Head(function_queue)
                       /\ e = Entry("function", functions[id], ~HasFunction(id))
                       /\ item = Id("function", id)
  OBVIOUS
<1>1. /\ todo = <<>> /\ functions' = functions /\ globals' = globals /\ program' = program
      /\ function_queue \in Seq(Nat) /\ function_queue # <<>> /\ out' = Append(out, e)
  BY DEF IInv, TypeOK, emit_function, Draining
<1>2. id \in Nat /\ id \in DOMAIN functions /\ functions[id] \in Nat
  BY <1>1 DEF IInv, TypeOK, QueueHolds, Dense
<1>3. item \in ItemName /\ HasNumber(item) /\ ItemNumber(item) = functions[id]
  BY <1>2 DEF Id, ItemName, HasNumber, ItemNumber
<1>4. e \in Entries /\ e.kind = item.kind /\ e.n = ItemNumber(item) /\ e.text = <<>>
  BY <1>2, <1>3 DEF Entry, Entries, Id
<1>5. todo' = Parts(item) /\ (todo' # <<>> => locals' = [l \in {} |-> 0])
  <2>1. item.kind = "function" /\ item.id = id
    BY DEF Id
  <2>2. CASE HasFunction(id)
    BY <2>1, <2>2 DEF emit_function, Parts
  <2>3. CASE ~HasFunction(id)
    BY <2>1, <2>3, <1>1 DEF emit_function, Parts
  <2> QED BY <2>2, <2>3
<1> QED BY <1>1, <1>3, <1>4, <1>5, EntryText

\* A global's entry begins with no text and its value to write.
LEMMA EmitGlobalText == IInv /\ TextInv /\ emit_global => TextInv'
<1> SUFFICES ASSUME IInv, TextInv, emit_global PROVE TextInv'
  OBVIOUS
<1> PICK id, e, item : /\ id = Head(global_queue)
                       /\ e = Entry("global", globals[id], ~HasGlobal(id))
                       /\ item = Id("global", id)
  OBVIOUS
<1>1. /\ todo = <<>> /\ functions' = functions /\ globals' = globals /\ program' = program
      /\ global_queue \in Seq(Nat) /\ global_queue # <<>> /\ out' = Append(out, e)
  BY DEF IInv, TypeOK, emit_global, Draining
<1>2. id \in Nat /\ id \in DOMAIN globals /\ globals[id] \in Nat
  <2>1. QueueHolds(global_queue, globals, "global", out) /\ Dense(globals)
    BY DEF IInv, TypeOK
  <2>2. id \in DOMAIN globals
    BY <1>1, <2>1 DEF QueueHolds
  <2> QED BY <2>1, <2>2 DEF Dense
<1>3. item \in ItemName /\ HasNumber(item) /\ ItemNumber(item) = globals[id]
  BY <1>2 DEF Id, ItemName, HasNumber, ItemNumber
<1>4. e \in Entries /\ e.kind = item.kind /\ e.n = ItemNumber(item) /\ e.text = <<>>
  BY <1>2, <1>3 DEF Entry, Entries, Id
<1>5. todo' = Parts(item) /\ (todo' # <<>> => locals' = [l \in {} |-> 0])
  <2>1. item.kind = "global" /\ item.id = id
    BY DEF Id
  <2>2. CASE HasGlobal(id)
    BY <2>1, <2>2 DEF emit_global, Parts
  <2>3. CASE ~HasGlobal(id)
    BY <2>1, <2>3, <1>1 DEF emit_global, Parts
  <2> QED BY <2>2, <2>3
<1> QED BY <1>1, <1>3, <1>4, <1>5, EntryText

\* The steps that write nothing.
LEMMA NothingWritten ==
  ASSUME IInv, TextInv, Extended, program' = program, out' = out, todo' = todo, locals' = locals
  PROVE  TextInv'
<1>1. ASSUME NEW i \in DOMAIN out PROVE \E a \in ItemName : Owner(i, a)' /\ TextOf(i, a)'
  <2>1. PICK a \in ItemName : Owner(i, a) /\ TextOf(i, a)
    BY DEF TextInv
  <2>2. Owner(i, a)'
    BY <2>1, OwnerKept
  <2>3. Rest(i)' = Rest(i) /\ out'[i].text = out[i].text
    BY DEF Rest
  <2>4. TextOf(i, a)'
    BY <2>1, <2>3, TextKept
  <2> QED BY <2>2, <2>4
<1> QED BY <1>1 DEF TextInv

\* Every step but another compilation numbers more, or nothing.
LEMMA NumbersExtend == IInv /\ [Next]_vars => Extended
<1> SUFFICES ASSUME IInv, [Next]_vars PROVE Extended
  OBVIOUS
<1>0. functions' = functions /\ globals' = globals => Extended
  BY DEF Extended
<1>1. CASE WriteExpr
  <2> PICK e : e = Head(todo)
    OBVIOUS
  <2>1. e.name \in Name /\ definition(e.name)
    BY <1>1, NextExpr DEF WriteExpr
  <2> QED BY <2>1, MeetingExtends
<1>2. CASE emit_function
  BY <1>0, <1>2 DEF emit_function
<1>3. CASE emit_global
  BY <1>0, <1>3 DEF emit_global
<1>4. CASE StartUnreachable
  BY <1>0, <1>4 DEF StartUnreachable
<1>5. CASE NumberLeftover
  <2>1. leftover \in Seq(ItemName) /\ leftover # <<>>
    BY <1>5 DEF IInv, TypeOK, NumberLeftover
  <2>2. PICK item \in ItemName : item = Head(leftover)
    BY <2>1
  <2>3. item.id \in Nat /\ Dense(functions) /\ Dense(globals)
    BY DEF ItemName, IInv, TypeOK
  <2>4. \/ functions' = Numbered(functions, item.id) /\ globals' = globals
        \/ globals' = Numbered(globals, item.id) /\ functions' = functions
    BY <1>5, <2>2 DEF NumberLeftover, function_id, global_id
  <2>5. ASSUME NEW m, Dense(m)
        PROVE  /\ DOMAIN m \subseteq DOMAIN Numbered(m, item.id)
               /\ \A a \in DOMAIN m : Numbered(m, item.id)[a] = m[a]
    BY <2>3, <2>5, NumberedDense
  <2> QED BY <2>3, <2>4, <2>5 DEF Extended
<1>6. CASE Finish
  BY <1>0, <1>6 DEF Finish
<1>7. CASE UNCHANGED vars
  BY <1>0, <1>7 DEF vars
<1> QED BY <1>1, <1>2, <1>3, <1>4, <1>5, <1>6, <1>7 DEF Next

\* Every step of a compilation keeps the texts true.
LEMMA NextText == IInv /\ TextInv /\ [Next]_vars => TextInv'
<1> SUFFICES ASSUME IInv, TextInv, [Next]_vars PROVE TextInv'
  OBVIOUS
<1>0. Extended
  BY NumbersExtend
<1>1. CASE StartUnreachable
  BY <1>0, <1>1, NothingWritten DEF StartUnreachable
<1>2. CASE NumberLeftover
  BY <1>0, <1>2, NothingWritten DEF NumberLeftover
<1>3. CASE Finish
  BY <1>0, <1>3, NothingWritten DEF Finish
<1>4. CASE UNCHANGED vars
  BY <1>0, <1>4, NothingWritten DEF vars, work
<1> QED BY <1>1, <1>2, <1>3, <1>4, WriteExprText, EmitFunctionText, EmitGlobalText DEF Next

\* A fresh program has no text.
LEMMA FreshText == Fresh => TextInv
BY DEF Fresh, TextInv

\* Nor has the program that is compiled again.
LEMMA FreshTextAgain == Fresh' => TextInv'
BY FreshText, PTL

\* TextInv holds throughout both compilations.
LEMMA TextInduction == RecompileSpec => []TextInv
<1>1. RecompileInit => TextInv
  BY InitFresh, FreshText DEF RecompileInit
<1>2. IInv /\ TextInv /\ [RecompileNext]_<<vars, earlier>> => TextInv'
  <2> SUFFICES ASSUME IInv, TextInv, [RecompileNext]_<<vars, earlier>> PROVE TextInv'
    OBVIOUS
  <2>1. CASE Next \/ UNCHANGED <<vars, earlier>>
    <3>1. [Next]_vars
      BY <2>1
    <3> QED BY <3>1, NextText
  <2>2. CASE CompileAgain
    BY <2>2, CompileAgainFresh, FreshTextAgain
  <2> QED BY <2>1, <2>2 DEF RecompileNext
<1> QED BY <1>1, <1>2, Induction, PTL DEF RecompileSpec

\* Each entry of a finished text is its item: functions and globals replaced by
\* their numbers, locals by the order in which the item itself first names
\* them, whatever was written before it.
THEOREM ReadsBack == RecompileSpec => []TextReadsBack
<1>1. IInv /\ TextInv => TextReadsBack
  <2> SUFFICES ASSUME IInv, TextInv, phase = "done", NEW i \in DOMAIN out
               PROVE  out[i].text = [k \in DOMAIN Source(ItemOf(out[i])) |->
                                       Reads(Source(ItemOf(out[i])), k)]
    BY DEF TextReadsBack
  <2>1. PICK item \in ItemName : Owner(i, item) /\ TextOf(i, item)
    BY DEF TextInv
  <2>2. ItemOf(out[i]) = item
    BY <2>1, ItemOfOwner
  <2>3. Rest(i) = <<>>
    BY DEF IInv, Rest
  <2>4. PICK pre \in Seq(Expr) :
          /\ Source(item) = pre \o Preorders(<<>>)
          /\ out[i].text = [k \in DOMAIN pre |-> Reads(Source(item), k)]
    BY <2>1, <2>3 DEF TextOf
  <2>5. Source(item) = pre
    <3>1. Preorders(<<>>) = <<>>
      BY EmptyPreorders
    <3> QED BY <3>1, <2>4, ConcatEmptySeq
  <2> QED BY <2>2, <2>4, <2>5
<1> QED BY <1>1, Induction, TextInduction, PTL

-----------------------------------------------------------------------------
\* What must be written if main is and what a written item uses is.
Closed(S)       == Id("function", Main) \in S /\ \A item \in S : Uses(item) \subseteq S
Reachable(item) == \A S \in SUBSET ItemName : Closed(S) => item \in S

\* The items before the mark.
Reached == {item \in ItemName : \E i \in DOMAIN out : out[i].reached /\ Owner(i, item)}

ReachInv ==
  /\ HasNumber(Id("function", Main))
  /\ phase = "reached" => /\ leftover = <<>>
                          /\ \A i \in DOMAIN out : out[i].reached
                          /\ \A item \in ItemName : HasNumber(item) => Reachable(item)
  /\ \A item \in Reached : Reachable(item)
  /\ phase # "reached" => Closed(Reached)

\* What is reachable changes only with the program.
LEMMA ClosedKept ==
  ASSUME program' = program
  PROVE  /\ \A S : Closed(S)' = Closed(S)
         /\ \A item : Reachable(item)' = Reachable(item)
<1>1. \A item : Source(item)' = Source(item)
  BY SourceKept
<1>2. \A item : Uses(item)' = Uses(item)
  BY <1>1 DEF Uses
<1>3. \A S : Closed(S)' = Closed(S)
  BY <1>2 DEF Closed
<1> QED BY <1>3 DEF Reachable

Unique == \A i : \A a, b \in ItemName : Owner(i, a) /\ Owner(i, b) => a = b

\* Entries have one owner each, stated for use in the next state.
LEMMA UniqueInv == IInv => Unique
BY OwnerUnique DEF Unique

\* Entries have one owner each in the next state.
LEMMA UniqueNext == IInv' => Unique'
BY UniqueInv, PTL

\* Numbering more changes nothing about what the entries are entries of.
LEMMA ReachedKept ==
  ASSUME IInv, IInv', TextInv, Extended, Len(out') = Len(out), DOMAIN out' = DOMAIN out,
         \A i \in DOMAIN out : /\ out'[i].kind = out[i].kind /\ out'[i].n = out[i].n
                               /\ out'[i].reached = out[i].reached
  PROVE  Reached' = Reached
<1>1. ASSUME NEW item \in ItemName, NEW i \in DOMAIN out, Owner(i, item)'
      PROVE  Owner(i, item)
  <2>1. PICK a \in ItemName : Owner(i, a)
    BY DEF TextInv
  <2>2. Owner(i, a)'
    BY <2>1, OwnerKept
  <2>3. a = item
    BY <2>2, <1>1, UniqueNext DEF Unique
  <2> QED BY <2>1, <2>3
<1>2. \A item \in ItemName : \A i \in DOMAIN out : Owner(i, item)' <=> Owner(i, item)
  BY <1>1, OwnerKept
<1> QED BY <1>2 DEF Reached

\* When no item waits, every numbered item has its entry.
LEMMA AllWritten ==
  ASSUME IInv, function_queue = <<>>, global_queue = <<>>, NEW item \in ItemName, HasNumber(item)
  PROVE  \E i \in DOMAIN out : Owner(i, item)
<1>1. /\ Dense(functions) /\ Dense(globals)
      /\ QueueHolds(function_queue, functions, "function", out)
      /\ QueueHolds(global_queue, globals, "global", out)
  BY DEF IInv, TypeOK
<1>2. ASSUME NEW m, NEW q, NEW kind, Dense(m), QueueHolds(q, m, kind, out), q = <<>>,
             NEW id \in DOMAIN m
      PROVE  \E i \in DOMAIN out : out[i].kind = kind /\ out[i].n = m[id]
  <2>1. PICK n \in Nat :
          /\ n + Len(q) = Cardinality(DOMAIN m)
          /\ \A x \in Nat : x < n => \E i \in DOMAIN out : out[i].kind = kind /\ out[i].n = x
    BY <1>2 DEF QueueHolds
  <2>2. m[id] \in Nat /\ m[id] < Cardinality(DOMAIN m)
    BY <1>2 DEF Dense
  <2>3. n = Cardinality(DOMAIN m)
    BY <2>1, <1>2
  <2> QED BY <2>1, <2>2, <2>3
<1>3. CASE item.kind = "function"
  <2>1. item.id \in DOMAIN functions /\ ItemNumber(item) = functions[item.id]
    BY <1>3 DEF HasNumber, ItemNumber
  <2>2. \E i \in DOMAIN out : out[i].kind = "function" /\ out[i].n = functions[item.id]
    BY <2>1, <1>1, <1>2
  <2> QED BY <2>1, <2>2, <1>3 DEF IsEntryOf, Owner
<1>4. CASE item.kind = "global"
  <2>1. item.id \in DOMAIN globals /\ ItemNumber(item) = globals[item.id]
    BY <1>4 DEF HasNumber, ItemNumber
  <2>2. \E i \in DOMAIN out : out[i].kind = "global" /\ out[i].n = globals[item.id]
    BY <2>1, <1>1, <1>2
  <2> QED BY <2>1, <2>2, <1>4 DEF IsEntryOf, Owner
<1> QED BY <1>3, <1>4 DEF ItemName

\* Main is an item.
LEMMA MainIsItem == Id("function", Main) \in ItemName
BY DEF Id, ItemName, Main

\* What is written when the items that wait are all written is closed.
LEMMA DrainedCloses ==
  ASSUME IInv, TextInv, ReachInv, Drained, phase = "reached"
  PROVE  Closed(Reached)
<1>1. function_queue = <<>> /\ global_queue = <<>> /\ todo = <<>>
  BY DEF Drained, Draining
<1>2. ASSUME NEW item \in ItemName, HasNumber(item) PROVE item \in Reached
  <2>1. PICK i \in DOMAIN out : Owner(i, item)
    BY <1>1, <1>2, AllWritten
  <2> QED BY <2>1 DEF ReachInv, Reached
<1>3. Id("function", Main) \in Reached
  BY <1>2, MainIsItem DEF ReachInv
<1>4. ASSUME NEW item \in Reached PROVE Uses(item) \subseteq Reached
  <2>1. PICK i \in DOMAIN out : out[i].reached /\ Owner(i, item)
    BY DEF Reached
  <2>2. PICK a \in ItemName : Owner(i, a) /\ TextOf(i, a)
    BY DEF TextInv
  <2>3. a = item
    BY <2>1, <2>2, OwnerUnique DEF Reached
  <2>4. Rest(i) = <<>>
    BY <1>1 DEF Rest
  <2>5. PICK pre \in Seq(Expr) :
          Source(item) = pre \o Preorders(<<>>) /\ \A k \in DOMAIN pre : Met(pre[k].name)
    BY <2>2, <2>3, <2>4 DEF TextOf
  <2>6. Source(item) = pre
    BY <2>5, EmptyPreorders, ConcatEmptySeq
  <2>7. SUFFICES ASSUME NEW k \in DOMAIN pre, pre[k].name.kind \in {"function", "global"}
                 PROVE  pre[k].name \in Reached
    BY <2>6 DEF Uses, Range
  <2>8. pre[k].name \in ItemName
    <3>1. pre[k].name \in Name
      BY ExprAssumption
    <3> QED BY <3>1, <2>7 DEF Name, ItemName
  <2> QED BY <2>5, <2>7, <2>8, <1>2 DEF Met
<1> QED BY <1>3, <1>4 DEF Closed

\* The item being written uses what its next expression names.
LEMMA NextUsed ==
  ASSUME IInv, TextInv, WriteExpr, NEW e, e = Head(todo), e.name.kind \in {"function", "global"}
  PROVE  \E item \in ItemName : Owner(Len(out), item) /\ e.name \in Uses(item)
<1>1. /\ out # <<>> /\ out \in Seq(Entries) /\ IsProgram(program)
  BY DEF IInv, TypeOK, TextInv, WriteExpr
<1>2. Len(out) \in DOMAIN out
  BY <1>1
<1>3. PICK item \in ItemName : Owner(Len(out), item) /\ TextOf(Len(out), item)
  BY <1>2 DEF TextInv
<1>4. PICK pre \in Seq(Expr) : Source(item) = pre \o Preorders(todo)
  BY <1>3 DEF TextOf, Rest
<1>5. /\ e \in Expr /\ todo \in Seq(Expr) /\ todo' \in Seq(Expr)
      /\ Preorders(todo) = <<e>> \o Preorders(todo')
  BY NextExpr
<1> PICK s, rest, tail : s = Source(item) /\ rest = Preorders(todo) /\ tail = Preorders(todo')
  OBVIOUS
<1>6. rest \in Seq(Expr) /\ tail \in Seq(Expr)
  BY <1>5, PreorderTree
<1>7. Len(rest) = Len(tail) + 1 /\ rest[1] = e /\ Len(tail) \in Nat
  <2>1. rest = <<e>> \o tail
    BY <1>5
  <2> QED BY <2>1, <1>5, <1>6
<1>8. Len(pre) + 1 \in DOMAIN s /\ s[Len(pre) + 1] = e
  <2>1. s = pre \o rest
    BY <1>4
  <2> QED BY <2>1, <1>6, <1>7
<1>9. e \in Range(Source(item))
  BY <1>8 DEF Range
<1> QED BY <1>3, <1>9 DEF Uses

\* Writing an expression reaches only what a reached item uses.
LEMMA WriteExprReach == IInv /\ TextInv /\ ReachInv /\ WriteExpr /\ IInv' => ReachInv'
<1> SUFFICES ASSUME IInv, TextInv, ReachInv, WriteExpr, IInv' PROVE ReachInv'
  OBVIOUS
<1> PICK e : e = Head(todo)
  OBVIOUS
<1>1. e \in Expr /\ e.name \in Name
  BY NextExpr
<1>2. /\ out \in Seq(Entries) /\ out # <<>> /\ definition(e.name)
      /\ out' = Written(Token(e)) /\ program' = program /\ phase' = phase
  BY DEF IInv, TypeOK, WriteExpr, TextInv
<1>3. /\ Extended
      /\ \A item \in ItemName : HasNumber(item)' => HasNumber(item) \/ item = e.name
  BY <1>1, <1>2, MeetingExtends
<1>4. /\ Len(out') = Len(out) /\ DOMAIN out' = DOMAIN out
      /\ \A i \in DOMAIN out : /\ out'[i].kind = out[i].kind /\ out'[i].n = out[i].n
                               /\ out'[i].reached = out[i].reached
  BY <1>2, WrittenText
<1>5. Reached' = Reached
  BY <1>3, <1>4, ReachedKept
<1>6. /\ \A S : Closed(S)' = Closed(S)
      /\ \A item : Reachable(item)' = Reachable(item)
  BY <1>2, ClosedKept
<1>7. HasNumber(Id("function", Main))'
  BY <1>3 DEF ReachInv, HasNumber, Extended
<1>8. ASSUME phase = "reached", NEW item \in ItemName, HasNumber(item)' PROVE Reachable(item)'
  <2>1. CASE HasNumber(item)
    BY <2>1, <1>6, <1>8 DEF ReachInv
  <2>2. CASE item = e.name
    <3>1. PICK a \in ItemName : Owner(Len(out), a) /\ e.name \in Uses(a)
      BY <2>2, NextUsed DEF ItemName
    <3>2. Reachable(a)
      BY <3>1, <1>8 DEF ReachInv, Owner
    <3>3. Reachable(item)
      BY <3>1, <3>2, <2>2 DEF Reachable, Closed
    <3> QED BY <3>3, <1>6
  <2> QED BY <2>1, <2>2, <1>3, <1>8
<1>9. phase' = "reached" => leftover' = <<>> /\ \A i \in DOMAIN out' : out'[i].reached
  <2>1. leftover' = leftover
    BY DEF WriteExpr
  <2> QED BY <2>1, <1>2, <1>4 DEF ReachInv
<1>10. \A item \in Reached' : Reachable(item)'
  BY <1>5, <1>6 DEF ReachInv
<1>11. phase' # "reached" => Closed(Reached)'
  <2>1. \A item : Uses(item)' = Uses(item)
    BY <1>2, SourceKept DEF Uses
  <2> QED BY <2>1, <1>2, <1>5 DEF ReachInv, Closed
<1> QED BY <1>2, <1>7, <1>8, <1>9, <1>10, <1>11 DEF ReachInv

\* A new entry keeps the reached items right.
LEMMA EntryReach ==
  ASSUME IInv, IInv', TextInv, ReachInv, functions' = functions, globals' = globals,
         program' = program, phase' = phase, NEW item \in ItemName, HasNumber(item),
         NEW entry \in Entries, out' = Append(out, entry), entry.kind = item.kind,
         entry.n = ItemNumber(item), entry.reached = (phase = "reached"),
         leftover' = leftover
  PROVE  ReachInv'
<1>1. out \in Seq(Entries)
  BY DEF IInv, TypeOK
<1> PICK n : n = Len(out) + 1
  OBVIOUS
<1>2. /\ DOMAIN out' = DOMAIN out \cup {n} /\ out'[n] = entry
      /\ \A i \in DOMAIN out : out'[i] = out[i]
  BY <1>1
<1>3. \A a : HasNumber(a)' = HasNumber(a) /\ ItemNumber(a)' = ItemNumber(a)
  BY DEF HasNumber, ItemNumber
<1>4. Owner(n, item)' /\ \A i \in DOMAIN out : \A a : Owner(i, a)' = Owner(i, a)
  BY <1>2, <1>3 DEF Owner, IsEntryOf
<1>5. \A a \in ItemName : a \in Reached' <=> a \in Reached \/ (phase = "reached" /\ a = item)
  <2>1. \A a \in ItemName : Owner(n, a)' => a = item
    BY <1>4, UniqueNext DEF Unique
  <2>2. ASSUME NEW a \in ItemName
        PROVE  a \in Reached' <=> \E i \in DOMAIN out' : out'[i].reached /\ Owner(i, a)'
    BY DEF Reached
  <2>3. ASSUME NEW a \in ItemName
        PROVE  a \in Reached <=> \E i \in DOMAIN out : out[i].reached /\ Owner(i, a)
    BY DEF Reached
  <2>4. out'[n].reached = (phase = "reached")
    BY <1>2
  <2> SUFFICES ASSUME NEW a \in ItemName
               PROVE  a \in Reached' <=> a \in Reached \/ (phase = "reached" /\ a = item)
    OBVIOUS
  <2>5. \A i \in DOMAIN out : /\ out'[i].reached = out[i].reached
                              /\ Owner(i, a)' = Owner(i, a)
    BY ONLY <1>2, <1>4
  <2>6. (\E i \in DOMAIN out' : out'[i].reached /\ Owner(i, a)')
          <=> \/ \E i \in DOMAIN out : out[i].reached /\ Owner(i, a)
              \/ out'[n].reached /\ Owner(n, a)'
    BY ONLY <1>2, <2>5
  <2>7. Owner(n, a)' <=> a = item
    BY ONLY <1>4, <2>1, a \in ItemName
  <2> QED BY ONLY <2>2, <2>3, <2>4, <2>6, <2>7, a \in ItemName
<1>6. /\ \A S : Closed(S)' = Closed(S)
      /\ \A a : Reachable(a)' = Reachable(a)
  BY ClosedKept
<1>7. \A a : Uses(a)' = Uses(a)
  BY SourceKept DEF Uses
<1>8. \A a \in Reached' : Reachable(a)'
  <2>1. \A a \in Reached' : a \in ItemName
    BY DEF Reached
  <2> QED BY <2>1, <1>5, <1>6 DEF ReachInv
<1>9. phase # "reached" => Closed(Reached)'
  <2>1. phase # "reached" => Reached' = Reached
    BY <1>5 DEF Reached
  <2> QED BY <2>1, <1>7 DEF ReachInv, Closed
<1>10. phase = "reached" => \A i \in DOMAIN out' : out'[i].reached
  BY <1>2 DEF ReachInv
<1> QED BY <1>3, <1>6, <1>8, <1>9, <1>10 DEF ReachInv

\* A function's entry keeps the reached items right.
LEMMA EmitFunctionReach == IInv /\ TextInv /\ ReachInv /\ emit_function /\ IInv' => ReachInv'
<1> SUFFICES ASSUME IInv, TextInv, ReachInv, emit_function, IInv' PROVE ReachInv'
  OBVIOUS
<1> PICK id, e, item : /\ id = Head(function_queue)
                       /\ e = Entry("function", functions[id], ~HasFunction(id))
                       /\ item = Id("function", id)
  OBVIOUS
<1>1. /\ functions' = functions /\ globals' = globals /\ program' = program /\ phase' = phase
      /\ leftover' = leftover
      /\ function_queue \in Seq(Nat) /\ function_queue # <<>> /\ out' = Append(out, e)
  BY DEF IInv, TypeOK, emit_function
<1>2. id \in Nat /\ id \in DOMAIN functions /\ functions[id] \in Nat
  <2>1. QueueHolds(function_queue, functions, "function", out) /\ Dense(functions)
    BY DEF IInv, TypeOK
  <2>2. id \in DOMAIN functions
    BY <1>1, <2>1 DEF QueueHolds
  <2> QED BY <2>1, <2>2 DEF Dense
<1>3. item \in ItemName /\ HasNumber(item) /\ ItemNumber(item) = functions[id]
  BY <1>2 DEF Id, ItemName, HasNumber, ItemNumber
<1>4. /\ e \in Entries /\ e.kind = item.kind /\ e.n = ItemNumber(item)
      /\ e.reached = (phase = "reached")
  <2>1. e.reached = (phase = "reached")
    BY DEF Entry
  <2> QED BY <2>1, <1>2, <1>3 DEF Entry, Entries, Id
<1> QED BY <1>1, <1>3, <1>4, EntryReach

\* A global's entry keeps the reached items right.
LEMMA EmitGlobalReach == IInv /\ TextInv /\ ReachInv /\ emit_global /\ IInv' => ReachInv'
<1> SUFFICES ASSUME IInv, TextInv, ReachInv, emit_global, IInv' PROVE ReachInv'
  OBVIOUS
<1> PICK id, e, item : /\ id = Head(global_queue)
                       /\ e = Entry("global", globals[id], ~HasGlobal(id))
                       /\ item = Id("global", id)
  OBVIOUS
<1>1. /\ functions' = functions /\ globals' = globals /\ program' = program /\ phase' = phase
      /\ leftover' = leftover
      /\ global_queue \in Seq(Nat) /\ global_queue # <<>> /\ out' = Append(out, e)
  BY DEF IInv, TypeOK, emit_global
<1>2. id \in Nat /\ id \in DOMAIN globals /\ globals[id] \in Nat
  <2>1. QueueHolds(global_queue, globals, "global", out) /\ Dense(globals)
    BY DEF IInv, TypeOK
  <2>2. id \in DOMAIN globals
    BY <1>1, <2>1 DEF QueueHolds
  <2> QED BY <2>1, <2>2 DEF Dense
<1>3. item \in ItemName /\ HasNumber(item) /\ ItemNumber(item) = globals[id]
  BY <1>2 DEF Id, ItemName, HasNumber, ItemNumber
<1>4. /\ e \in Entries /\ e.kind = item.kind /\ e.n = ItemNumber(item)
      /\ e.reached = (phase = "reached")
  <2>1. e.reached = (phase = "reached")
    BY DEF Entry
  <2> QED BY <2>1, <1>2, <1>3 DEF Entry, Entries, Id
<1> QED BY <1>1, <1>3, <1>4, EntryReach

\* The steps that write nothing: what is reached stays so.
LEMMA NothingReached ==
  ASSUME IInv, IInv', TextInv, ReachInv, Extended, program' = program, out' = out,
         \/ phase' = phase /\ (phase = "reached" => /\ functions' = functions /\ globals' = globals
                                                  /\ leftover' = leftover)
         \/ phase' # "reached" /\ Closed(Reached)
  PROVE  ReachInv'
<1>1. Reached' = Reached
  BY ReachedKept
<1>2. /\ \A S : Closed(S)' = Closed(S)
      /\ \A a : Reachable(a)' = Reachable(a)
  BY ClosedKept
<1>3. HasNumber(Id("function", Main))'
  BY DEF ReachInv, HasNumber, Extended
<1>4. phase' = "reached" => /\ leftover' = <<>> /\ \A i \in DOMAIN out' : out'[i].reached
                            /\ \A item \in ItemName : HasNumber(item)' => Reachable(item)'
  <2> SUFFICES ASSUME phase' = "reached"
               PROVE  /\ leftover' = <<>> /\ \A i \in DOMAIN out' : out'[i].reached
                      /\ \A item \in ItemName : HasNumber(item)' => Reachable(item)'
    OBVIOUS
  <2>1. phase = "reached" /\ functions' = functions /\ globals' = globals
    OBVIOUS
  <2>2. \A item : HasNumber(item)' = HasNumber(item)
    BY <2>1 DEF HasNumber
  <2> QED BY <2>1, <2>2, <1>2 DEF ReachInv
<1>5. \A item \in Reached' : Reachable(item)'
  BY <1>1, <1>2 DEF ReachInv
<1>6. phase' # "reached" => Closed(Reached)'
  <2>1. \A a : Uses(a)' = Uses(a)
    BY SourceKept DEF Uses
  <2>2. phase' # "reached" => Closed(Reached)
    BY DEF ReachInv
  <2> QED BY <2>1, <2>2, <1>1 DEF Closed
<1> QED BY <1>3, <1>4, <1>5, <1>6 DEF ReachInv

\* Every step of a compilation keeps the reached items right.
LEMMA NextReach == IInv /\ TextInv /\ ReachInv /\ [Next]_vars /\ IInv' => ReachInv'
<1> SUFFICES ASSUME IInv, TextInv, ReachInv, [Next]_vars, IInv' PROVE ReachInv'
  OBVIOUS
<1>0. Extended
  BY NumbersExtend
<1>1. CASE StartUnreachable
  <2>1. phase' # "reached" /\ Closed(Reached)
    BY <1>1, DrainedCloses DEF StartUnreachable
  <2> QED BY <2>1, <1>0, <1>1, NothingReached DEF StartUnreachable
<1>2. CASE NumberLeftover
  <2>1. phase # "reached"
    BY <1>2 DEF ReachInv, NumberLeftover
  <2> QED BY <2>1, <1>0, <1>2, NothingReached DEF NumberLeftover
<1>3. CASE Finish
  <2>1. phase' # "reached" /\ Closed(Reached)
    BY <1>3, DrainedCloses DEF Finish, ReachInv
  <2> QED BY <2>1, <1>0, <1>3, NothingReached DEF Finish
<1>4. CASE UNCHANGED vars
  BY <1>0, <1>4, NothingReached DEF vars, work
<1> QED BY <1>1, <1>2, <1>3, <1>4, WriteExprReach, EmitFunctionReach, EmitGlobalReach DEF Next

\* Of a fresh program only main is reached.
LEMMA FreshReach == Fresh => ReachInv
<1> SUFFICES ASSUME Fresh PROVE ReachInv
  OBVIOUS
<1>1. /\ functions = [id \in {Main} |-> 0] /\ globals = [id \in {} |-> 0] /\ out = <<>>
      /\ leftover = <<>> /\ phase = "reached"
  BY DEF Fresh
<1>2. HasNumber(Id("function", Main))
  BY <1>1 DEF HasNumber, Id
<1>3. ASSUME NEW item \in ItemName, HasNumber(item) PROVE Reachable(item)
  <2>1. item = Id("function", Main)
    <3>1. item.kind = "function" /\ item.id = Main
      BY <1>1, <1>3 DEF HasNumber, ItemName
    <3> QED BY <3>1 DEF ItemName, Id
  <2> QED BY <2>1 DEF Reachable, Closed
<1>4. Reached = {}
  BY <1>1 DEF Reached
<1> QED BY <1>1, <1>2, <1>3, <1>4 DEF ReachInv

\* Also when it is compiled again.
LEMMA FreshReachAgain == Fresh' => ReachInv'
BY FreshReach, PTL

\* ReachInv holds throughout both compilations.
LEMMA ReachInduction == RecompileSpec => []ReachInv
<1>1. RecompileInit => ReachInv
  BY InitFresh, FreshReach DEF RecompileInit
<1>2. IInv /\ TextInv /\ ReachInv /\ [RecompileNext]_<<vars, earlier>> /\ IInv' => ReachInv'
  <2> SUFFICES ASSUME IInv, TextInv, ReachInv, [RecompileNext]_<<vars, earlier>>, IInv'
               PROVE  ReachInv'
    OBVIOUS
  <2>1. CASE Next \/ UNCHANGED <<vars, earlier>>
    <3>1. [Next]_vars
      BY <2>1
    <3> QED BY <3>1, NextReach
  <2>2. CASE CompileAgain
    BY <2>2, CompileAgainFresh, FreshReachAgain
  <2> QED BY <2>1, <2>2 DEF RecompileNext
<1> QED BY <1>1, <1>2, Induction, TextInduction, PTL DEF RecompileSpec

\* The mark stands where it should: the entries before it are those of the
\* items main reaches through what is used, and no others.
THEOREM MarkIsRight == RecompileSpec => []MarkedAsReached
<1>1. IInv /\ TextInv /\ ReachInv => MarkedAsReached
  <2> DEFINE All == {Id("function", id) : id \in DOMAIN functions}
                    \cup {Id("global", id) : id \in DOMAIN globals}
             Sets == {S \in SUBSET All : /\ Id("function", Main) \in S
                                         /\ \A item \in S : Uses(item) \subseteq S}
  <2> SUFFICES ASSUME IInv, TextInv, ReachInv, phase = "done", NEW i \in DOMAIN out
               PROVE  out[i].reached <=> \A S \in Sets : ItemOf(out[i]) \in S
    BY DEF MarkedAsReached
  <2>1. PICK item \in ItemName : Owner(i, item)
    BY DEF TextInv
  <2>2. ItemOf(out[i]) = item
    BY <2>1, ItemOfOwner
  <2>3. All \subseteq ItemName
    BY DEF IInv, TypeOK, Dense, Id, ItemName
  <2>4. \A a \in ItemName : HasNumber(a) => a \in All
    <3> SUFFICES ASSUME NEW a \in ItemName, HasNumber(a) PROVE a \in All
      OBVIOUS
    <3>1. a = Id(a.kind, a.id) /\ a.kind \in {"function", "global"}
      BY DEF ItemName, Id
    <3> QED BY <3>1 DEF HasNumber
  <2>5. ASSUME out[i].reached, NEW S \in Sets PROVE item \in S
    <3>1. item \in Reached
      BY <2>1, <2>5 DEF Reached
    <3>2. Reachable(item)
      BY <3>1 DEF ReachInv
    <3>3. S \in SUBSET ItemName /\ Closed(S)
      BY <2>3 DEF Closed
    <3> QED BY <3>2, <3>3 DEF Reachable
  <2>6. ASSUME \A S \in Sets : item \in S PROVE out[i].reached
    <3>1. Closed(Reached)
      BY DEF ReachInv
    <3>2. Reached \subseteq All
      BY <2>4 DEF Reached, Owner
    <3>3. Reached \in Sets
      BY <3>1, <3>2 DEF Closed
    <3>4. item \in Reached
      BY <3>3, <2>6
    <3>5. PICK j \in DOMAIN out : out[j].reached /\ Owner(j, item)
      BY <3>4 DEF Reached
    <3>6. i = j
      BY <2>1, <3>5 DEF IInv, Distinct, Owner, IsEntryOf
    <3> QED BY <3>5, <3>6
  <2> HIDE DEF Sets
  <2> QED BY <2>2, <2>5, <2>6
<1> QED BY <1>1, Induction, TextInduction, ReachInduction, PTL

-----------------------------------------------------------------------------
\* The numbers of all items as one function, and the items of a program in the
\* order they are numbered when nothing reaches them.
Numbers     == [item \in {x \in ItemName : HasNumber(x)} |-> ItemNumber(item)]
ItemSeq(p)  == [i \in DOMAIN p.functions |-> Id("function", p.functions[i].id)]
                 \o [i \in DOMAIN p.keys |-> Id("global", p.keys[i])]
MainId      == Id("function", Main)
Present(item) == IF item.kind = "function" THEN HasFunction(item.id) ELSE HasGlobal(item.id)

\* Number m of a kind is in the text T before token k of entry i.
Named(T, kind, m, i, k) ==
  \E j \in DOMAIN T : \E l \in DOMAIN T[j].text :
    /\ j < i \/ (j = i /\ l < k)
    /\ T[j].text[l].kind = kind /\ T[j].text[l].n = m

\* It stands for an item that is main's, or was named before, or is listed.
IsListed(p, N, kind, m) ==
  \E b \in DOMAIN ItemSeq(p) : /\ ItemSeq(p)[b] \in DOMAIN N
                               /\ ItemSeq(p)[b].kind = kind /\ N[ItemSeq(p)[b]] = m
Known(p, N, T, kind, m, i, k) ==
  \/ kind = "function" /\ m = 0
  \/ Named(T, kind, m, i, k)
  \/ ~T[i].reached /\ IsListed(p, N, kind, m)

HasEntry(T, kind, m, i) == \E j \in DOMAIN T : j < i /\ T[j].kind = kind /\ T[j].n = m

\* A number that the text has for the first time is the next one.
TokenLaw(p, N, T, i, k) ==
  T[i].text[k].kind \in {"function", "global"} =>
    \A m \in Nat : m < T[i].text[k].n => Known(p, N, T, T[i].text[k].kind, m, i, k)

\* Entries stand in the order of their numbers, functions before globals, and
\* what main reaches before what it does not.
EntryLaw(p, N, T, i) ==
  /\ Known(p, N, T, T[i].kind, T[i].n, i, 1)
  /\ \A m \in Nat : m < T[i].n => HasEntry(T, T[i].kind, m, i)
  /\ T[i].kind = "global" =>
       \A m \in Nat : Known(p, N, T, "function", m, i, 1) => HasEntry(T, "function", m, i)
  /\ T[i].reached => \A j \in DOMAIN T : j < i => T[j].reached

\* Items that are only listed have their numbers in the order of the list.
ListLaw(p, N, R) ==
  \A a \in DOMAIN ItemSeq(p) : \A v \in DOMAIN N :
    /\ ItemSeq(p)[a] \in DOMAIN N /\ ItemSeq(p)[a] \notin R
    /\ v.kind = ItemSeq(p)[a].kind /\ N[v] < N[ItemSeq(p)[a]]
    => v \in R \/ \E b \in DOMAIN ItemSeq(p) : b < a /\ ItemSeq(p)[b] = v

\* A number was given to main, to what is named, or to what is listed.
Accounted(x) ==
  \/ x = MainId
  \/ Named(out, x.kind, Numbers[x], Len(out) + 1, 1)
  \/ phase # "reached" /\ \E b \in DOMAIN Items : Items[b] = x

\* The first items of the list are numbered, the others are still to be.
Listing ==
  \E d \in Nat :
    /\ d + Len(leftover) = Len(Items)
    /\ \A j \in DOMAIN leftover : leftover[j] = Items[d + j]
    /\ \A b \in 1 .. d : Items[b] \in DOMAIN Numbers
    /\ leftover # <<>> =>
         \A v \in DOMAIN Numbers : v \in Reached \/ \E b \in 1 .. d : Items[b] = v

OrderInv ==
  /\ \A i \in DOMAIN out : /\ EntryLaw(program, Numbers, out, i)
                           /\ \A k \in DOMAIN out[i].text : TokenLaw(program, Numbers, out, i, k)
  /\ phase # "reached" => ListLaw(program, Numbers, Reached)
  /\ \A x \in DOMAIN Numbers : Accounted(x)
  /\ todo # <<>> => leftover = <<>> /\ (out[Len(out)].reached <=> phase = "reached")
  /\ \A i \in DOMAIN out : ~out[i].reached => phase # "reached" /\ leftover = <<>>
  /\ phase = "unreachable" => Listing
  /\ \A i \in DOMAIN out : \A x \in ItemName :
       Owner(i, x) => (out[i].missing <=> ~Present(x))
  /\ functions[Main] = 0

-----------------------------------------------------------------------------
\* The model's list of items is the program's.
LEMMA ItemsAre == Items = ItemSeq(program)
BY DEF Items, FunctionIds, GlobalIds, ItemSeq

\* The numbers of all items, as one function, tell items of a kind apart.
LEMMA NumbersAre ==
  ASSUME IInv
  PROVE  /\ \A x : x \in DOMAIN Numbers <=> x \in ItemName /\ HasNumber(x)
         /\ \A x \in DOMAIN Numbers : Numbers[x] = ItemNumber(x) /\ Numbers[x] \in Nat
         /\ \A x, y \in DOMAIN Numbers : x.kind = y.kind /\ Numbers[x] = Numbers[y] => x = y
<1>1. \A x : x \in DOMAIN Numbers <=> x \in ItemName /\ HasNumber(x)
  BY DEF Numbers
<1>2. \A x \in DOMAIN Numbers : Numbers[x] = ItemNumber(x)
  BY DEF Numbers
<1>3. Dense(functions) /\ Dense(globals)
  BY DEF IInv, TypeOK
<1>4. \A x \in DOMAIN Numbers : Numbers[x] \in Nat
  BY <1>1, <1>2, <1>3 DEF HasNumber, ItemNumber, ItemName, Dense
<1>5. ASSUME NEW x \in DOMAIN Numbers, NEW y \in DOMAIN Numbers,
             x.kind = y.kind, Numbers[x] = Numbers[y]
      PROVE  x = y
  <2>1. x.id = y.id
    BY <1>1, <1>2, <1>3, <1>5 DEF HasNumber, ItemNumber, ItemName, Dense
  <2> QED BY <2>1, <1>1, <1>5 DEF ItemName
<1> QED BY <1>1, <1>2, <1>4, <1>5

\* Numbers stay while numbers are only added.
LEMMA NumbersKept ==
  ASSUME Extended
  PROVE  \A x \in DOMAIN Numbers : x \in DOMAIN Numbers' /\ Numbers'[x] = Numbers[x]
<1>1. ASSUME NEW x \in ItemName, HasNumber(x)
      PROVE  HasNumber(x)' /\ ItemNumber(x)' = ItemNumber(x)
  BY <1>1 DEF Extended, HasNumber, ItemNumber, ItemName
<1>2. /\ Numbers' = [item \in {x \in ItemName : HasNumber(x)'} |-> ItemNumber(item)']
      /\ Numbers = [item \in {x \in ItemName : HasNumber(x)} |-> ItemNumber(item)]
  BY DEF Numbers
<1> QED BY <1>1, <1>2

\* Numbers have no gaps.
LEMMA NoGaps ==
  ASSUME IInv, TextInv, NEW kind \in {"function", "global"}, NEW m \in Nat,
         m < Cardinality(DOMAIN (IF kind = "function" THEN functions ELSE globals))
  PROVE  \E v \in DOMAIN Numbers : v.kind = kind /\ Numbers[v] = m
<1>1. /\ Dense(functions) /\ Dense(globals)
      /\ QueueHolds(function_queue, functions, "function", out)
      /\ QueueHolds(global_queue, globals, "global", out)
      /\ function_queue \in Seq(Nat) /\ global_queue \in Seq(Nat)
  BY DEF IInv, TypeOK
<1>2. ASSUME NEW f, NEW q \in Seq(Nat), Dense(f), QueueHolds(q, f, kind, out),
             m < Cardinality(DOMAIN f),
             \A i \in DOMAIN out : out[i].kind = kind => \E id \in DOMAIN f : f[id] = out[i].n
      PROVE  \E id \in DOMAIN f : f[id] = m
  <2>1. PICK k \in Nat :
          /\ k + Len(q) = Cardinality(DOMAIN f)
          /\ \A i \in 1 .. Len(q) : q[i] \in DOMAIN f /\ f[q[i]] = k + i - 1
          /\ \A n \in Nat : n < k => \E i \in DOMAIN out : out[i].kind = kind /\ out[i].n = n
    BY <1>2 DEF QueueHolds
  <2>2. CASE m < k
    BY <2>1, <2>2, <1>2
  <2>3. CASE ~(m < k)
    <3>1. m - k + 1 \in 1 .. Len(q) /\ k + (m - k + 1) - 1 = m
      BY <2>1, <2>3, <1>2
    <3> QED BY <3>1, <2>1
  <2> QED BY <2>2, <2>3
<1>3. ASSUME NEW i \in DOMAIN out, out[i].kind = kind
      PROVE  \E x \in ItemName : HasNumber(x) /\ x.kind = kind /\ ItemNumber(x) = out[i].n
  BY <1>3 DEF TextInv, Owner, IsEntryOf
<1>4. \E x \in ItemName : HasNumber(x) /\ x.kind = kind /\ ItemNumber(x) = m
  <2>1. CASE kind = "function"
    <3>1. \A i \in DOMAIN out : out[i].kind = kind => \E id \in DOMAIN functions : functions[id] = out[i].n
      BY <1>3, <2>1 DEF HasNumber, ItemNumber
    <3>2. PICK id \in DOMAIN functions : functions[id] = m
      BY <1>1, <1>2, <2>1, <3>1
    <3>3. Id("function", id) \in ItemName
      BY <1>1 DEF Dense, Id, ItemName
    <3> QED BY <3>2, <3>3, <2>1 DEF Id, HasNumber, ItemNumber
  <2>2. CASE kind = "global"
    <3>1. \A i \in DOMAIN out : out[i].kind = kind => \E id \in DOMAIN globals : globals[id] = out[i].n
      BY <1>3, <2>2 DEF HasNumber, ItemNumber
    <3>2. PICK id \in DOMAIN globals : globals[id] = m
      BY <1>1, <1>2, <2>2, <3>1
    <3>3. Id("global", id) \in ItemName
      BY <1>1 DEF Dense, Id, ItemName
    <3> QED BY <3>2, <3>3, <2>2 DEF Id, HasNumber, ItemNumber
  <2> QED BY <2>1, <2>2
<1> QED BY <1>4, NumbersAre

\* Meeting an item gives it the next number, unless it has one.
LEMMA MeetsItem ==
  ASSUME IInv, TextInv, NEW x \in ItemName,
         \/ x.kind = "function" /\ function_id(x.id)
         \/ x.kind = "global" /\ global_id(x.id)
  PROVE  /\ Extended
         /\ DOMAIN Numbers' = DOMAIN Numbers \cup {x}
         /\ \A v \in DOMAIN Numbers : Numbers'[v] = Numbers[v]
         /\ Numbers'[x] \in Nat
         /\ \A m \in Nat : m < Numbers'[x] => \E v \in DOMAIN Numbers : v.kind = x.kind /\ Numbers[v] = m
         /\ x \notin DOMAIN Numbers =>
              \A v \in DOMAIN Numbers : v.kind = x.kind => Numbers[v] < Numbers'[x]
<1>1. /\ Dense(functions) /\ Dense(globals) /\ x.id \in Nat /\ x.kind \in {"function", "global"}
  BY DEF IInv, TypeOK, ItemName
<1> PICK f : f = IF x.kind = "function" THEN functions ELSE globals
  OBVIOUS
<1> PICK g : g = Numbered(f, x.id)
  OBVIOUS
<1>2. /\ Dense(f) /\ DOMAIN g = DOMAIN f \cup {x.id} /\ Dense(g)
      /\ \A a \in DOMAIN f : g[a] = f[a]
      /\ x.id \notin DOMAIN f => g[x.id] = Cardinality(DOMAIN f)
  <2>1. Dense(f)
    BY <1>1
  <2> QED BY <2>1, <1>1, NumberedDense
<1>3. \/ x.kind = "function" /\ functions' = g /\ globals' = globals
      \/ x.kind = "global" /\ globals' = g /\ functions' = functions
  BY DEF function_id, global_id
<1>4. Extended
  BY <1>1, <1>2, <1>3 DEF Extended
<1>5. /\ Numbers' = [v \in {y \in ItemName : HasNumber(y)'} |-> ItemNumber(v)']
      /\ Numbers = [v \in {y \in ItemName : HasNumber(y)} |-> ItemNumber(v)]
  BY DEF Numbers
<1>6. \A v \in ItemName : HasNumber(v)' <=> HasNumber(v) \/ v = x
  <2> SUFFICES ASSUME NEW v \in ItemName PROVE HasNumber(v)' <=> HasNumber(v) \/ v = x
    OBVIOUS
  <2>1. v.kind \in {"function", "global"} /\ (v.kind = x.kind /\ v.id = x.id <=> v = x)
    BY DEF ItemName
  <2>2. CASE v.kind = x.kind
    <3>1. HasNumber(v)' <=> v.id \in DOMAIN g
      BY <1>1, <1>3, <2>1, <2>2 DEF HasNumber
    <3>2. HasNumber(v) <=> v.id \in DOMAIN f
      BY <1>1, <2>1, <2>2 DEF HasNumber
    <3> QED BY <3>1, <3>2, <2>1, <2>2, <1>2
  <2>3. CASE v.kind # x.kind
    BY <2>1, <2>3, <1>1, <1>3 DEF HasNumber
  <2> QED BY <2>2, <2>3
<1>7. DOMAIN Numbers' = DOMAIN Numbers \cup {x}
  BY <1>5, <1>6
<1>8. \A v \in DOMAIN Numbers : Numbers'[v] = Numbers[v]
  BY <1>4, NumbersKept
<1>9. Numbers'[x] = g[x.id] /\ g[x.id] \in Nat
  <2>1. Numbers'[x] = ItemNumber(x)'
    BY <1>5, <1>6
  <2>2. ItemNumber(x)' = g[x.id]
    BY <1>1, <1>3 DEF ItemNumber
  <2> QED BY <2>1, <2>2, <1>2 DEF Dense
<1>10. Cardinality(DOMAIN f) \in Nat
  BY <1>2, FS_CardinalityType DEF Dense
<1>11. \A v \in DOMAIN Numbers : v.kind = x.kind => v.id \in DOMAIN f /\ Numbers[v] = f[v.id]
  BY NumbersAre, <1>1 DEF HasNumber, ItemNumber
<1>12. g[x.id] <= Cardinality(DOMAIN f)
  BY <1>2, <1>9, <1>10 DEF Dense
<1>13. ASSUME NEW m \in Nat, m < Numbers'[x]
       PROVE  \E v \in DOMAIN Numbers : v.kind = x.kind /\ Numbers[v] = m
  <2>1. m < Cardinality(DOMAIN f)
    BY <1>9, <1>10, <1>12, <1>13
  <2>2. m < Cardinality(DOMAIN (IF x.kind = "function" THEN functions ELSE globals))
    BY <2>1
  <2> QED BY <2>2, <1>1, NoGaps
<1>14. ASSUME x \notin DOMAIN Numbers, NEW v \in DOMAIN Numbers, v.kind = x.kind
       PROVE  Numbers[v] < Numbers'[x]
  <2>1. x.id \notin DOMAIN f
    BY <1>14, <1>1, NumbersAre DEF HasNumber
  <2>2. f[v.id] < Cardinality(DOMAIN f)
    BY <1>2, <1>11, <1>14 DEF Dense
  <2> QED BY <2>1, <2>2, <1>2, <1>9, <1>11, <1>14
<1> QED BY <1>4, <1>7, <1>8, <1>9, <1>13, <1>14

\* Numbers are those of functions and globals.
LEMMA NumbersSame ==
  ASSUME functions' = functions, globals' = globals
  PROVE  Numbers' = Numbers
BY DEF Numbers, HasNumber, ItemNumber

\* What is in the text stands for an item that is numbered.
LEMMA NamedNumbered ==
  ASSUME IInv, TextInv, NEW kind \in {"function", "global"}, NEW j \in DOMAIN out,
         NEW l \in DOMAIN out[j].text, out[j].text[l].kind = kind
  PROVE  \E x \in DOMAIN Numbers :
           /\ x.kind = kind /\ Numbers[x] = out[j].text[l].n
           /\ \E a \in ItemName : Owner(j, a) /\ x \in Uses(a)
<1>1. PICK a \in ItemName : Owner(j, a) /\ TextOf(j, a)
  BY DEF TextInv
<1>2. PICK pre \in Seq(Expr) :
        /\ Source(a) = pre \o Preorders(Rest(j))
        /\ out[j].text = [k \in DOMAIN pre |-> Reads(Source(a), k)]
        /\ \A k \in DOMAIN pre : Met(pre[k].name)
  BY <1>1 DEF TextOf
<1>3. Preorders(Rest(j)) \in Seq(Expr)
  <2>1. Rest(j) \in Seq(Expr)
    BY DEF IInv, TypeOK, Rest
  <2> QED BY <2>1, PreorderTree
<1> PICK s : s = Source(a)
  OBVIOUS
<1>4. l \in DOMAIN pre /\ l \in DOMAIN s /\ s[l] = pre[l] /\ s[l] \in Expr
  <2>1. l \in DOMAIN pre
    BY <1>2
  <2>2. s \in Seq(Expr) /\ \A k \in DOMAIN pre : k \in DOMAIN s /\ s[k] = pre[k]
    BY <1>2, <1>3, PreAt
  <2> QED BY <2>1, <2>2
<1>5. out[j].text[l] = Reads(s, l)
  BY <1>2, <1>4
<1> PICK x : x = s[l].name
  OBVIOUS
<1>6. x.kind = kind /\ out[j].text[l].n = ItemNumber(x)
  <2>1. x.kind = kind
    BY <1>5 DEF Reads
  <2> QED BY <1>5, <2>1 DEF Reads
<1>7. x \in ItemName
  <2>1. x \in Name
    BY <1>4, ExprAssumption
  <2> QED BY <2>1, <1>6 DEF Name, ItemName
<1>8. HasNumber(x)
  BY <1>2, <1>4, <1>6 DEF Met
<1>9. x \in Uses(a)
  BY <1>4, <1>6 DEF Uses, Range
<1> QED BY <1>1, <1>6, <1>7, <1>8, <1>9, NumbersAre

\* A later text of the same program: only the last entry may have more tokens.
Grown(N, T, N2, T2) ==
  /\ \A j \in DOMAIN T :
       /\ j \in DOMAIN T2
       /\ T2[j].kind = T[j].kind /\ T2[j].n = T[j].n /\ T2[j].reached = T[j].reached
       /\ \A l \in DOMAIN T[j].text : l \in DOMAIN T2[j].text /\ T2[j].text[l] = T[j].text[l]
       /\ j # Len(T) => T2[j].text = T[j].text
  /\ \A j \in DOMAIN T2 : j \in DOMAIN T \/ Len(T) < j
  /\ \A x \in DOMAIN N : x \in DOMAIN N2 /\ N2[x] = N[x]

\* What was known is known in a later text.
LEMMA KnownGrows ==
  ASSUME NEW p, NEW N, NEW T, NEW N2, NEW T2, Grown(N, T, N2, T2), NEW kind, NEW m,
         NEW i \in DOMAIN T, NEW k, Known(p, N, T, kind, m, i, k)
  PROVE  Known(p, N2, T2, kind, m, i, k)
<1>1. CASE kind = "function" /\ m = 0
  BY <1>1 DEF Known
<1>2. CASE Named(T, kind, m, i, k)
  <2>1. Named(T2, kind, m, i, k)
    BY <1>2 DEF Named, Grown
  <2> QED BY <2>1 DEF Known
<1>3. CASE ~T[i].reached /\ IsListed(p, N, kind, m)
  <2>1. ~T2[i].reached
    BY <1>3 DEF Grown
  <2>2. IsListed(p, N2, kind, m)
    BY <1>3 DEF Grown, IsListed
  <2> QED BY <2>1, <2>2 DEF Known
<1> QED BY <1>1, <1>2, <1>3 DEF Known

\* The law of entries holds in a later text.
LEMMA EntryLawKept ==
  ASSUME NEW p, NEW N, NEW T \in Seq(Entries), NEW N2, NEW T2 \in Seq(Entries), Grown(N, T, N2, T2),
         NEW i \in DOMAIN T, EntryLaw(p, N, T, i),
         ~T[i].reached => \A b \in DOMAIN ItemSeq(p) : ItemSeq(p)[b] \in DOMAIN N
  PROVE  EntryLaw(p, N2, T2, i)
<1>1. DOMAIN T = 1 .. Len(T) /\ Len(T) \in Nat /\ \A j \in DOMAIN T2 : j \in Nat
  OBVIOUS
<1>2. T2[i].kind = T[i].kind /\ T2[i].n = T[i].n /\ T2[i].reached = T[i].reached
  BY DEF Grown
<1>3. \A j \in DOMAIN T2 : j < i => j \in DOMAIN T /\ j # Len(T)
  <2> SUFFICES ASSUME NEW j \in DOMAIN T2, j < i PROVE j \in DOMAIN T /\ j # Len(T)
    OBVIOUS
  <2>1. j \in Nat /\ ~(Len(T) < j)
    BY <1>1
  <2>2. j \in DOMAIN T
    BY <2>1 DEF Grown
  <2> QED BY <1>1, <2>2
<1>4. Known(p, N2, T2, T[i].kind, T[i].n, i, 1)
  BY KnownGrows DEF EntryLaw
<1>5. \A kind, m : HasEntry(T, kind, m, i) => HasEntry(T2, kind, m, i)
  BY DEF HasEntry, Grown
<1>6. \A m : Known(p, N2, T2, "function", m, i, 1) => Known(p, N, T, "function", m, i, 1)
  <2> SUFFICES ASSUME NEW m, Known(p, N2, T2, "function", m, i, 1)
               PROVE  Known(p, N, T, "function", m, i, 1)
    OBVIOUS
  <2>1. CASE m = 0
    BY <2>1 DEF Known
  <2>2. CASE Named(T2, "function", m, i, 1)
    <3>0. PICK j \in DOMAIN T2 : \E l \in DOMAIN T2[j].text :
            /\ j < i \/ (j = i /\ l < 1)
            /\ T2[j].text[l].kind = "function" /\ T2[j].text[l].n = m
      BY <2>2 DEF Named
    <3>1. PICK l \in DOMAIN T2[j].text :
            /\ j < i \/ (j = i /\ l < 1)
            /\ T2[j].text[l].kind = "function" /\ T2[j].text[l].n = m
      BY <3>0
    <3>2. ~(l < 1)
      <4>1. T2[j] \in Entries
        BY <3>0
      <4>2. T2[j].text \in Seq(Tokens)
        BY <4>1 DEF Entries
      <4> QED BY <3>1, <4>2
    <3>3. j \in DOMAIN T /\ T2[j].text = T[j].text
      BY <3>1, <3>2, <1>3 DEF Grown
    <3>4. Named(T, "function", m, i, 1)
      BY <3>1, <3>3 DEF Named
    <3> QED BY <3>4 DEF Known
  <2>3. CASE ~T2[i].reached /\ IsListed(p, N2, "function", m)
    <3>1. IsListed(p, N, "function", m)
      BY <2>3, <1>2 DEF IsListed, Grown
    <3> QED BY <3>1, <2>3, <1>2 DEF Known
  <2> QED BY <2>1, <2>2, <2>3 DEF Known
<1>7. T2[i].reached => \A j \in DOMAIN T2 : j < i => T2[j].reached
  BY <1>2, <1>3 DEF EntryLaw, Grown
<1> QED BY <1>2, <1>4, <1>5, <1>6, <1>7 DEF EntryLaw

\* The law of tokens holds in a later text.
LEMMA TokenLawKept ==
  ASSUME NEW p, NEW N, NEW T, NEW N2, NEW T2, Grown(N, T, N2, T2),
         NEW i \in DOMAIN T, NEW k \in DOMAIN T[i].text, TokenLaw(p, N, T, i, k)
  PROVE  TokenLaw(p, N2, T2, i, k)
<1>1. T2[i].text[k] = T[i].text[k]
  BY DEF Grown
<1>2. \A kind, m : Known(p, N, T, kind, m, i, k) => Known(p, N2, T2, kind, m, i, k)
  BY KnownGrows
<1> QED BY <1>1, <1>2 DEF TokenLaw

\* What is accounted for stays so.
LEMMA AccountedKept ==
  ASSUME IInv, Extended, Grown(Numbers, out, Numbers', out'), out \in Seq(Entries),
         out' \in Seq(Entries), Len(out) <= Len(out'), program' = program,
         phase # "reached" => phase' # "reached",
         NEW x \in DOMAIN Numbers, Accounted(x)
  PROVE  Accounted(x)'
<1>1. Items' = Items
  BY DEF Items, FunctionIds, GlobalIds
<1>2. Numbers'[x] = Numbers[x]
  BY NumbersKept
<1>3. CASE x = MainId
  BY <1>3 DEF Accounted, MainId
<1>4. CASE Named(out, x.kind, Numbers[x], Len(out) + 1, 1)
  <2>0. PICK j \in DOMAIN out : \E l \in DOMAIN out[j].text :
          out[j].text[l].kind = x.kind /\ out[j].text[l].n = Numbers[x]
    BY <1>4 DEF Named
  <2>1. PICK l \in DOMAIN out[j].text :
          out[j].text[l].kind = x.kind /\ out[j].text[l].n = Numbers[x]
    BY <2>0
  <2>2. j \in DOMAIN out' /\ l \in DOMAIN out'[j].text /\ out'[j].text[l] = out[j].text[l]
    BY DEF Grown
  <2>3. j < Len(out') + 1
    BY <2>2
  <2>4. Named(out', x.kind, Numbers'[x], Len(out') + 1, 1)
    BY <2>1, <2>2, <2>3, <1>2 DEF Named
  <2> QED BY <2>4 DEF Accounted
<1>5. CASE phase # "reached" /\ \E b \in DOMAIN Items : Items[b] = x
  BY <1>1, <1>5 DEF Accounted
<1> QED BY <1>3, <1>4, <1>5 DEF Accounted

\* Past the mark, everything listed is numbered once an unreached entry is
\* written.
LEMMA AllListed ==
  ASSUME IInv, OrderInv, NEW i \in DOMAIN out, ~out[i].reached
  PROVE  \A b \in DOMAIN ItemSeq(program) : ItemSeq(program)[b] \in DOMAIN Numbers
<1>1. phase # "reached" /\ leftover = <<>>
  BY DEF OrderInv
<1>2. \A b \in DOMAIN Items : HasNumber(Items[b]) /\ Items[b] \in ItemName
  <2>1. Items \in Seq(ItemName)
    BY ProgramTypes DEF IInv, TypeOK
  <2>2. \A b \in DOMAIN Items : HasNumber(Items[b])
    BY <1>1 DEF IInv, Listed
  <2> QED BY <2>1, <2>2
<1> QED BY <1>2, NumbersAre, ItemsAre

\* What the laws say of the entries there are stays true.
LEMMA LawsKept ==
  ASSUME IInv, IInv', TextInv, ReachInv, OrderInv, Extended, program' = program,
         Grown(Numbers, out, Numbers', out'), Len(out) <= Len(out'),
         phase # "reached" => phase' # "reached"
  PROVE  /\ \A i \in DOMAIN out :
              /\ EntryLaw(program, Numbers', out', i)
              /\ \A k \in DOMAIN out[i].text : TokenLaw(program, Numbers', out', i, k)
         /\ \A x \in DOMAIN Numbers : Accounted(x)'
         /\ \A i \in DOMAIN out : \A x \in ItemName :
              Owner(i, x)' => Owner(i, x) /\ (out[i].missing <=> ~Present(x)')
         /\ functions'[Main] = 0
<1>1. out \in Seq(Entries) /\ out' \in Seq(Entries)
  BY DEF IInv, TypeOK
<1> PICK p, N, T : p = program /\ N = Numbers /\ T = out
  OBVIOUS
<1> PICK N2, T2 : N2 = Numbers' /\ T2 = out'
  OBVIOUS
<1>2. Grown(N, T, N2, T2) /\ T \in Seq(Entries) /\ T2 \in Seq(Entries)
  BY <1>1
<1>3. ASSUME NEW i \in DOMAIN out
      PROVE  /\ EntryLaw(p, N2, T2, i)
             /\ \A k \in DOMAIN out[i].text : TokenLaw(p, N2, T2, i, k)
  <2>1. i \in DOMAIN T /\ EntryLaw(p, N, T, i)
    BY DEF OrderInv
  <2>2. ~T[i].reached => \A b \in DOMAIN ItemSeq(p) : ItemSeq(p)[b] \in DOMAIN N
    BY AllListed
  <2>3. EntryLaw(p, N2, T2, i)
    BY <1>2, <2>1, <2>2, EntryLawKept
  <2>4. ASSUME NEW k \in DOMAIN T[i].text
        PROVE  TokenLaw(p, N2, T2, i, k)
    <3>1. TokenLaw(p, N, T, i, k)
      BY DEF OrderInv
    <3> QED BY <1>2, <2>1, <3>1, TokenLawKept
  <2> QED BY <2>3, <2>4
<1>4. \A x \in DOMAIN Numbers : Accounted(x)'
  BY <1>1, AccountedKept DEF OrderInv
<1>5. ASSUME NEW i \in DOMAIN out, NEW x \in ItemName, Owner(i, x)'
      PROVE  Owner(i, x) /\ (out[i].missing <=> ~Present(x)')
  <2>1. PICK a \in ItemName : Owner(i, a)
    BY DEF TextInv
  <2>2. out'[i].kind = out[i].kind /\ out'[i].n = out[i].n
    BY DEF Grown
  <2>3. Owner(i, a)'
    BY <2>1, <2>2, OwnerKept
  <2>4. a = x
    BY <2>3, <1>5, UniqueNext DEF Unique
  <2>5. Present(x)' <=> Present(x)
    BY DEF Present, HasFunction, HasGlobal
  <2> QED BY <2>1, <2>4, <2>5 DEF OrderInv
<1>6. functions'[Main] = 0
  <2>1. Main \in DOMAIN functions
    BY DEF ReachInv, HasNumber, Id
  <2> QED BY <2>1 DEF OrderInv, Extended
<1> QED BY <1>3, <1>4, <1>5, <1>6

\* The number t.n of the name in e is its own or the next free one.
NumberMet(e, t) ==
  /\ e.name \in ItemName
  /\ DOMAIN Numbers' = DOMAIN Numbers \cup {e.name}
  /\ Numbers'[e.name] = t.n /\ t.n \in Nat
  /\ \A m \in Nat : m < t.n => \E v \in DOMAIN Numbers : v.kind = t.kind /\ Numbers[v] = m
  /\ e.name \notin DOMAIN Numbers =>
       \A v \in DOMAIN Numbers : v.kind = e.name.kind => Numbers[v] < t.n

\* What an expression names is numbered when it is written.
LEMMA MeetsName ==
  ASSUME IInv, TextInv, WriteExpr, NEW e \in Expr, e = Head(todo), NEW t, t = Token(e)
  PROVE  /\ e.name.kind \in {"function", "global"} => NumberMet(e, t)
         /\ e.name.kind \notin {"function", "global"} => Numbers' = Numbers
<1>1. e.name \in Name /\ definition(e.name)
  BY NextExpr DEF WriteExpr
<1>2. t.kind = e.name.kind /\ t.n = NumberOf(e.name)
  BY DEF Token
<1>3. e.name.kind \in {"function", "global"} => NumberOf(e.name) = ItemNumber(e.name)'
  BY <1>1, MeetingExtends
<1>4. ASSUME e.name.kind \in {"function", "global"}
      PROVE  NumberMet(e, t)
  <2>1. e.name \in ItemName
    BY <1>1, <1>4 DEF Name, ItemName
  <2>2. PICK x \in ItemName : x = e.name
    BY <2>1
  <2>3. \/ x.kind = "function" /\ function_id(x.id)
        \/ x.kind = "global" /\ global_id(x.id)
    BY <1>1, <1>4, <2>2 DEF definition
  <2>4. /\ DOMAIN Numbers' = DOMAIN Numbers \cup {x} /\ Numbers'[x] \in Nat
        /\ \A m \in Nat : m < Numbers'[x] => \E v \in DOMAIN Numbers : v.kind = x.kind /\ Numbers[v] = m
        /\ x \notin DOMAIN Numbers =>
             \A v \in DOMAIN Numbers : v.kind = x.kind => Numbers[v] < Numbers'[x]
    BY <2>3, MeetsItem
  <2>5. Numbers'[x] = ItemNumber(x)'
    <3>1. x \in DOMAIN Numbers'
      BY <2>4
    <3>2. Numbers' = [item \in {y \in ItemName : HasNumber(y)'} |-> ItemNumber(item)']
      BY DEF Numbers
    <3> QED BY <3>1, <3>2
  <2>6. ItemNumber(x)' = ItemNumber(e.name)'
    BY <2>2 DEF ItemNumber
  <2>7. e.name = x /\ t.kind = x.kind /\ t.n = Numbers'[x]
    BY <1>2, <1>3, <1>4, <2>2, <2>5, <2>6
  <2> QED BY ONLY <2>1, <2>4, <2>7 DEF NumberMet
<1>5. ASSUME e.name.kind \notin {"function", "global"}
      PROVE  Numbers' = Numbers
  <2>1. functions' = functions /\ globals' = globals
    BY <1>1, <1>5 DEF definition
  <2> QED BY <2>1, NumbersSame
<1> QED BY <1>4, <1>5

\* Writing an expression keeps the order.
LEMMA WriteExprOrder ==
  ASSUME IInv, IInv', TextInv, ReachInv, OrderInv, WriteExpr
  PROVE  OrderInv'
<1>1. PICK e \in Expr : e = Head(todo) /\ e.name \in Name
  BY NextExpr
<1>2. /\ todo # <<>> /\ definition(e.name) /\ out' = Written(Token(e))
      /\ program' = program /\ leftover' = leftover /\ phase' = phase
  BY <1>1 DEF WriteExpr
<1>3. PICK t : t = Token(e)
  OBVIOUS
<1>4. out # <<>> /\ out \in Seq(Entries) /\ out' \in Seq(Entries)
  BY <1>2 DEF TextInv, IInv, TypeOK
<1>5. /\ Len(out') = Len(out) /\ DOMAIN out' = DOMAIN out /\ Len(out) \in DOMAIN out
      /\ \A i \in DOMAIN out : i # Len(out) => out'[i] = out[i]
      /\ \A i \in DOMAIN out : /\ out'[i].kind = out[i].kind /\ out'[i].n = out[i].n
                               /\ out'[i].missing = out[i].missing
                               /\ out'[i].reached = out[i].reached
      /\ out'[Len(out)].text = Append(out[Len(out)].text, t)
  BY <1>2, <1>3, <1>4, WrittenText
<1>6. /\ Extended
      /\ e.name.kind \in {"function", "global"} => NumberOf(e.name) = ItemNumber(e.name)'
      /\ \A item \in ItemName : HasNumber(item)' => HasNumber(item) \/ item = e.name
  BY <1>1, <1>2, MeetingExtends
<1> PICK n, T, T2, N, N2, p : /\ n = Len(out) /\ T = out /\ T2 = out' /\ N = Numbers
                              /\ N2 = Numbers' /\ p = program
  OBVIOUS
<1>7. n \in DOMAIN T /\ T \in Seq(Entries) /\ n = Len(T) /\ DOMAIN T = 1 .. n
  BY <1>4, <1>5
<1>8. PICK W \in Seq(Tokens) : W = T[n].text
  <2>1. T[n] \in Entries
    BY <1>7
  <2> QED BY <2>1 DEF Entries
<1>9. /\ T2[n].text = Append(W, t)
      /\ \A l \in DOMAIN W : l \in DOMAIN T2[n].text /\ T2[n].text[l] = W[l]
      /\ DOMAIN T2[n].text = DOMAIN W \cup {Len(W) + 1} /\ T2[n].text[Len(W) + 1] = t
  BY <1>5, <1>8
<1>10. Grown(N, T, N2, T2)
  <2>1. \A x \in DOMAIN N : x \in DOMAIN N2 /\ N2[x] = N[x]
    BY <1>6, NumbersKept
  <2> QED BY <1>5, <1>7, <1>8, <1>9, <2>1 DEF Grown
<1>11. /\ \A i \in DOMAIN out :
            /\ EntryLaw(program, Numbers', out', i)
            /\ \A k \in DOMAIN out[i].text : TokenLaw(program, Numbers', out', i, k)
       /\ \A x \in DOMAIN Numbers : Accounted(x)'
       /\ \A i \in DOMAIN out : \A x \in ItemName :
            Owner(i, x)' => Owner(i, x) /\ (out[i].missing <=> ~Present(x)')
       /\ functions'[Main] = 0
  <2>1. Len(out) <= Len(out')
    BY <1>5, <1>7
  <2> QED BY <1>2, <1>6, <1>10, <2>1, LawsKept
<1>12. t.kind = e.name.kind /\ t.n = NumberOf(e.name)
  BY <1>3 DEF Token
<1>13. e.name.kind \in {"function", "global"} =>
         /\ e.name \in ItemName
         /\ DOMAIN N2 = DOMAIN N \cup {e.name} /\ N2[e.name] = t.n /\ t.n \in Nat
         /\ \A m \in Nat : m < t.n => \E v \in DOMAIN N : v.kind = t.kind /\ N[v] = m
         /\ e.name \notin DOMAIN N => \A v \in DOMAIN N : v.kind = e.name.kind => N[v] < t.n
  <2>1. e.name.kind \in {"function", "global"} => NumberMet(e, t)
    BY <1>1, <1>3, MeetsName
  <2> QED BY <2>1 DEF NumberMet
<1>14. e.name.kind \notin {"function", "global"} => N2 = N
  BY <1>1, MeetsName
<1>15. TokenLaw(p, N2, T2, n, Len(W) + 1)
  <2> SUFFICES ASSUME t.kind \in {"function", "global"}, NEW m \in Nat, m < t.n
               PROVE  Known(p, N2, T2, t.kind, m, n, Len(W) + 1)
    BY <1>9 DEF TokenLaw
  <2>1. PICK v \in DOMAIN N : v.kind = t.kind /\ N[v] = m
    BY <1>12, <1>13
  <2>2. Accounted(v)
    BY <2>1 DEF OrderInv
  <2>3. CASE v = MainId
    <3>1. N[v] = functions[Main] /\ v.kind = "function"
      BY <2>1, <2>3, NumbersAre DEF MainId, Id, ItemNumber
    <3> QED BY <2>1, <3>1 DEF OrderInv, Known
  <2>4. CASE Named(T, v.kind, N[v], n + 1, 1)
    <3>1. PICK j \in DOMAIN T : \E l \in DOMAIN T[j].text :
            T[j].text[l].kind = v.kind /\ T[j].text[l].n = N[v]
      BY <2>4 DEF Named
    <3>2. PICK l \in DOMAIN T[j].text : T[j].text[l].kind = v.kind /\ T[j].text[l].n = N[v]
      BY <3>1
    <3>3. j \in DOMAIN T2 /\ l \in DOMAIN T2[j].text /\ T2[j].text[l] = T[j].text[l]
      BY <1>10 DEF Grown
    <3>4. j < n \/ (j = n /\ l < Len(W) + 1)
      <4>1. j \in 1 .. n /\ n \in Nat
        BY <1>7
      <4>2. j = n => l \in 1 .. Len(W)
        BY <1>8
      <4> QED BY <4>1, <4>2
    <3>5. Named(T2, t.kind, m, n, Len(W) + 1)
      BY <2>1, <3>2, <3>3, <3>4 DEF Named
    <3> QED BY <3>5 DEF Known
  <2>5. CASE phase # "reached" /\ \E b \in DOMAIN Items : Items[b] = v
    <3>1. ~T2[n].reached
      BY <1>2, <1>5, <1>7, <2>5 DEF OrderInv
    <3>2. IsListed(p, N2, t.kind, m)
      BY <2>1, <2>5, <1>10, ItemsAre DEF IsListed, Grown
    <3> QED BY <3>1, <3>2 DEF Known
  <2> QED BY <2>2, <2>3, <2>4, <2>5 DEF Accounted
<1>16. \A i \in DOMAIN out' :
         /\ EntryLaw(program', Numbers', out', i)
         /\ \A k \in DOMAIN out'[i].text : TokenLaw(program', Numbers', out', i, k)
  <2> SUFFICES ASSUME NEW i \in DOMAIN T, NEW k \in DOMAIN T2[i].text
               PROVE  TokenLaw(p, N2, T2, i, k)
    BY <1>2, <1>5, <1>11
  <2>1. CASE k \in DOMAIN T[i].text
    BY <2>1, <1>11
  <2>2. CASE k \notin DOMAIN T[i].text
    <3>1. i = n
      BY <2>2, <1>5
    <3>2. k = Len(W) + 1
      BY <2>2, <3>1, <1>8, <1>9
    <3> QED BY <3>1, <3>2, <1>15
  <2> QED BY <2>1, <2>2
<1>17. Reached' = Reached
  BY <1>5, <1>6, ReachedKept
<1>18. phase' # "reached" => ListLaw(program', Numbers', Reached')
  <2> SUFFICES ASSUME phase # "reached", NEW a \in DOMAIN ItemSeq(p), NEW v \in DOMAIN N2,
                      ItemSeq(p)[a] \in DOMAIN N2, ItemSeq(p)[a] \notin Reached,
                      v.kind = ItemSeq(p)[a].kind, N2[v] < N2[ItemSeq(p)[a]]
               PROVE  v \in Reached \/ \E b \in DOMAIN ItemSeq(p) : b < a /\ ItemSeq(p)[b] = v
    BY <1>2, <1>17 DEF ListLaw
  <2>1. ItemSeq(p)[a] \in DOMAIN N
    <3>1. ~out[Len(out)].reached
      BY <1>2 DEF OrderInv
    <3> QED BY <3>1, <1>5, AllListed
  <2>2. v \in DOMAIN N
    <3> SUFFICES ASSUME v \notin DOMAIN N PROVE FALSE
      OBVIOUS
    <3>1. e.name.kind \in {"function", "global"} /\ v = e.name
      BY <1>13, <1>14
    <3>2. N[ItemSeq(p)[a]] < t.n /\ N2[v] = t.n /\ t.n \in Nat
      BY <3>1, <1>13, <2>1
    <3>3. N2[ItemSeq(p)[a]] = N[ItemSeq(p)[a]] /\ N[ItemSeq(p)[a]] \in Nat
      BY <2>1, <1>10, NumbersAre DEF Grown
    <3> QED BY <3>2, <3>3
  <2>3. N[v] < N[ItemSeq(p)[a]]
    BY <2>1, <2>2, <1>10 DEF Grown
  <2>4. ListLaw(p, N, Reached)
    BY DEF OrderInv
  <2> QED BY <2>1, <2>2, <2>3, <2>4 DEF ListLaw
<1>19. \A x \in DOMAIN Numbers' : Accounted(x)'
  <2> SUFFICES ASSUME NEW x \in DOMAIN N2, x \notin DOMAIN N PROVE Accounted(x)'
    BY <1>11
  <2>1. e.name.kind \in {"function", "global"} /\ x = e.name /\ N2[x] = t.n
    BY <1>13, <1>14
  <2>2. Named(T2, x.kind, N2[x], n + 1, 1)
    BY <2>1, <1>5, <1>7, <1>9, <1>12 DEF Named
  <2> QED BY <2>2, <1>5 DEF Accounted
<1>20. Items' = Items
  BY <1>2 DEF Items, FunctionIds, GlobalIds
<1>21. phase' = "unreachable" => Listing'
  <2> SUFFICES ASSUME phase = "unreachable" PROVE Listing'
    BY <1>2
  <2>1. Listing /\ leftover = <<>>
    BY <1>2 DEF OrderInv
  <2>2. PICK d \in Nat : /\ d + Len(leftover) = Len(Items)
                         /\ \A j \in DOMAIN leftover : leftover[j] = Items[d + j]
                         /\ \A b \in 1 .. d : Items[b] \in DOMAIN Numbers
    BY <2>1 DEF Listing
  <2>3. \A b \in 1 .. d : Items[b] \in DOMAIN Numbers'
    BY <2>2, <1>10 DEF Grown
  <2> QED BY <1>2, <1>20, <2>1, <2>2, <2>3 DEF Listing
<1>22. \A i \in DOMAIN out' : \A x \in ItemName : Owner(i, x)' => (out'[i].missing <=> ~Present(x)')
  BY <1>5, <1>11
<1>23. todo' # <<>> => leftover' = <<>> /\ (out'[Len(out')].reached <=> phase' = "reached")
  BY <1>2, <1>5 DEF OrderInv
<1>24. \A i \in DOMAIN out' : ~out'[i].reached => phase' # "reached" /\ leftover' = <<>>
  BY <1>2, <1>5 DEF OrderInv
<1> QED BY <1>11, <1>16, <1>18, <1>19, <1>21, <1>22, <1>23, <1>24 DEF OrderInv

\* When no function waits, each numbered function has its entry.
LEMMA FunctionsWritten ==
  ASSUME IInv, function_queue = <<>>, NEW x \in DOMAIN Numbers, x.kind = "function"
  PROVE  \E i \in DOMAIN out : out[i].kind = "function" /\ out[i].n = Numbers[x]
<1>1. Dense(functions) /\ QueueHolds(function_queue, functions, "function", out)
  BY DEF IInv, TypeOK
<1>2. x.id \in DOMAIN functions /\ Numbers[x] = functions[x.id]
  BY NumbersAre DEF HasNumber, ItemNumber
<1>3. PICK n \in Nat :
        /\ n + Len(function_queue) = Cardinality(DOMAIN functions)
        /\ \A m \in Nat : m < n => \E i \in DOMAIN out : out[i].kind = "function" /\ out[i].n = m
  BY <1>1 DEF QueueHolds
<1>4. functions[x.id] \in Nat /\ functions[x.id] < Cardinality(DOMAIN functions)
  BY <1>1, <1>2 DEF Dense
<1>5. n = Cardinality(DOMAIN functions)
  BY <1>3
<1> QED BY <1>2, <1>3, <1>4, <1>5

\* An item's entry follows the entries of the items of its kind before it.
LEMMA EntryOrder ==
  ASSUME IInv, IInv', TextInv, ReachInv, OrderInv, leftover = <<>>, leftover' = leftover,
         functions' = functions, globals' = globals, program' = program, phase' = phase,
         NEW item \in ItemName, HasNumber(item), NEW entry \in Entries, out' = Append(out, entry),
         entry.kind = item.kind, entry.n = ItemNumber(item), entry.reached = (phase = "reached"),
         entry.text = <<>>, entry.missing <=> ~Present(item),
         \A m \in Nat : m < entry.n => \E j \in DOMAIN out : out[j].kind = entry.kind /\ out[j].n = m,
         entry.kind = "global" => function_queue = <<>>
  PROVE  OrderInv'
<1> PICK n, T, T2, N, p : /\ n = Len(out) + 1 /\ T = out /\ T2 = out' /\ N = Numbers /\ p = program
  OBVIOUS
<1>1. /\ T \in Seq(Entries) /\ T2 \in Seq(Entries) /\ T2 = Append(T, entry) /\ n \in Nat /\ n = Len(T) + 1
  BY DEF IInv, TypeOK
<1>2. /\ DOMAIN T2 = DOMAIN T \cup {n} /\ T2[n] = entry /\ Len(T2) = n
      /\ \A j \in DOMAIN T : T2[j] = T[j] /\ j < n /\ j \in Nat
  BY <1>1
<1>3. Numbers' = Numbers
  BY NumbersSame
<1>4. Grown(Numbers, out, Numbers', out')
  BY <1>1, <1>2, <1>3 DEF Grown
<1>5. Extended
  BY DEF Extended
<1>6. /\ \A i \in DOMAIN out :
            /\ EntryLaw(program, Numbers', out', i)
            /\ \A k \in DOMAIN out[i].text : TokenLaw(program, Numbers', out', i, k)
      /\ \A x \in DOMAIN Numbers : Accounted(x)'
      /\ \A i \in DOMAIN out : \A x \in ItemName :
           Owner(i, x)' => Owner(i, x) /\ (out[i].missing <=> ~Present(x)')
      /\ functions'[Main] = 0
  <2>1. Len(out) <= Len(out')
    BY <1>1, <1>2
  <2> QED BY <1>4, <1>5, <2>1, LawsKept
<1>7. item \in DOMAIN N /\ N[item] = entry.n
  BY NumbersAre
<1>8. entry.reached <=> phase = "reached"
  BY DEF Entries
<1>9. Known(p, N, T2, entry.kind, entry.n, n, 1)
  <2>1. Accounted(item)
    BY <1>7 DEF OrderInv
  <2>2. CASE item = MainId
    <3>1. entry.n = functions[Main]
      BY <2>2 DEF MainId, Id, ItemNumber
    <3> QED BY <2>2, <3>1 DEF OrderInv, Known, MainId, Id
  <2>3. CASE Named(T, item.kind, N[item], n, 1)
    <3>1. PICK j \in DOMAIN T : \E l \in DOMAIN T[j].text :
            T[j].text[l].kind = entry.kind /\ T[j].text[l].n = entry.n
      BY <2>3, <1>7 DEF Named
    <3>2. Named(T2, entry.kind, entry.n, n, 1)
      BY <3>1, <1>2 DEF Named
    <3> QED BY <3>2 DEF Known
  <2>4. CASE phase # "reached" /\ \E b \in DOMAIN Items : Items[b] = item
    <3>1. IsListed(p, N, entry.kind, entry.n)
      BY <1>7, <2>4, ItemsAre DEF IsListed
    <3> QED BY <2>4, <3>1, <1>2, <1>8 DEF Known
  <2> QED BY <2>1, <2>2, <2>3, <2>4 DEF Accounted
<1>10. \A m \in Nat : m < entry.n => HasEntry(T2, entry.kind, m, n)
  BY <1>2 DEF HasEntry
<1>11. ASSUME entry.kind = "global", NEW m \in Nat, Known(p, N, T2, "function", m, n, 1)
       PROVE  HasEntry(T2, "function", m, n)
  <2>1. \E x \in DOMAIN N : x.kind = "function" /\ N[x] = m
    <3>1. CASE m = 0
      <4>1. MainId \in DOMAIN Numbers /\ Numbers[MainId] = functions[Main]
        <5>1. MainId \in ItemName /\ HasNumber(MainId)
          BY MainIsItem DEF MainId, ReachInv
        <5> QED BY <5>1, NumbersAre DEF MainId, Id, ItemNumber
      <4>2. MainId.kind = "function" /\ functions[Main] = 0
        BY DEF MainId, Id, OrderInv
      <4> QED BY <3>1, <4>1, <4>2
    <3>2. CASE Named(T2, "function", m, n, 1)
      <4>1. PICK j \in DOMAIN T2 : \E l \in DOMAIN T2[j].text :
              T2[j].text[l].kind = "function" /\ T2[j].text[l].n = m
        BY <3>2 DEF Named
      <4>2. j # n
        BY <4>1, <1>2
      <4>3. j \in DOMAIN T /\ T2[j] = T[j]
        BY <4>2, <1>2
      <4>4. PICK l \in DOMAIN T[j].text : T[j].text[l].kind = "function" /\ T[j].text[l].n = m
        BY <4>1, <4>3
      <4> QED BY <4>3, <4>4, NamedNumbered
    <3>3. CASE IsListed(p, N, "function", m)
      BY <3>3 DEF IsListed
    <3> QED BY <1>11, <3>1, <3>2, <3>3 DEF Known
  <2>2. PICK x \in DOMAIN Numbers : x.kind = "function" /\ Numbers[x] = m
    BY <2>1
  <2>3. \E i \in DOMAIN out : out[i].kind = "function" /\ out[i].n = Numbers[x]
    BY <1>11, <2>2, FunctionsWritten
  <2> QED BY <2>2, <2>3, <1>2 DEF HasEntry
<1>12. entry.reached => \A j \in DOMAIN T2 : j < n => T2[j].reached
  <2> SUFFICES ASSUME phase = "reached", NEW j \in DOMAIN T2, j < n PROVE T2[j].reached
    BY <1>8
  <2>1. j \in DOMAIN T
    BY <1>1, <1>2
  <2> QED BY <2>1, <1>2 DEF ReachInv
<1>13. EntryLaw(p, N, T2, n)
  BY <1>2, <1>9, <1>10, <1>11, <1>12 DEF EntryLaw
<1>14. \A i \in DOMAIN out' :
         /\ EntryLaw(program', Numbers', out', i)
         /\ \A k \in DOMAIN out'[i].text : TokenLaw(program', Numbers', out', i, k)
  <2> SUFFICES ASSUME NEW i \in DOMAIN T2
               PROVE  /\ EntryLaw(p, N, T2, i)
                      /\ \A k \in DOMAIN T2[i].text : TokenLaw(p, N, T2, i, k)
    BY <1>3
  <2>1. CASE i \in DOMAIN T
    BY <2>1, <1>2, <1>3, <1>6
  <2>2. CASE i = n
    BY <2>2, <1>2, <1>13
  <2> QED BY <2>1, <2>2, <1>2
<1>15. Reached \subseteq Reached'
  <2>1. ASSUME NEW i \in DOMAIN out, NEW x \in ItemName, Owner(i, x)
        PROVE  Owner(i, x)' /\ out'[i] = out[i] /\ i \in DOMAIN out'
    BY <2>1, <1>2 DEF Owner, IsEntryOf, HasNumber, ItemNumber
  <2> QED BY <2>1 DEF Reached
<1>16. phase' # "reached" => ListLaw(program', Numbers', Reached')
  BY <1>3, <1>15 DEF ListLaw, OrderInv
<1>17. Items' = Items
  BY DEF Items, FunctionIds, GlobalIds
<1>18. phase' = "unreachable" => Listing'
  <2> SUFFICES ASSUME phase = "unreachable" PROVE Listing'
    OBVIOUS
  <2>1. Listing
    BY DEF OrderInv
  <2> QED BY <1>3, <1>17, <2>1 DEF Listing
<1>19. \A i \in DOMAIN out' : \A x \in ItemName : Owner(i, x)' => (out'[i].missing <=> ~Present(x)')
  <2> SUFFICES ASSUME NEW i \in DOMAIN T2, NEW x \in ItemName, Owner(i, x)'
               PROVE  T2[i].missing <=> ~Present(x)'
    OBVIOUS
  <2>1. CASE i \in DOMAIN T
    <3>1. out[i].missing <=> ~Present(x)'
      BY <2>1, <1>6
    <3>2. T2[i] = out[i]
      BY <2>1, <1>2
    <3> QED BY <3>1, <3>2
  <2>2. CASE i = n
    <3>1. Owner(n, item)'
      BY <1>2 DEF Owner, IsEntryOf, HasNumber, ItemNumber
    <3>2. x = item
      BY <2>2, <3>1, UniqueNext DEF Unique
    <3> QED BY <2>2, <3>2, <1>2 DEF Present, HasFunction, HasGlobal
  <2> QED BY <2>1, <2>2, <1>2
<1>20. \A i \in DOMAIN out' : ~out'[i].reached => phase' # "reached" /\ leftover' = <<>>
  <2> SUFFICES ASSUME NEW i \in DOMAIN T2, ~T2[i].reached PROVE phase # "reached"
    OBVIOUS
  <2>1. CASE i \in DOMAIN T
    BY <2>1, <1>2 DEF OrderInv
  <2> QED BY <2>1, <1>2, <1>8
<1>21. todo' # <<>> => leftover' = <<>> /\ (out'[Len(out')].reached <=> phase' = "reached")
  <2>1. out'[Len(out')] = entry
    BY <1>2
  <2>2. out'[Len(out')].reached = entry.reached
    BY <2>1
  <2>3. phase' = "reached" <=> phase = "reached"
    OBVIOUS
  <2> QED BY <1>8, <2>2, <2>3
<1>22. \A x \in DOMAIN Numbers' : Accounted(x)'
  BY <1>3, <1>6
<1> QED BY <1>6, <1>14, <1>16, <1>18, <1>19, <1>20, <1>21, <1>22 DEF OrderInv

\* The head of a queue has the smallest number without an entry.
LEMMA HeadNumber ==
  ASSUME NEW q \in Seq(Nat), q # <<>>, NEW f, NEW kind, Dense(f), QueueHolds(q, f, kind, out)
  PROVE  /\ Head(q) \in DOMAIN f /\ Head(q) \in Nat /\ f[Head(q)] \in Nat
         /\ \A m \in Nat : m < f[Head(q)] => \E j \in DOMAIN out : out[j].kind = kind /\ out[j].n = m
<1>1. PICK k \in Nat :
        /\ \A i \in 1 .. Len(q) : q[i] \in DOMAIN f /\ f[q[i]] = k + i - 1
        /\ \A n \in Nat : n < k => \E i \in DOMAIN out : out[i].kind = kind /\ out[i].n = n
  BY DEF QueueHolds
<1>2. 1 \in 1 .. Len(q) /\ Head(q) = q[1]
  OBVIOUS
<1>3. f[Head(q)] = k /\ Head(q) \in DOMAIN f
  BY <1>1, <1>2
<1> QED BY <1>1, <1>3

\* A function's entry keeps the order.
LEMMA EmitFunctionOrder ==
  ASSUME IInv, IInv', TextInv, ReachInv, OrderInv, emit_function
  PROVE  OrderInv'
<1> PICK id : id = Head(function_queue)
  OBVIOUS
<1>1. /\ leftover = <<>> /\ leftover' = leftover /\ functions' = functions /\ globals' = globals
      /\ program' = program /\ phase' = phase /\ function_queue # <<>>
      /\ out' = Append(out, Entry("function", functions[id], ~HasFunction(id)))
  BY DEF emit_function, Draining
<1>2. /\ id \in DOMAIN functions /\ id \in Nat /\ functions[id] \in Nat
      /\ \A m \in Nat : m < functions[id] =>
           \E j \in DOMAIN out : out[j].kind = "function" /\ out[j].n = m
  BY <1>1, HeadNumber DEF IInv, TypeOK
<1> PICK entry : entry = Entry("function", functions[id], ~HasFunction(id))
  OBVIOUS
<1>3. entry \in Entries
  BY <1>2 DEF Entry, Entries
<1>4. /\ entry.kind = "function" /\ entry.n = functions[id] /\ entry.text = <<>>
      /\ entry.missing = ~HasFunction(id) /\ entry.reached = (phase = "reached")
  BY DEF Entry
<1> PICK item : item = Id("function", id)
  OBVIOUS
<1>5. /\ item \in ItemName /\ HasNumber(item) /\ item.kind = "function" /\ ItemNumber(item) = functions[id]
      /\ Present(item) = HasFunction(id)
  BY <1>2 DEF Id, ItemName, HasNumber, ItemNumber, Present
<1>6. entry.missing <=> ~Present(item)
  BY <1>4, <1>5
<1> QED BY <1>1, <1>2, <1>3, <1>4, <1>5, <1>6, EntryOrder

\* A global's entry keeps the order.
LEMMA EmitGlobalOrder ==
  ASSUME IInv, IInv', TextInv, ReachInv, OrderInv, emit_global
  PROVE  OrderInv'
<1> PICK id : id = Head(global_queue)
  OBVIOUS
<1>1. /\ leftover = <<>> /\ leftover' = leftover /\ functions' = functions /\ globals' = globals
      /\ program' = program /\ phase' = phase /\ global_queue # <<>> /\ function_queue = <<>>
      /\ out' = Append(out, Entry("global", globals[id], ~HasGlobal(id)))
  BY DEF emit_global, Draining
<1>2. /\ id \in DOMAIN globals /\ id \in Nat /\ globals[id] \in Nat
      /\ \A m \in Nat : m < globals[id] =>
           \E j \in DOMAIN out : out[j].kind = "global" /\ out[j].n = m
  BY <1>1, HeadNumber DEF IInv, TypeOK
<1> PICK entry : entry = Entry("global", globals[id], ~HasGlobal(id))
  OBVIOUS
<1>3. entry \in Entries
  BY <1>2 DEF Entry, Entries
<1>4. /\ entry.kind = "global" /\ entry.n = globals[id] /\ entry.text = <<>>
      /\ entry.missing = ~HasGlobal(id) /\ entry.reached = (phase = "reached")
  BY DEF Entry
<1> PICK item : item = Id("global", id)
  OBVIOUS
<1>5. /\ item \in ItemName /\ HasNumber(item) /\ item.kind = "global" /\ ItemNumber(item) = globals[id]
      /\ Present(item) = HasGlobal(id)
  BY <1>2 DEF Id, ItemName, HasNumber, ItemNumber, Present
<1>6. entry.missing <=> ~Present(item)
  BY <1>4, <1>5
<1> QED BY <1>1, <1>2, <1>3, <1>4, <1>5, <1>6, EntryOrder

\* When main's part is written, everything numbered is in it.
LEMMA AllReached ==
  ASSUME IInv, ReachInv, Drained, phase = "reached", NEW v \in DOMAIN Numbers
  PROVE  v \in Reached
<1>1. v \in ItemName /\ HasNumber(v)
  BY NumbersAre
<1>2. PICK i \in DOMAIN out : Owner(i, v)
  BY <1>1, AllWritten DEF Drained
<1>3. out[i].reached
  BY DEF ReachInv
<1> QED BY <1>1, <1>2, <1>3 DEF Reached

\* A step that numbers nothing and writes nothing.
LEMMA StillOrder ==
  ASSUME IInv, IInv', TextInv, ReachInv, OrderInv, functions' = functions, globals' = globals,
         program' = program, out' = out, phase # "reached" => phase' # "reached",
         phase' = "reached" \/ ListLaw(program, Numbers, Reached),
         todo' # <<>> => leftover' = <<>> /\ (out[Len(out)].reached <=> phase' = "reached"),
         \A i \in DOMAIN out : ~out[i].reached => phase' # "reached" /\ leftover' = <<>>,
         phase' = "unreachable" => Listing'
  PROVE  OrderInv'
<1>1. Numbers' = Numbers
  BY NumbersSame
<1>2. out \in Seq(Entries)
  BY DEF IInv, TypeOK
<1>3. Grown(Numbers, out, Numbers', out')
  BY <1>1, <1>2 DEF Grown
<1>4. Extended
  BY DEF Extended
<1>5. /\ \A i \in DOMAIN out :
           /\ EntryLaw(program, Numbers', out', i)
           /\ \A k \in DOMAIN out[i].text : TokenLaw(program, Numbers', out', i, k)
      /\ \A x \in DOMAIN Numbers : Accounted(x)'
      /\ \A i \in DOMAIN out : \A x \in ItemName :
           Owner(i, x)' => Owner(i, x) /\ (out[i].missing <=> ~Present(x)')
      /\ functions'[Main] = 0
  <2>1. Len(out) <= Len(out')
    BY <1>2
  <2> QED BY <1>3, <1>4, <2>1, LawsKept
<1>6. Reached' = Reached
  BY DEF Reached, Owner, IsEntryOf, HasNumber, ItemNumber
<1> QED BY <1>1, <1>5, <1>6 DEF OrderInv

\* Listing what is unnumbered keeps the order.
LEMMA StartUnreachableOrder ==
  ASSUME IInv, IInv', TextInv, ReachInv, OrderInv, StartUnreachable
  PROVE  OrderInv'
<1>1. /\ Drained /\ phase = "reached" /\ phase' = "unreachable" /\ leftover' = Items /\ todo = <<>>
      /\ functions' = functions /\ globals' = globals /\ program' = program /\ out' = out
      /\ todo' = todo
  BY DEF StartUnreachable, Drained, Draining
<1>2. \A v \in DOMAIN Numbers : v \in Reached
  BY <1>1, AllReached
<1>3. ListLaw(program, Numbers, Reached)
  BY <1>2 DEF ListLaw
<1>4. \A i \in DOMAIN out : out[i].reached
  BY <1>1 DEF ReachInv
<1>5. Listing'
  <2>1. Numbers' = Numbers /\ Items' = Items
    BY <1>1, NumbersSame DEF Items, FunctionIds, GlobalIds
  <2>2. Reached' = Reached
    BY <1>1 DEF Reached, Owner, IsEntryOf, HasNumber, ItemNumber
  <2>3. Items \in Seq(ItemName)
    BY ProgramTypes DEF IInv, TypeOK
  <2>4. /\ 0 \in Nat /\ 0 + Len(Items) = Len(Items) /\ \A b \in 1 .. 0 : FALSE
        /\ \A j \in DOMAIN Items : Items[j] = Items[0 + j]
    BY <2>3
  <2>5. /\ 0 + Len(leftover') = Len(Items')
        /\ \A j \in DOMAIN leftover' : leftover'[j] = Items'[0 + j]
        /\ \A b \in 1 .. 0 : Items'[b] \in DOMAIN Numbers'
        /\ \A v \in DOMAIN Numbers' : v \in Reached'
    BY <1>1, <1>2, <2>1, <2>2, <2>4
  <2> QED BY <2>5 DEF Listing
<1> QED BY <1>1, <1>3, <1>4, <1>5, StillOrder

\* Finishing keeps the order.
LEMMA FinishOrder ==
  ASSUME IInv, IInv', TextInv, ReachInv, OrderInv, Finish
  PROVE  OrderInv'
<1>1. /\ Drained /\ phase' = "done" /\ leftover' = leftover /\ todo = <<>> /\ leftover = <<>>
      /\ functions' = functions /\ globals' = globals /\ program' = program /\ out' = out
      /\ todo' = todo
  BY DEF Finish, Drained, Draining
<1>2. ListLaw(program, Numbers, Reached)
  <2>1. CASE phase = "reached"
    <3>1. \A v \in DOMAIN Numbers : v \in Reached
      BY <1>1, <2>1, AllReached
    <3> QED BY <3>1 DEF ListLaw
  <2>2. CASE phase # "reached"
    BY <2>2 DEF OrderInv
  <2> QED BY <2>1, <2>2
<1> QED BY <1>1, <1>2, StillOrder

\* A step that changes nothing keeps the order.
LEMMA StutterOrder ==
  ASSUME IInv, IInv', TextInv, ReachInv, OrderInv, UNCHANGED vars
  PROVE  OrderInv'
<1>1. /\ functions' = functions /\ globals' = globals /\ program' = program /\ out' = out
      /\ todo' = todo /\ leftover' = leftover /\ phase' = phase
  BY DEF vars, work
<1>2. phase' = "unreachable" => Listing'
  <2>1. Numbers' = Numbers /\ Items' = Items
    BY <1>1, NumbersSame DEF Items, FunctionIds, GlobalIds
  <2>2. Reached' = Reached
    BY <1>1 DEF Reached, Owner, IsEntryOf, HasNumber, ItemNumber
  <2> QED BY <1>1, <2>1, <2>2 DEF OrderInv, Listing
<1>3. /\ phase' = "reached" \/ ListLaw(program, Numbers, Reached)
      /\ todo' # <<>> => leftover' = <<>> /\ (out[Len(out)].reached <=> phase' = "reached")
      /\ \A i \in DOMAIN out : ~out[i].reached => phase' # "reached" /\ leftover' = <<>>
  BY <1>1 DEF OrderInv
<1> QED BY <1>1, <1>2, <1>3, StillOrder

\* Numbering a listed item keeps the order of the list.
LEMMA NumberLeftoverOrder ==
  ASSUME IInv, IInv', TextInv, ReachInv, OrderInv, NumberLeftover
  PROVE  OrderInv'
<1> PICK x : x = Head(leftover)
  OBVIOUS
<1>1. /\ leftover # <<>> /\ leftover \in Seq(ItemName) /\ leftover' = Tail(leftover)
      /\ program' = program /\ out' = out /\ todo' = todo /\ phase' = phase
      /\ \/ x.kind = "function" /\ function_id(x.id)
         \/ x.kind = "global" /\ global_id(x.id)
  BY DEF NumberLeftover, IInv, TypeOK
<1>2. x \in ItemName /\ x = leftover[1] /\ 1 \in DOMAIN leftover
  BY <1>1
<1>3. phase = "unreachable" /\ todo = <<>>
  BY <1>1 DEF OrderInv, ReachInv, IInv, TypeOK
<1>4. /\ Extended
      /\ DOMAIN Numbers' = DOMAIN Numbers \cup {x}
      /\ \A v \in DOMAIN Numbers : Numbers'[v] = Numbers[v]
      /\ Numbers'[x] \in Nat
      /\ x \notin DOMAIN Numbers =>
           \A v \in DOMAIN Numbers : v.kind = x.kind => Numbers[v] < Numbers'[x]
  BY <1>1, <1>2, MeetsItem
<1>5. out \in Seq(Entries)
  BY DEF IInv, TypeOK
<1>6. Grown(Numbers, out, Numbers', out')
  BY <1>1, <1>4, <1>5 DEF Grown
<1>7. /\ \A i \in DOMAIN out :
           /\ EntryLaw(program, Numbers', out', i)
           /\ \A k \in DOMAIN out[i].text : TokenLaw(program, Numbers', out', i, k)
      /\ \A v \in DOMAIN Numbers : Accounted(v)'
      /\ \A i \in DOMAIN out : \A v \in ItemName :
           Owner(i, v)' => Owner(i, v) /\ (out[i].missing <=> ~Present(v)')
      /\ functions'[Main] = 0
  <2>1. Len(out) <= Len(out')
    BY <1>1, <1>5
  <2> QED BY <1>1, <1>4, <1>6, <2>1, LawsKept
<1>8. Reached' = Reached
  BY <1>1, <1>4, <1>5, ReachedKept
<1>9. Items' = Items /\ Items = ItemSeq(program)
  BY <1>1, ItemsAre DEF Items, FunctionIds, GlobalIds
<1>10. PICK d \in Nat :
         /\ d + Len(leftover) = Len(Items)
         /\ \A j \in DOMAIN leftover : leftover[j] = Items[d + j]
         /\ \A b \in 1 .. d : Items[b] \in DOMAIN Numbers
         /\ \A v \in DOMAIN Numbers : v \in Reached \/ \E b \in 1 .. d : Items[b] = v
  BY <1>1, <1>3 DEF OrderInv, Listing
<1> PICK S : S = Items
  OBVIOUS
<1>11. S \in Seq(ItemName)
  BY ProgramTypes DEF IInv, TypeOK
<1>12. x = S[d + 1] /\ d + 1 \in DOMAIN S
  BY <1>1, <1>2, <1>10, <1>11
<1>13. Listing'
  <2>1. d + 1 \in Nat /\ (d + 1) + Len(leftover') = Len(Items')
    BY <1>1, <1>9, <1>10, <1>11
  <2>2. \A j \in DOMAIN leftover' : leftover'[j] = Items'[(d + 1) + j]
    <3> SUFFICES ASSUME NEW j \in DOMAIN leftover' PROVE leftover'[j] = Items[(d + 1) + j]
      BY <1>9
    <3>1. j \in Nat /\ j + 1 \in DOMAIN leftover /\ leftover'[j] = leftover[j + 1]
      BY <1>1
    <3>2. d + (j + 1) = (d + 1) + j
      BY <3>1
    <3> QED BY <3>1, <3>2, <1>10
  <2>3. \A b \in 1 .. d + 1 : Items'[b] \in DOMAIN Numbers'
    <3> SUFFICES ASSUME NEW b \in 1 .. d + 1 PROVE S[b] \in DOMAIN Numbers'
      BY <1>9
    <3>1. b \in 1 .. d \/ b = d + 1
      BY <1>10
    <3> QED BY <3>1, <1>4, <1>10, <1>12
  <2>4. \A v \in DOMAIN Numbers' : v \in Reached' \/ \E b \in 1 .. d + 1 : Items'[b] = v
    <3> SUFFICES ASSUME NEW v \in DOMAIN Numbers'
                 PROVE  v \in Reached \/ \E b \in 1 .. d + 1 : S[b] = v
      BY <1>8, <1>9
    <3>1. 1 .. d \subseteq 1 .. d + 1 /\ d + 1 \in 1 .. d + 1
      BY <1>10
    <3> QED BY <3>1, <1>4, <1>10, <1>12
  <2> QED BY <2>1, <2>2, <2>3, <2>4 DEF Listing
<1>14. ListLaw(program', Numbers', Reached')
  <2> PICK N, N2 : N = Numbers /\ N2 = Numbers'
    OBVIOUS
  <2> SUFFICES ASSUME NEW a \in DOMAIN S, NEW v \in DOMAIN N2, S[a] \in DOMAIN N2,
                      S[a] \notin Reached, v.kind = S[a].kind, N2[v] < N2[S[a]]
               PROVE  v \in Reached \/ \E b \in DOMAIN S : b < a /\ S[b] = v
    BY <1>1, <1>8, <1>9 DEF ListLaw
  <2>0. \A w \in DOMAIN N : N2[w] = N[w] /\ N[w] \in Nat /\ w \in DOMAIN N2
    BY <1>4, NumbersAre
  <2>1. CASE S[a] \in DOMAIN N
    <3>1. v \in DOMAIN N
      <4> SUFFICES ASSUME v \notin DOMAIN N PROVE FALSE
        OBVIOUS
      <4>1. v = x /\ N[S[a]] < N2[x]
        BY <1>4, <2>1
      <4> QED BY <1>4, <2>0, <2>1, <4>1
    <3>2. N[v] < N[S[a]]
      BY <2>0, <2>1, <3>1
    <3>3. ListLaw(program, N, Reached)
      BY <1>3 DEF OrderInv
    <3> QED BY <2>1, <3>1, <3>2, <3>3, <1>9 DEF ListLaw
  <2>2. CASE S[a] \notin DOMAIN N
    <3>1. S[a] = x /\ v # x /\ v \in DOMAIN N
      BY <1>4, <2>2
    <3>2. CASE v \in Reached
      BY <3>2
    <3>3. CASE \E b \in 1 .. d : S[b] = v
      <4>1. PICK b \in 1 .. d : S[b] = v
        BY <3>3
      <4>2. a \in Nat /\ a \notin 1 .. d /\ a \in 1 .. Len(S)
        BY <1>10, <1>11, <2>2
      <4>3. b < a /\ b \in DOMAIN S
        BY <4>2, <1>10, <1>11
      <4> QED BY <4>1, <4>3
    <3> QED BY <3>1, <3>2, <3>3, <1>10
  <2> QED BY <2>1, <2>2
<1>15. \A v \in DOMAIN Numbers' : Accounted(v)'
  <2> SUFFICES ASSUME NEW v \in DOMAIN Numbers', v \notin DOMAIN Numbers PROVE Accounted(v)'
    BY <1>7
  <2>1. v = S[d + 1]
    BY <1>4, <1>12
  <2> QED BY <2>1, <1>1, <1>3, <1>9, <1>12 DEF Accounted
<1>16. \A i \in DOMAIN out : out[i].reached
  BY <1>1 DEF OrderInv
<1> QED BY <1>1, <1>3, <1>7, <1>13, <1>14, <1>15, <1>16 DEF OrderInv

\* Every step of a compilation keeps the order.
LEMMA NextOrder == IInv /\ IInv' /\ TextInv /\ ReachInv /\ OrderInv /\ [Next]_vars => OrderInv'
BY WriteExprOrder, EmitFunctionOrder, EmitGlobalOrder, StartUnreachableOrder, NumberLeftoverOrder,
   FinishOrder, StutterOrder DEF Next

\* A fresh program has main and no text.
LEMMA FreshOrder == Fresh => OrderInv
<1> SUFFICES ASSUME Fresh PROVE OrderInv
  OBVIOUS
<1>1. IInv
  BY FreshInv
<1>2. /\ functions = [id \in {Main} |-> 0] /\ globals = [id \in {} |-> 0]
      /\ out = <<>> /\ todo = <<>> /\ leftover = <<>> /\ phase = "reached"
  BY DEF Fresh
<1>3. \A x \in DOMAIN Numbers : x = MainId
  <2>1. \A x \in ItemName : HasNumber(x) => x.kind = "function" /\ x.id = Main
    BY <1>2 DEF HasNumber, ItemName
  <2>2. \A x \in ItemName : x.kind = "function" /\ x.id = Main => x = MainId
    BY DEF ItemName, MainId, Id
  <2> QED BY <1>1, <2>1, <2>2, NumbersAre
<1>4. \A x \in DOMAIN Numbers : Accounted(x)
  BY <1>3 DEF Accounted
<1>5. functions[Main] = 0
  BY <1>2
<1>6. DOMAIN out = {}
  BY <1>2
<1> QED BY <1>2, <1>4, <1>5, <1>6 DEF OrderInv

\* So has the program that is compiled again.
LEMMA FreshOrderAgain == Fresh' => OrderInv'
BY FreshOrder, PTL

\* OrderInv holds throughout both compilations.
LEMMA OrderInduction == RecompileSpec => []OrderInv
<1>1. RecompileInit => OrderInv
  BY InitFresh, FreshOrder DEF RecompileInit
<1>2. /\ IInv /\ IInv' /\ TextInv /\ ReachInv /\ OrderInv /\ [RecompileNext]_<<vars, earlier>>
      => OrderInv'
  <2> SUFFICES ASSUME IInv, IInv', TextInv, ReachInv, OrderInv,
                      [RecompileNext]_<<vars, earlier>>
               PROVE  OrderInv'
    OBVIOUS
  <2>1. CASE [Next]_vars
    BY <2>1, NextOrder
  <2>2. CASE CompileAgain
    BY <2>2, CompileAgainFresh, FreshOrderAgain
  <2> QED BY <2>1, <2>2 DEF RecompileNext
<1> QED BY <1>1, <1>2, Induction, TextInduction, ReachInduction, PTL DEF RecompileSpec

-----------------------------------------------------------------------------
\* A sequence of expressions as another compilation has it.
Mapped(r, s) == [i \in DOMAIN s |-> r.expr[s[i]]]

\* Another compilation's expressions stand where the originals stand.
LEMMA MappedType ==
  ASSUME NEW r \in Renaming, NEW s \in Seq(Expr)
  PROVE  /\ Mapped(r, s) \in Seq(Expr) /\ Len(Mapped(r, s)) = Len(s)
         /\ DOMAIN Mapped(r, s) = DOMAIN s
         /\ \A i \in DOMAIN s : Mapped(r, s)[i] = r.expr[s[i]] /\ s[i] \in Expr
<1>1. r.expr \in [Expr -> Expr]
  BY RenamingAssumption
<1>2. DOMAIN s = 1 .. Len(s) /\ Len(s) \in Nat /\ \A i \in DOMAIN s : s[i] \in Expr
  OBVIOUS
<1>3. \A i \in 1 .. Len(s) : r.expr[s[i]] \in Expr
  BY <1>1, <1>2
<1>4. Mapped(r, s) = [i \in 1 .. Len(s) |-> r.expr[s[i]]]
  BY <1>2 DEF Mapped
<1>5. Mapped(r, s) \in Seq(Expr) /\ Len(Mapped(r, s)) = Len(s)
  BY <1>2, <1>3, <1>4
<1> QED BY <1>2, <1>4, <1>5

\* They do so list by list.
LEMMA MappedConcat ==
  ASSUME NEW r \in Renaming, NEW s \in Seq(Expr), NEW t \in Seq(Expr)
  PROVE  Mapped(r, s \o t) = Mapped(r, s) \o Mapped(r, t)
<1>1. s \o t \in Seq(Expr)
  OBVIOUS
<1> PICK u \in Seq(Expr) : u = s \o t
  BY <1>1
<1>2. /\ Mapped(r, s) \in Seq(Expr) /\ Len(Mapped(r, s)) = Len(s)
      /\ \A i \in DOMAIN s : Mapped(r, s)[i] = r.expr[s[i]]
  BY MappedType
<1>3. /\ Mapped(r, t) \in Seq(Expr) /\ Len(Mapped(r, t)) = Len(t)
      /\ \A i \in DOMAIN t : Mapped(r, t)[i] = r.expr[t[i]]
  BY MappedType
<1>4. /\ Mapped(r, u) \in Seq(Expr) /\ Len(Mapped(r, u)) = Len(u)
      /\ \A i \in DOMAIN u : Mapped(r, u)[i] = r.expr[u[i]]
  BY MappedType
<1> PICK a \in Seq(Expr), b \in Seq(Expr), c \in Seq(Expr) :
      a = Mapped(r, s) /\ b = Mapped(r, t) /\ c = Mapped(r, u)
  BY <1>2, <1>3, <1>4
<1>a. Len(a) = Len(s) /\ \A i \in DOMAIN s : a[i] = r.expr[s[i]]
  BY ONLY <1>2, a = Mapped(r, s)
<1>b. Len(b) = Len(t) /\ \A i \in DOMAIN t : b[i] = r.expr[t[i]]
  BY ONLY <1>3, b = Mapped(r, t)
<1>c. Len(c) = Len(u) /\ \A i \in DOMAIN u : c[i] = r.expr[u[i]]
  BY ONLY <1>4, c = Mapped(r, u)
<1>5. Len(c) = Len(a) + Len(b)
  BY <1>a, <1>b, <1>c
<1>6. ASSUME NEW i \in 1 .. Len(a) + Len(b)
      PROVE  c[i] = (a \o b)[i]
  <2>1. CASE i <= Len(a)
    <3>1. i \in DOMAIN s /\ i \in DOMAIN u /\ u[i] = s[i] /\ (a \o b)[i] = a[i]
      BY <2>1, <1>a, <1>b
    <3> QED BY ONLY <3>1, <1>a, <1>c
  <2>2. CASE ~(i <= Len(a))
    <3>1. /\ i - Len(a) \in DOMAIN t /\ i \in DOMAIN u /\ u[i] = t[i - Len(a)]
          /\ (a \o b)[i] = b[i - Len(a)]
      BY <2>2, <1>a, <1>b
    <3> QED BY ONLY <3>1, <1>b, <1>c
  <2> QED BY <2>1, <2>2
<1>7. a \o b \in Seq(Expr) /\ Len(a \o b) = Len(a) + Len(b)
  OBVIOUS
<1>8. c = a \o b
  BY <1>5, <1>6, <1>7, SeqEqual
<1> QED BY <1>8

\* An expression is preordered alike in both compilations.
Alike(r, e) == Preorder[r.expr[e]] = Mapped(r, Preorder[e])

\* The preorder of a list is renamed as each of its expressions is.
LEMMA MappedPreorders ==
  ASSUME NEW r \in Renaming, NEW es \in Seq(Expr), \A i \in DOMAIN es : Alike(r, es[i])
  PROVE  Preorders(Mapped(r, es)) = Mapped(r, Preorders(es))
<1> DEFINE Good(s) == Preorders(Mapped(r, s)) = Mapped(r, Preorders(s))
           Bad == {n \in Nat : \E s \in Seq(Expr) :
                     Len(s) = n /\ (\A i \in DOMAIN s : Alike(r, s[i])) /\ ~Good(s)}
<1> SUFFICES ASSUME Bad # {} PROVE FALSE
  <2>1. Len(es) \in Nat
    OBVIOUS
  <2> QED BY <2>1
<1>1. PICK n \in Bad : \A m \in Bad : n <= m
  BY LeastNat
<1>2. PICK s \in Seq(Expr) : Len(s) = n /\ (\A i \in DOMAIN s : Alike(r, s[i])) /\ ~Good(s)
  OBVIOUS
<1>3. CASE s = <<>>
  <2>1. Mapped(r, <<>>) = <<>>
    <3>1. <<>> \in Seq(Expr)
      OBVIOUS
    <3>2. Mapped(r, <<>>) \in Seq(Expr) /\ Len(Mapped(r, <<>>)) = 0
      BY <3>1, MappedType
    <3> QED BY <3>2
  <2> QED BY <2>1, <1>2, <1>3, EmptyPreorders
<1>4. CASE s # <<>>
  <2>1. PICK u \in Seq(Expr), x \in Expr : s = Append(u, x) /\ Len(s) = Len(u) + 1
    BY <1>4, EndsIn
  <2>2. \A i \in DOMAIN u : i \in DOMAIN s /\ s[i] = u[i]
    BY <2>1
  <2>3. Len(s) \in DOMAIN s /\ s[Len(s)] = x
    BY <2>1
  <2>4. Alike(r, x) /\ \A i \in DOMAIN u : Alike(r, u[i])
    BY <1>2, <2>2, <2>3
  <2>5. Good(u)
    <3> SUFFICES ASSUME ~Good(u) PROVE FALSE
      OBVIOUS
    <3>1. Len(u) \in Bad
      BY <2>4
    <3>2. Len(u) < n /\ Len(u) \in Nat /\ n \in Nat
      BY <1>2, <2>1
    <3> HIDE DEF Bad
    <3> QED BY <3>1, <3>2, <1>1
  <2>0. <<x>> \in Seq(Expr)
    OBVIOUS
  <2> PICK y \in Seq(Expr) : y = <<x>>
    BY <2>0
  <2>6. s = u \o y
    BY <2>1
  <2>7. r.expr[x] \in Expr
    BY RenamingAssumption
  <2>8. Mapped(r, y) = <<r.expr[x]>>
    <3>1. Len(y) = 1 /\ 1 \in DOMAIN y /\ y[1] = x
      OBVIOUS
    <3>2. Mapped(r, y) \in Seq(Expr) /\ Len(Mapped(r, y)) = 1 /\ Mapped(r, y)[1] = r.expr[x]
      BY <3>1, MappedType
    <3> QED BY <3>2, <2>7
  <2>9. Preorders(Mapped(r, y)) = Mapped(r, Preorders(y))
    <3>1. Preorders(<<r.expr[x]>>) = Preorder[r.expr[x]]
      BY ONLY <2>7, SinglePreorder
    <3>2. Preorders(<<x>>) = Preorder[x]
      BY ONLY x \in Expr, SinglePreorder
    <3>3. Preorder[r.expr[x]] = Mapped(r, Preorder[x])
      BY <2>4 DEF Alike
    <3> QED BY ONLY <3>1, <3>2, <3>3, <2>8, y = <<x>>
  <2>10. Mapped(r, s) = Mapped(r, u) \o Mapped(r, y)
    BY <2>6, MappedConcat
  <2>11. Preorders(Mapped(r, s)) = Preorders(Mapped(r, u)) \o Preorders(Mapped(r, y))
    <3>1. PICK a \in Seq(Expr), b \in Seq(Expr) : a = Mapped(r, u) /\ b = Mapped(r, y)
      BY MappedType
    <3>2. Preorders(a \o b) = Preorders(a) \o Preorders(b)
      BY ONLY a \in Seq(Expr), b \in Seq(Expr), PreordersConcat
    <3> QED BY ONLY <3>1, <3>2, <2>10
  <2>12. Preorders(s) = Preorders(u) \o Preorders(y)
    BY <2>6, PreordersConcat
  <2>13. Mapped(r, Preorders(s)) = Mapped(r, Preorders(u)) \o Mapped(r, Preorders(y))
    <3> PICK a \in Seq(Expr), b \in Seq(Expr) : a = Preorders(u) /\ b = Preorders(y)
      BY PreorderTree
    <3>1. Mapped(r, a \o b) = Mapped(r, a) \o Mapped(r, b)
      BY MappedConcat
    <3> QED BY <3>1, <2>12
  <2> QED BY <1>2, <2>5, <2>9, <2>11, <2>13
<1> QED BY <1>3, <1>4

\* The preorder of a renamed expression is its preorder, renamed.
LEMMA MappedPreorder ==
  ASSUME NEW r \in Renaming
  PROVE  \A e \in Expr : Alike(r, e)
<1> DEFINE Bad == {n \in Nat : \E e \in Expr : Depth[e] = n /\ ~Alike(r, e)}
<1> SUFFICES ASSUME Bad # {} PROVE FALSE
  <2>1. \A e \in Expr : Depth[e] \in Nat
    BY DepthAssumption
  <2> QED BY <2>1
<1>1. PICK n \in Bad : \A m \in Bad : n <= m
  BY LeastNat
<1>2. PICK e \in Expr : Depth[e] = n /\ ~Alike(r, e)
  OBVIOUS
<1>3. e.parts \in Seq(Expr)
  BY ExprAssumption
<1>4. ASSUME NEW i \in DOMAIN e.parts PROVE Alike(r, e.parts[i])
  <2>1. e.parts[i] \in Expr
    BY <1>3
  <2>2. Depth[e.parts[i]] < n /\ Depth[e.parts[i]] \in Nat /\ n \in Nat
    BY <1>2, <2>1, DepthAssumption
  <2>3. ~Alike(r, e.parts[i]) => Depth[e.parts[i]] \in Bad
    BY <2>1, <2>2
  <2> HIDE DEF Bad
  <2> QED BY <2>2, <2>3, <1>1
<1>5. Preorders(Mapped(r, e.parts)) = Mapped(r, Preorders(e.parts))
  BY <1>3, <1>4, MappedPreorders
<1>6. r.expr[e] \in Expr /\ r.expr[e].parts = Mapped(r, e.parts)
  BY RenamingAssumption DEF Mapped
<1>7. Preorder[r.expr[e]] = <<r.expr[e]>> \o Mapped(r, Preorders(e.parts))
  <2> PICK d \in Expr : d = r.expr[e] /\ d.parts = Mapped(r, e.parts)
    BY <1>6
  <2>1. Preorder[d] = <<d>> \o Preorders(d.parts)
    BY PreorderTree
  <2> QED BY <2>1, <1>5
<1>a. <<e>> \in Seq(Expr)
  OBVIOUS
<1> PICK y \in Seq(Expr) : y = <<e>>
  BY <1>a
<1>8. Mapped(r, y) = <<r.expr[e]>>
  <2>1. Len(y) = 1 /\ 1 \in DOMAIN y /\ y[1] = e
    OBVIOUS
  <2>2. Mapped(r, y) \in Seq(Expr) /\ Len(Mapped(r, y)) = 1 /\ Mapped(r, y)[1] = r.expr[e]
    BY <2>1, MappedType
  <2> QED BY <2>2, <1>6
<1>9. Preorder[e] = y \o Preorders(e.parts) /\ Preorders(e.parts) \in Seq(Expr)
  BY <1>3, PreorderTree
<1>10. Mapped(r, Preorder[e]) = Mapped(r, y) \o Mapped(r, Preorders(e.parts))
  BY <1>9, MappedConcat
<1> QED BY <1>2, <1>7, <1>8, <1>10 DEF Alike

-----------------------------------------------------------------------------
\* What another compilation makes of an item.
NewIds(r, kind) == IF kind = "function" THEN r.function ELSE r.global
Ren(r, a)       == Id(a.kind, NewIds(r, a.kind)[a.id])
HasNewId(r, a)  == a \in ItemName /\ a.id \in DOMAIN NewIds(r, a.kind)

\* Different items get different new ids, and main stays main.
LEMMA RenOneToOne ==
  ASSUME NEW r \in Renaming
  PROVE  /\ \A a : HasNewId(r, a) => Ren(r, a) \in ItemName /\ Ren(r, a).kind = a.kind
         /\ \A a, b : HasNewId(r, a) /\ HasNewId(r, b) /\ Ren(r, a) = Ren(r, b) => a = b
         /\ HasNewId(r, MainId) /\ Ren(r, MainId) = MainId
<1>1. /\ OneToOne(r.function) /\ OneToOne(r.global)
      /\ Main \in DOMAIN r.function /\ r.function[Main] = Main
  BY RenamingAssumption
<1>2. \A kind : OneToOne(NewIds(r, kind))
  BY <1>1 DEF NewIds
<1>3. ASSUME NEW a, HasNewId(r, a)
      PROVE  Ren(r, a) \in ItemName /\ Ren(r, a).kind = a.kind
  BY <1>2, <1>3 DEF HasNewId, Ren, OneToOne, ItemName, Id
<1>4. ASSUME NEW a, NEW b, HasNewId(r, a), HasNewId(r, b), Ren(r, a) = Ren(r, b)
      PROVE  a = b
  <2>1. a.kind = b.kind /\ NewIds(r, a.kind)[a.id] = NewIds(r, a.kind)[b.id]
    BY <1>4 DEF Ren, Id
  <2>2. a.id = b.id
    BY <1>2, <1>4, <2>1 DEF HasNewId, OneToOne
  <2> QED BY <1>4, <2>1, <2>2 DEF HasNewId, ItemName
<1>5. HasNewId(r, MainId) /\ Ren(r, MainId) = MainId
  BY <1>1, MainIsItem DEF HasNewId, Ren, NewIds, MainId, Id
<1> QED BY <1>3, <1>4, <1>5

\* The items an expression names have names in the other compilation.
LEMMA RenamedNames ==
  ASSUME NEW r \in Renaming, NEW e \in Expr
  PROVE  /\ r.expr[e] \in Expr /\ r.expr[e].form = e.form
         /\ Len(r.expr[e].parts) = Len(e.parts)
         /\ r.expr[e].name.kind = e.name.kind
         /\ e.name.kind \in {"function", "global"} =>
              HasNewId(r, e.name) /\ r.expr[e].name = Ren(r, e.name)
         /\ e.name.kind = "local" =>
              e.name.id \in DOMAIN r.local /\ r.expr[e].name.id = r.local[e.name.id]
         /\ e.name.kind \notin {"function", "global", "local"} => r.expr[e].name.id = e.name.id
<1>1. /\ r.expr \in [Expr -> Expr]
      /\ e.name.kind = "function" => e.name.id \in DOMAIN r.function
      /\ e.name.kind = "global" => e.name.id \in DOMAIN r.global
      /\ e.name.kind = "local" => e.name.id \in DOMAIN r.local
      /\ r.expr[e].form = e.form /\ r.expr[e].name = RenamedName(r, e.name)
      /\ r.expr[e].parts = [i \in DOMAIN e.parts |-> r.expr[e.parts[i]]]
  BY RenamingAssumption
<1>2. e.name \in Name /\ e.parts \in Seq(Expr)
  BY ExprAssumption
<1>3. Len(r.expr[e].parts) = Len(e.parts)
  <2>1. r.expr[e].parts = Mapped(r, e.parts)
    BY <1>1 DEF Mapped
  <2> QED BY <1>2, <2>1, MappedType
<1> PICK x \in Name : x = e.name
  BY <1>2
<1> PICK y : y = RenamedName(r, x)
  OBVIOUS
<1>4. /\ y.kind = x.kind
      /\ x.kind = "function" => y = [kind |-> x.kind, id |-> r.function[x.id]]
      /\ x.kind = "global" => y = [kind |-> x.kind, id |-> r.global[x.id]]
      /\ x.kind = "local" => y.id = r.local[x.id]
      /\ x.kind \notin {"function", "global", "local"} => y.id = x.id
  BY DEF RenamedName, Name
<1>5. x.kind \in {"function", "global"} => x \in ItemName
  BY DEF Name, ItemName
<1>6. x.kind \in {"function", "global"} => HasNewId(r, x) /\ y = Ren(r, x)
  BY <1>1, <1>4, <1>5 DEF HasNewId, Ren, NewIds, Id
<1> QED BY <1>1, <1>3, <1>4, <1>6

-----------------------------------------------------------------------------
\* The same questions asked of a program that is not the current one.
PresentIn(p, a) ==
  IF a.kind = "function" THEN a.id + 1 \in DOMAIN p.functions /\ p.functions[a.id + 1].id = a.id
  ELSE a.id \in DOMAIN p.globals
PartsIn(p, a) ==
  IF ~PresentIn(p, a) THEN <<>>
  ELSE IF a.kind = "global" THEN <<p.globals[a.id]>>
  ELSE Append(p.functions[a.id + 1].parameters, p.functions[a.id + 1].body)
SourceIn(p, a) == Preorders(PartsIn(p, a))

\* The state's view of an item is that of its program.
LEMMA InCurrent ==
  ASSUME NEW a \in ItemName
  PROVE  Source(a) = SourceIn(program, a) /\ (Present(a) <=> PresentIn(program, a))
<1>1. a.kind = "function" \/ (a.kind = "global" /\ a.kind # "function")
  BY DEF ItemName
<1>2. Present(a) <=> PresentIn(program, a)
  BY DEF Present, PresentIn, HasFunction, HasGlobal
<1>3. Parts(a) = PartsIn(program, a)
  BY <1>1 DEF Parts, PartsIn, PresentIn, HasFunction, HasGlobal, FunctionById
<1> QED BY <1>2, <1>3 DEF Source, SourceIn

\* An item's parts are expressions.
LEMMA PartsType ==
  ASSUME NEW p, IsProgram(p), NEW a \in ItemName
  PROVE  PartsIn(p, a) \in Seq(Expr) /\ SourceIn(p, a) \in Seq(Expr)
<1>1. <<>> \in Seq(Expr)
  OBVIOUS
<1>2. ASSUME a.kind = "function", PresentIn(p, a)
      PROVE  PartsIn(p, a) \in Seq(Expr)
  <2>1. p.functions[a.id + 1] \in FunctionEntry
    BY <1>2 DEF IsProgram, PresentIn
  <2> PICK ps \in Seq(Expr), b \in Expr :
        ps = p.functions[a.id + 1].parameters /\ b = p.functions[a.id + 1].body
    BY <2>1 DEF FunctionEntry
  <2>2. Append(ps, b) \in Seq(Expr)
    OBVIOUS
  <2> QED BY <1>2, <2>2 DEF PartsIn
<1>3. ASSUME a.kind = "global", PresentIn(p, a)
      PROVE  PartsIn(p, a) \in Seq(Expr)
  <2>1. p.globals[a.id] \in Expr
    BY <1>3 DEF IsProgram, PresentIn
  <2> PICK g \in Expr : g = p.globals[a.id]
    BY <2>1
  <2>2. <<g>> \in Seq(Expr)
    OBVIOUS
  <2> QED BY <1>3, <2>2 DEF PartsIn
<1>4. PartsIn(p, a) \in Seq(Expr)
  BY <1>1, <1>2, <1>3 DEF PartsIn, ItemName
<1> QED BY <1>4, PreorderTree DEF SourceIn

\* A renamed program has the renamed items, and no others.
LEMMA RenamedPresent ==
  ASSUME NEW r \in Renaming, NEW p, IsProgram(p), Fits(r, p), NEW a, HasNewId(r, a)
  PROVE  PresentIn(Renamed(r, p), Ren(r, a)) <=> PresentIn(p, a)
<1> PICK q, b : q = Renamed(r, p) /\ b = Ren(r, a)
  OBVIOUS
<1>1. /\ OneToOne(r.function) /\ OneToOne(r.global) /\ a \in ItemName
  BY RenamingAssumption DEF HasNewId
<1>2. /\ DOMAIN q.functions = DOMAIN p.functions
      /\ DOMAIN q.globals = DOMAIN p.globals
      /\ \A i \in DOMAIN p.functions : q.functions[i].id = i - 1
      /\ \A i \in DOMAIN p.functions : r.function[p.functions[i].id] + 1 \in DOMAIN p.functions
      /\ \A k \in DOMAIN p.globals : r.global[k] \in DOMAIN p.globals
  BY Renames
<1>3. /\ \A i \in DOMAIN p.functions : p.functions[i].id = i - 1 /\ p.functions[i].id \in DOMAIN r.function
      /\ {r.function[p.functions[i].id] : i \in DOMAIN p.functions}
           = {p.functions[i].id : i \in DOMAIN p.functions}
      /\ DOMAIN p.globals \subseteq DOMAIN r.global
      /\ {r.global[k] : k \in DOMAIN p.globals} = DOMAIN p.globals
  BY DEF Fits
<1>4. \A i \in DOMAIN p.functions : i \in Nat
  BY DEF IsProgram
<1>5. CASE a.kind = "function"
  <2>1. a.id \in DOMAIN r.function /\ b.id = r.function[a.id] /\ b.kind = "function"
    BY <1>5 DEF HasNewId, Ren, NewIds, Id
  <2>2. a.id \in Nat /\ b.id \in Nat
    BY <1>1, <2>1 DEF OneToOne, ItemName
  <2>3. ASSUME PresentIn(p, a) PROVE PresentIn(q, b)
    <3>1. a.id + 1 \in DOMAIN p.functions /\ p.functions[a.id + 1].id = a.id
      BY <1>5, <2>3 DEF PresentIn
    <3>2. b.id + 1 \in DOMAIN p.functions
      BY <3>1, <2>1, <1>2
    <3>3. q.functions[b.id + 1].id = b.id
      BY <3>2, <2>2, <1>2
    <3> QED BY <3>2, <3>3, <2>1, <1>2 DEF PresentIn
  <2>4. ASSUME PresentIn(q, b) PROVE PresentIn(p, a)
    <3>1. b.id + 1 \in DOMAIN p.functions
      BY <2>1, <2>4, <1>2 DEF PresentIn
    <3>2. p.functions[b.id + 1].id = b.id
      BY <3>1, <2>2, <1>3
    <3>3. PICK i \in DOMAIN p.functions : r.function[p.functions[i].id] = b.id
      <4>1. b.id \in {p.functions[i].id : i \in DOMAIN p.functions}
        BY ONLY <3>1, <3>2
      <4>2. b.id \in {r.function[p.functions[i].id] : i \in DOMAIN p.functions}
        BY ONLY <4>1, <1>3
      <4> QED BY ONLY <4>2
    <3>4. p.functions[i].id = a.id
      <4>1. p.functions[i].id \in DOMAIN r.function /\ r.function[p.functions[i].id] = r.function[a.id]
        <5>1. p.functions[i].id \in DOMAIN r.function
          BY ONLY <1>3, i \in DOMAIN p.functions
        <5> QED BY ONLY <5>1, <3>3, <2>1
      <4> QED BY ONLY <4>1, <2>1, <1>1 DEF OneToOne
    <3>5. i = a.id + 1
      BY <3>4, <1>3, <1>4, <2>2
    <3> QED BY <3>4, <3>5, <1>5 DEF PresentIn
  <2> QED BY <2>3, <2>4
<1>6. CASE a.kind # "function"
  <2>1. a.id \in DOMAIN r.global /\ b.id = r.global[a.id] /\ b.kind # "function"
    BY <1>6 DEF HasNewId, Ren, NewIds, Id
  <2>2. ASSUME b.id \in DOMAIN p.globals PROVE a.id \in DOMAIN p.globals
    <3>1. PICK k \in DOMAIN p.globals : r.global[k] = b.id
      BY <2>2, <1>3
    <3>2. k = a.id
      BY <3>1, <2>1, <1>1, <1>3 DEF OneToOne
    <3> QED BY <3>2
  <2>3. b.id \in DOMAIN p.globals <=> a.id \in DOMAIN p.globals
    BY <2>1, <2>2, <1>2
  <2> QED BY <2>1, <2>3, <1>2, <1>6 DEF PresentIn
<1> QED BY <1>5, <1>6

\* The text of a renamed item is the item's, renamed.
LEMMA RenamedSource ==
  ASSUME NEW r \in Renaming, NEW p, IsProgram(p), Fits(r, p), NEW a, HasNewId(r, a)
  PROVE  SourceIn(Renamed(r, p), Ren(r, a)) = Mapped(r, SourceIn(p, a))
<1> PICK q, b : q = Renamed(r, p) /\ b = Ren(r, a)
  OBVIOUS
<1>1. a \in ItemName /\ (PresentIn(q, b) <=> PresentIn(p, a))
  BY RenamedPresent DEF HasNewId
<1>2. b.kind = a.kind
  BY RenOneToOne
<1>3. PartsIn(q, b) = Mapped(r, PartsIn(p, a))
  <2>1. CASE ~PresentIn(p, a)
    <3>1. PartsIn(q, b) = <<>> /\ PartsIn(p, a) = <<>>
      BY <2>1, <1>1 DEF PartsIn
    <3>2. Mapped(r, <<>>) = <<>>
      BY DEF Mapped
    <3> QED BY <3>1, <3>2
  <2>2. CASE PresentIn(p, a) /\ a.kind = "function"
    <3>1. /\ a.id + 1 \in DOMAIN p.functions /\ p.functions[a.id + 1].id = a.id
          /\ b.id = r.function[a.id]
      BY <2>2 DEF PresentIn, Ren, NewIds, Id
    <3> PICK f : f = p.functions[a.id + 1]
      OBVIOUS
    <3>2. q.functions[b.id + 1] = RenamedFunction(r, f)
      BY <3>1, Renames
    <3>3. f \in FunctionEntry
      BY <3>1 DEF IsProgram
    <3> PICK ps \in Seq(Expr), e \in Expr : ps = f.parameters /\ e = f.body
      BY <3>3 DEF FunctionEntry
    <3>4. PartsIn(q, b) = Append(Mapped(r, ps), r.expr[e])
      <4>1. /\ RenamedFunction(r, f).parameters = Mapped(r, ps)
            /\ RenamedFunction(r, f).body = r.expr[e]
        BY DEF RenamedFunction, Mapped
      <4>2. PresentIn(q, b) /\ b.kind = "function"
        BY <1>1, <1>2, <2>2
      <4> QED BY <3>2, <4>1, <4>2 DEF PartsIn
    <3>5. PartsIn(p, a) = Append(ps, e)
      BY <2>2 DEF PartsIn
    <3>6. Append(Mapped(r, ps), r.expr[e]) = Mapped(r, Append(ps, e))
      <4>0. <<e>> \in Seq(Expr)
        OBVIOUS
      <4> PICK y \in Seq(Expr) : y = <<e>>
        BY <4>0
      <4>1. Mapped(r, ps \o y) = Mapped(r, ps) \o Mapped(r, y)
        BY MappedConcat
      <4>2. Mapped(r, y) = <<r.expr[e]>>
        <5>1. Len(y) = 1 /\ 1 \in DOMAIN y /\ y[1] = e
          OBVIOUS
        <5>2. Mapped(r, y) \in Seq(Expr) /\ Len(Mapped(r, y)) = 1 /\ Mapped(r, y)[1] = r.expr[e]
          BY <5>1, MappedType
        <5> QED BY <5>2
      <4>3. Append(ps, e) = ps \o y
        BY AppendIsConcat
      <4>4. r.expr[e] \in Expr /\ Mapped(r, ps) \in Seq(Expr)
        BY MappedType, RenamedNames
      <4>5. Append(Mapped(r, ps), r.expr[e]) = Mapped(r, ps) \o <<r.expr[e]>>
        <5> PICK ms \in Seq(Expr), d \in Expr : ms = Mapped(r, ps) /\ d = r.expr[e]
          BY <4>4
        <5> QED BY AppendIsConcat
      <4> QED BY <4>1, <4>2, <4>3, <4>5
    <3> QED BY <3>4, <3>5, <3>6
  <2>3. CASE PresentIn(p, a) /\ a.kind # "function"
    <3>1. a.kind = "global" /\ a.id \in DOMAIN p.globals /\ b.id = r.global[a.id]
      BY <2>3, <1>1 DEF PresentIn, Ren, NewIds, Id, ItemName
    <3>2. q.globals[b.id] = r.expr[p.globals[a.id]]
      BY <3>1, Renames
    <3>3. p.globals[a.id] \in Expr
      BY <3>1 DEF IsProgram
    <3> PICK e \in Expr : e = p.globals[a.id]
      BY <3>3
    <3>4. PartsIn(q, b) = <<r.expr[e]>> /\ PartsIn(p, a) = <<e>>
      BY <3>1, <3>2, <1>1, <1>2, <2>3 DEF PartsIn
    <3>0. <<e>> \in Seq(Expr)
      OBVIOUS
    <3> PICK y \in Seq(Expr) : y = <<e>>
      BY <3>0
    <3>5. Mapped(r, y) = <<r.expr[e]>>
      <4>1. Len(y) = 1 /\ 1 \in DOMAIN y /\ y[1] = e
        OBVIOUS
      <4>2. Mapped(r, y) \in Seq(Expr) /\ Len(Mapped(r, y)) = 1 /\ Mapped(r, y)[1] = r.expr[e]
        BY <4>1, MappedType
      <4> QED BY <4>2
    <3> QED BY <3>4, <3>5
  <2> QED BY <2>1, <2>2, <2>3
<1>4. PartsIn(p, a) \in Seq(Expr)
  BY <1>1, PartsType
<1>5. \A i \in DOMAIN PartsIn(p, a) : Alike(r, PartsIn(p, a)[i])
  <2> PICK s \in Seq(Expr) : s = PartsIn(p, a)
    BY <1>4
  <2>1. \A i \in DOMAIN s : s[i] \in Expr
    OBVIOUS
  <2> QED BY <2>1, MappedPreorder
<1>6. Preorders(Mapped(r, PartsIn(p, a))) = Mapped(r, Preorders(PartsIn(p, a)))
  BY <1>4, <1>5, MappedPreorders
<1> QED BY <1>3, <1>6 DEF SourceIn

-----------------------------------------------------------------------------
\* Locals have the same numbers, whatever their ids.
LEMMA MappedLocals ==
  ASSUME NEW r \in Renaming, NEW s \in Seq(Expr), NEW k \in DOMAIN s, s[k].name.kind = "local"
  PROVE  LocalNumber(Mapped(r, s), Mapped(r, s)[k].name.id) = LocalNumber(s, s[k].name.id)
<1> DEFINE id == s[k].name.id
           Same == {j \in DOMAIN s : s[j].name.kind = "local" /\ s[j].name.id = id}
<1>1. DOMAIN s \subseteq Nat /\ \A j \in DOMAIN s : s[j] \in Expr
  OBVIOUS
<1>2. Same \in SUBSET Nat /\ Same # {}
  BY <1>1
<1>3. PICK f \in Same : \A j \in Same : f <= j
  <2> HIDE DEF Same
  <2> QED BY <1>2, LeastNat
<1>4. f \in DOMAIN s /\ s[f].name.kind = "local" /\ s[f].name.id = id
  OBVIOUS
<1>5. ASSUME NEW j \in DOMAIN s, j < f, s[j].name.kind = "local"
      PROVE  s[j].name.id # id
  <2> SUFFICES ASSUME s[j].name.id = id PROVE FALSE
    OBVIOUS
  <2>1. f <= j /\ f \in Nat /\ j \in Nat
    BY <1>1, <1>3, <1>5
  <2> QED BY <1>5, <2>1
<1> PICK t \in Seq(Expr) : t = Mapped(r, s)
  BY MappedType
<1>6. /\ DOMAIN t = DOMAIN s
      /\ \A j \in DOMAIN s : /\ t[j] = r.expr[s[j]] /\ t[j].name.kind = s[j].name.kind
                             /\ s[j].name.kind = "local" => /\ s[j].name.id \in DOMAIN r.local
                                                            /\ t[j].name.id = r.local[s[j].name.id]
  <2>1. DOMAIN t = DOMAIN s /\ \A j \in DOMAIN s : t[j] = r.expr[s[j]]
    BY MappedType
  <2> QED BY <1>1, <2>1, RenamedNames
<1>7. OneToOne(r.local)
  BY RenamingAssumption
<1>8. t[f].name.id = r.local[id] /\ t[k].name.id = r.local[id] /\ id \in DOMAIN r.local
  BY <1>4, <1>6
<1>9. ASSUME NEW j \in DOMAIN t, j < f, t[j].name.kind = "local"
      PROVE  t[j].name.id # t[f].name.id
  <2>1. s[j].name.id # id /\ s[j].name.id \in DOMAIN r.local /\ t[j].name.id = r.local[s[j].name.id]
    BY <1>5, <1>6, <1>9
  <2> QED BY <2>1, <1>7, <1>8 DEF OneToOne
<1> DEFINE Of(u) == {u[j].name.id : j \in {i \in DOMAIN u : u[i].name.kind = "local" /\ i < f}}
<1>10. LocalNumber(s, id) = Cardinality(Of(s))
  <2>1. LocalNumber(s, s[f].name.id) = Cardinality(Of(s))
    BY <1>4, <1>5, LocalFirst
  <2> QED BY <2>1, <1>4
<1>11. LocalNumber(t, t[k].name.id) = Cardinality(Of(t))
  <2>1. f \in DOMAIN t /\ t[f].name.kind = "local"
    BY <1>4, <1>6
  <2>2. LocalNumber(t, t[f].name.id) = Cardinality(Of(t))
    BY <2>1, <1>9, LocalFirst
  <2> QED BY <2>2, <1>8
<1>12. IsFiniteSet(Of(s))
  <2> DEFINE Idx == {i \in DOMAIN s : s[i].name.kind = "local" /\ i < f}
             g == [j \in Idx |-> s[j].name.id]
  <2>1. IsFiniteSet(DOMAIN s)
    <3>1. DOMAIN s = 1 .. Len(s) /\ Len(s) \in Nat
      OBVIOUS
    <3> QED BY <3>1, FS_Interval
  <2>2. IsFiniteSet(Idx)
    BY <2>1, FS_Subset
  <2>3. g \in Surjection(Idx, Of(s))
    BY DEF Surjection
  <2> HIDE DEF Idx, g, Of
  <2> QED BY <2>2, <2>3, FS_Surjection
<1>13. ExistsBijection(Of(s), Of(t))
  <2> DEFINE g == [x \in Of(s) |-> r.local[x]]
  <2>0. ASSUME NEW x \in Of(s) PROVE x \in DOMAIN r.local /\ g[x] \in Of(t)
    <3>1. PICK j \in DOMAIN s : s[j].name.kind = "local" /\ j < f /\ x = s[j].name.id
      OBVIOUS
    <3>2. j \in DOMAIN t /\ t[j].name.kind = "local" /\ x \in DOMAIN r.local
          /\ t[j].name.id = r.local[x]
      BY <1>6, <3>1
    <3>3. g[x] = r.local[x]
      OBVIOUS
    <3> QED BY ONLY <3>1, <3>2, <3>3
  <2>1. Of(s) \subseteq DOMAIN r.local /\ \A x \in Of(s) : g[x] \in Of(t)
    BY <2>0
  <2>2. g \in [Of(s) -> Of(t)]
    BY <2>1
  <2>3. \A y \in Of(t) : \E x \in Of(s) : g[x] = y
    BY <1>6
  <2>4. \A x, y \in Of(s) : g[x] = g[y] => x = y
    BY <2>1, <1>7 DEF OneToOne
  <2> HIDE DEF Of, g
  <2>5. g \in Bijection(Of(s), Of(t))
    BY <2>2, <2>3, <2>4 DEF Bijection, Injection, IsInjective, Surjection
  <2> QED BY <2>5 DEF ExistsBijection
<1>14. Cardinality(Of(t)) = Cardinality(Of(s))
  <2> HIDE DEF Of
  <2> QED BY <1>12, <1>13, FS_Bijection
<1> QED BY <1>10, <1>11, <1>14

-----------------------------------------------------------------------------
\* Both compilations list the same items in the same order.
LEMMA ItemsAt ==
  ASSUME NEW p, IsProgram(p), \A i \in DOMAIN p.functions : p.functions[i].id = i - 1
  PROVE  \E n, m \in Nat :
           /\ n = Len(p.functions) /\ m = Len(p.keys)
           /\ ItemSeq(p) \in Seq(ItemName) /\ Len(ItemSeq(p)) = n + m
           /\ \A b \in 1 .. n : ItemSeq(p)[b] = Id("function", b - 1)
           /\ \A b \in n + 1 .. n + m : b - n \in 1 .. m /\ ItemSeq(p)[b] = Id("global", p.keys[b - n])
<1>1. p.functions \in Seq(FunctionEntry) /\ p.keys \in Seq(Nat)
  BY DEF IsProgram
<1>n. PICK n \in Nat, m \in Nat : n = Len(p.functions) /\ m = Len(p.keys)
  BY <1>1
<1>2. DOMAIN p.functions = 1 .. n /\ DOMAIN p.keys = 1 .. m /\ \A i \in 1 .. m : p.keys[i] \in Nat
  BY <1>1, <1>n
<1> DEFINE fs == [i \in 1 .. n |-> Id("function", i - 1)]
           gs == [i \in 1 .. m |-> Id("global", p.keys[i])]
<1>3. ItemSeq(p) = fs \o gs
  <2>1. [i \in DOMAIN p.functions |-> Id("function", p.functions[i].id)] = fs
    BY <1>2
  <2>2. [i \in DOMAIN p.keys |-> Id("global", p.keys[i])] = gs
    BY <1>2
  <2> QED BY <2>1, <2>2 DEF ItemSeq
<1>4. fs \in Seq(ItemName) /\ Len(fs) = n /\ \A i \in 1 .. n : fs[i] = Id("function", i - 1)
  <2>1. \A i \in 1 .. n : Id("function", i - 1) \in ItemName
    BY DEF Id, ItemName
  <2> QED BY <2>1
<1>5. gs \in Seq(ItemName) /\ Len(gs) = m /\ \A i \in 1 .. m : gs[i] = Id("global", p.keys[i])
  <2>1. \A i \in 1 .. m : Id("global", p.keys[i]) \in ItemName
    BY <1>2 DEF Id, ItemName
  <2> QED BY <2>1
<1> HIDE DEF fs, gs
<1>a. PICK a \in Seq(ItemName), b \in Seq(ItemName) : a = fs /\ b = gs
  BY <1>4, <1>5
<1>6. /\ a \o b \in Seq(ItemName) /\ Len(a \o b) = n + m
      /\ \A i \in 1 .. n : (a \o b)[i] = a[i]
      /\ \A i \in n + 1 .. n + m : i - n \in 1 .. m /\ (a \o b)[i] = b[i - n]
  <2>1. Len(a) = n /\ Len(b) = m
    BY <1>4, <1>5, <1>a
  <2>2. /\ a \o b \in Seq(ItemName) /\ Len(a \o b) = Len(a) + Len(b)
        /\ \A i \in 1 .. Len(a) + Len(b) : (a \o b)[i] = IF i <= Len(a) THEN a[i] ELSE b[i - Len(a)]
    BY ConcatProperties
  <2>3. \A i \in 1 .. n : i \in 1 .. n + m /\ i <= n
    OBVIOUS
  <2>4. \A i \in n + 1 .. n + m : i \in 1 .. n + m /\ ~(i <= n) /\ i - n \in 1 .. m
    OBVIOUS
  <2> QED BY <2>1, <2>2, <2>3, <2>4
<1> QED BY <1>3, <1>4, <1>5, <1>6, <1>a, <1>n

\* A renamed program lists its items in the same order of ids: the new ids of
\* the listed items are those of the listed items.
LEMMA SameList ==
  ASSUME NEW r \in Renaming, NEW p, IsProgram(p), Fits(r, p)
  PROVE  /\ ItemSeq(Renamed(r, p)) = ItemSeq(p)
         /\ \A b \in DOMAIN ItemSeq(p) :
              /\ HasNewId(r, ItemSeq(p)[b])
              /\ \E c \in DOMAIN ItemSeq(p) : ItemSeq(p)[c] = Ren(r, ItemSeq(p)[b])
              /\ \E c \in DOMAIN ItemSeq(p) : ItemSeq(p)[b] = Ren(r, ItemSeq(p)[c])
         /\ \A b, c \in DOMAIN ItemSeq(p) :
              /\ b \in Nat /\ ItemSeq(p)[b].id \in Nat
              /\ ItemSeq(p)[b].kind = ItemSeq(p)[c].kind =>
                   (ItemSeq(p)[b].id < ItemSeq(p)[c].id <=> b < c)
<1>1. /\ \A i \in DOMAIN p.functions : p.functions[i].id = i - 1
      /\ {r.function[p.functions[i].id] : i \in DOMAIN p.functions}
           = {p.functions[i].id : i \in DOMAIN p.functions}
      /\ {p.functions[i].id : i \in DOMAIN p.functions} \subseteq DOMAIN r.function
      /\ DOMAIN p.globals \subseteq DOMAIN r.global
      /\ {r.global[k] : k \in DOMAIN p.globals} = DOMAIN p.globals
  BY DEF Fits
<1>s. PICK S : S = ItemSeq(p)
  OBVIOUS
<1>n. PICK n \in Nat, m \in Nat :
      /\ n = Len(p.functions) /\ m = Len(p.keys)
      /\ S \in Seq(ItemName) /\ Len(S) = n + m
      /\ \A b \in 1 .. n : S[b] = Id("function", b - 1)
      /\ \A b \in n + 1 .. n + m : b - n \in 1 .. m /\ S[b] = Id("global", p.keys[b - n])
  BY <1>1, <1>s, ItemsAt
<1>m. /\ S \in Seq(ItemName) /\ Len(S) = n + m
      /\ \A b \in 1 .. n : S[b] = Id("function", b - 1)
      /\ \A b \in n + 1 .. n + m : b - n \in 1 .. m /\ S[b] = Id("global", p.keys[b - n])
  BY <1>n
<1>f. /\ \A k \in DOMAIN r.function : /\ HasNewId(r, Id("function", k))
                                     /\ Ren(r, Id("function", k)) = Id("function", r.function[k])
      /\ \A k \in DOMAIN r.global : /\ HasNewId(r, Id("global", k))
                                   /\ Ren(r, Id("global", k)) = Id("global", r.global[k])
  <2>1. DOMAIN r.function \subseteq Nat /\ DOMAIN r.global \subseteq Nat
    BY RenamingAssumption DEF OneToOne
  <2> QED BY <2>1 DEF HasNewId, Ren, NewIds, Id, ItemName
<1>2. /\ DOMAIN p.functions = 1 .. n /\ DOMAIN p.keys = 1 .. m
      /\ \A i, j \in 1 .. m : i < j => p.keys[i] < p.keys[j]
      /\ \A i \in 1 .. m : p.keys[i] \in Nat
      /\ DOMAIN p.globals = {p.keys[i] : i \in 1 .. m}
  <2>1. /\ DOMAIN p.functions = 1 .. Len(p.functions) /\ DOMAIN p.keys = 1 .. Len(p.keys)
        /\ \A i, j \in DOMAIN p.keys : i < j => p.keys[i] < p.keys[j]
        /\ \A i \in DOMAIN p.keys : p.keys[i] \in Nat
        /\ DOMAIN p.globals = {p.keys[i] : i \in DOMAIN p.keys}
    BY DEF IsProgram
  <2>2. n = Len(p.functions) /\ m = Len(p.keys)
    BY ONLY <1>n
  <2> QED BY ONLY <2>1, <2>2
<1>3. ItemSeq(Renamed(r, p)) = S
  <2> PICK q : q = Renamed(r, p)
    OBVIOUS
  <2>1. /\ DOMAIN q.functions = DOMAIN p.functions /\ q.keys = p.keys
        /\ \A i \in DOMAIN p.functions : q.functions[i].id = i - 1
    BY Renames
  <2>2. [i \in DOMAIN q.functions |-> Id("function", q.functions[i].id)]
          = [i \in DOMAIN p.functions |-> Id("function", p.functions[i].id)]
    BY <1>1, <2>1
  <2> QED BY <1>s, <2>1, <2>2 DEF ItemSeq
<1>4. /\ DOMAIN S = 1 .. n + m /\ \A b \in DOMAIN S : b \in 1 .. n \/ b \in n + 1 .. n + m
      /\ 1 .. n \subseteq DOMAIN S /\ n + 1 .. n + m \subseteq DOMAIN S
      /\ \A b \in DOMAIN S : S[b] \in ItemName
  <2>1. DOMAIN S = 1 .. n + m /\ \A b \in DOMAIN S : S[b] \in ItemName
    BY <1>m
  <2>2. \A b \in 1 .. n + m : b \in 1 .. n \/ b \in n + 1 .. n + m
    OBVIOUS
  <2>3. 1 .. n \subseteq 1 .. n + m /\ n + 1 .. n + m \subseteq 1 .. n + m
    OBVIOUS
  <2> QED BY <2>1, <2>2, <2>3
<1>5. ASSUME NEW b \in 1 .. n
      PROVE  /\ HasNewId(r, S[b])
             /\ \E c \in 1 .. n : S[c] = Ren(r, S[b])
             /\ \E c \in 1 .. n : S[b] = Ren(r, S[c])
  <2>1. \A c \in 1 .. n : /\ p.functions[c].id = c - 1 /\ c - 1 \in DOMAIN r.function
                          /\ S[c] = Id("function", c - 1)
    BY <1>1, <1>2, <1>m
  <2>a. b \in DOMAIN p.functions
    BY <1>2
  <2>b. {r.function[p.functions[i].id] : i \in DOMAIN p.functions}
          = {p.functions[i].id : i \in DOMAIN p.functions}
    BY <1>1
  <2>2. PICK c \in 1 .. n : r.function[p.functions[b].id] = p.functions[c].id
    <3>1. r.function[p.functions[b].id] \in {p.functions[i].id : i \in DOMAIN p.functions}
      BY <2>a, <2>b
    <3> QED BY <3>1, <1>2
  <2>3. PICK d \in 1 .. n : r.function[p.functions[d].id] = p.functions[b].id
    <3>1. p.functions[b].id \in {r.function[p.functions[i].id] : i \in DOMAIN p.functions}
      BY <2>a, <2>b
    <3> QED BY <3>1, <1>2
  <2>4. /\ HasNewId(r, S[b]) /\ Ren(r, S[b]) = Id("function", r.function[b - 1])
        /\ Ren(r, S[d]) = Id("function", r.function[d - 1])
    BY <2>1, <1>f
  <2>5. r.function[b - 1] = c - 1 /\ r.function[d - 1] = b - 1
    BY <2>1, <2>2, <2>3
  <2> QED BY <2>1, <2>4, <2>5
<1>6. ASSUME NEW b \in n + 1 .. n + m
      PROVE  /\ HasNewId(r, S[b])
             /\ \E c \in n + 1 .. n + m : S[c] = Ren(r, S[b])
             /\ \E c \in n + 1 .. n + m : S[b] = Ren(r, S[c])
  <2>1. ASSUME NEW i \in 1 .. m
        PROVE  /\ i + n \in n + 1 .. n + m /\ S[i + n] = Id("global", p.keys[i])
               /\ p.keys[i] \in DOMAIN r.global /\ p.keys[i] \in DOMAIN p.globals
    <3>1. i + n \in n + 1 .. n + m /\ (i + n) - n = i
      OBVIOUS
    <3>2. S[i + n] = Id("global", p.keys[(i + n) - n])
      BY <3>1, <1>m
    <3>3. p.keys[i] \in DOMAIN r.global /\ p.keys[i] \in DOMAIN p.globals
      BY <1>1, <1>2
    <3> QED BY <3>1, <3>2, <3>3
  <2>2. PICK i \in 1 .. m : S[b] = Id("global", p.keys[i])
    BY <1>m
  <2>3. PICK c \in 1 .. m : r.global[p.keys[i]] = p.keys[c]
    <3>1. r.global[p.keys[i]] \in DOMAIN p.globals
      BY <2>1, <1>1
    <3> QED BY <3>1, <1>2
  <2>4. PICK d \in 1 .. m : r.global[p.keys[d]] = p.keys[i]
    <3>1. PICK k \in DOMAIN p.globals : r.global[k] = p.keys[i]
      BY <2>1, <1>1
    <3> QED BY <3>1, <1>2
  <2>5. /\ HasNewId(r, S[b]) /\ Ren(r, S[b]) = Id("global", r.global[p.keys[i]])
        /\ Ren(r, S[d + n]) = Id("global", r.global[p.keys[d]])
    BY <2>1, <2>2, <1>f
  <2>6. S[c + n] = Ren(r, S[b]) /\ S[b] = Ren(r, S[d + n])
    BY <2>1, <2>2, <2>3, <2>4, <2>5
  <2> QED BY <2>1, <2>5, <2>6
<1>7. \A b \in DOMAIN S :
        /\ HasNewId(r, S[b])
        /\ \E c \in DOMAIN S : S[c] = Ren(r, S[b])
        /\ \E c \in DOMAIN S : S[b] = Ren(r, S[c])
  <2> SUFFICES ASSUME NEW b \in DOMAIN S
               PROVE  /\ HasNewId(r, S[b])
                      /\ \E c \in DOMAIN S : S[c] = Ren(r, S[b])
                      /\ \E c \in DOMAIN S : S[b] = Ren(r, S[c])
    OBVIOUS
  <2>1. 1 .. n \subseteq DOMAIN S /\ n + 1 .. n + m \subseteq DOMAIN S
    BY ONLY <1>4
  <2>2. CASE b \in 1 .. n
    BY ONLY <1>5, <2>1, <2>2
  <2>3. CASE b \in n + 1 .. n + m
    BY ONLY <1>6, <2>1, <2>3
  <2> QED BY ONLY <1>4, <2>2, <2>3, b \in DOMAIN S
<1>8. ASSUME NEW b \in DOMAIN S, NEW c \in DOMAIN S
      PROVE  /\ b \in Nat /\ S[b].id \in Nat
             /\ S[b].kind = S[c].kind => (S[b].id < S[c].id <=> b < c)
  <2>1. b \in Nat /\ c \in Nat
    BY <1>4
  <2>2. S[b] \in ItemName /\ S[c] \in ItemName
    BY <1>4
  <2>3. CASE b \in 1 .. n /\ c \in 1 .. n
    <3>1. S[b] = Id("function", b - 1) /\ S[c] = Id("function", c - 1)
      BY <2>3, <1>m
    <3>2. S[b].id = b - 1 /\ S[c].id = c - 1
      BY <3>1 DEF Id
    <3>3. S[b].id \in Nat
      BY <2>2 DEF ItemName
    <3> QED BY <2>1, <2>3, <3>2, <3>3
  <2>4. CASE b \in n + 1 .. n + m /\ c \in n + 1 .. n + m
    <3>0. /\ b - n \in 1 .. m /\ S[b] = Id("global", p.keys[b - n])
          /\ c - n \in 1 .. m /\ S[c] = Id("global", p.keys[c - n])
      BY <2>4, <1>m
    <3>1. S[b].id = p.keys[b - n] /\ S[c].id = p.keys[c - n] /\ b - n \in 1 .. m /\ c - n \in 1 .. m
      BY <3>0 DEF Id
    <3>2. \A i, j \in 1 .. m : p.keys[i] < p.keys[j] <=> i < j
      <4> SUFFICES ASSUME NEW i \in 1 .. m, NEW j \in 1 .. m, p.keys[i] < p.keys[j], ~(i < j)
                   PROVE  FALSE
        BY <1>2
      <4>1. i = j \/ j < i
        OBVIOUS
      <4>2. p.keys[i] \in Nat /\ p.keys[j] \in Nat
        BY <1>2
      <4> QED BY <4>1, <4>2, <1>2
    <3>3. b - n < c - n <=> b < c
      BY <2>1
    <3> QED BY <2>1, <2>2, <3>1, <3>2, <3>3 DEF ItemName
  <2>5. CASE S[b].kind # S[c].kind
    BY <2>1, <2>2, <2>5 DEF ItemName
  <2>6. \A d \in DOMAIN S : (S[d].kind = "function" => d \in 1 .. n)
                            /\ (S[d].kind = "global" => d \in n + 1 .. n + m)
    <3>1. \A d \in 1 .. n : S[d].kind = "function"
      <4> SUFFICES ASSUME NEW d \in 1 .. n PROVE S[d].kind = "function"
        OBVIOUS
      <4>1. S[d] = Id("function", d - 1)
        BY <1>m
      <4> QED BY <4>1 DEF Id
    <3>2. \A d \in n + 1 .. n + m : S[d].kind = "global"
      <4> SUFFICES ASSUME NEW d \in n + 1 .. n + m PROVE S[d].kind = "global"
        OBVIOUS
      <4>1. S[d] = Id("global", p.keys[d - n])
        BY <1>m
      <4> QED BY <4>1 DEF Id
    <3>3. "function" # "global"
      OBVIOUS
    <3> QED BY <3>1, <3>2, <3>3, <1>4
  <2> QED BY <2>2, <2>3, <2>4, <2>5, <2>6 DEF ItemName
<1> QED BY <1>3, <1>7, <1>8, <1>s

-----------------------------------------------------------------------------
\* What a finished text says, without the state that wrote it: T is the text of
\* program p whose items have the numbers N.
ReadsIn(N, s, k) ==
  LET e == s[k] IN
    [form |-> e.form, kind |-> e.name.kind, parts |-> Len(e.parts),
     n |-> CASE e.name.kind \in {"function", "global"} -> N[e.name]
             [] e.name.kind = "local" -> LocalNumber(s, e.name.id)
             [] OTHER -> e.name.id]

OwnerIn(N, T, i, a) == a \in DOMAIN N /\ T[i].kind = a.kind /\ T[i].n = N[a]
ReachedIn(N, T)     == {a \in DOMAIN N : \E i \in DOMAIN T : T[i].reached /\ OwnerIn(N, T, i, a)}

Numbering(N) ==
  /\ \A a \in DOMAIN N : a \in ItemName /\ N[a] \in Nat
  /\ \A a, b \in DOMAIN N : a.kind = b.kind /\ N[a] = N[b] => a = b
  /\ \A a \in DOMAIN N : \A m \in Nat :
       m < N[a] => \E b \in DOMAIN N : b.kind = a.kind /\ N[b] = m
  /\ MainId \in DOMAIN N /\ N[MainId] = 0

Reading(p, N, T) ==
  /\ \A i \in DOMAIN T : \E a \in DOMAIN N :
       /\ OwnerIn(N, T, i, a)
       /\ T[i].missing <=> ~PresentIn(p, a)
       /\ T[i].text = [k \in DOMAIN SourceIn(p, a) |-> ReadsIn(N, SourceIn(p, a), k)]
       /\ \A k \in DOMAIN SourceIn(p, a) :
            SourceIn(p, a)[k].name.kind \in {"function", "global"} =>
              SourceIn(p, a)[k].name \in DOMAIN N
  /\ \A a \in DOMAIN N : \E i \in DOMAIN T : OwnerIn(N, T, i, a)

Marking(T) ==
  /\ \E i \in DOMAIN T : T[i].reached /\ T[i].kind = "function" /\ T[i].n = 0
  /\ \A i \in DOMAIN T : T[i].reached =>
       \A l \in DOMAIN T[i].text : T[i].text[l].kind \in {"function", "global"} =>
         \E j \in DOMAIN T : /\ T[j].reached /\ T[j].kind = T[i].text[l].kind
                             /\ T[j].n = T[i].text[l].n

Ordering(p, N, T) ==
  /\ \A i \in DOMAIN T : /\ EntryLaw(p, N, T, i)
                         /\ \A k \in DOMAIN T[i].text : TokenLaw(p, N, T, i, k)
  /\ ListLaw(p, N, ReachedIn(N, T))
  /\ \A b \in DOMAIN ItemSeq(p) : ItemSeq(p)[b] \in DOMAIN N
  /\ \A a \in DOMAIN N : \/ a = MainId
                         \/ Named(T, a.kind, N[a], Len(T) + 1, 1)
                         \/ \E b \in DOMAIN ItemSeq(p) : ItemSeq(p)[b] = a

Complete(p, N, T) ==
  /\ IsProgram(p) /\ T \in Seq(Entries) /\ Distinct(T)
  /\ Numbering(N) /\ Reading(p, N, T) /\ Marking(T) /\ Ordering(p, N, T)

\* Items that are not reached keep their order.
InOrder(r, N, T) ==
  \A a, b \in DOMAIN N :
    /\ a.kind = b.kind /\ a \notin ReachedIn(N, T) /\ b \notin ReachedIn(N, T) /\ a.id < b.id
    => Ren(r, a).id < Ren(r, b).id

\* Every item that is used or listed has a new id.
LEMMA CompleteNewIds ==
  ASSUME NEW r \in Renaming, NEW p, NEW N, NEW T, Complete(p, N, T), Fits(r, p), NEW a \in DOMAIN N
  PROVE  HasNewId(r, a)
<1>1. /\ a \in ItemName /\ IsProgram(p)
      /\ \A x, y \in DOMAIN N : x.kind = y.kind /\ N[x] = N[y] => x = y
  BY DEF Complete, Numbering
<1>2. CASE a = MainId
  BY <1>2, RenOneToOne
<1>3. CASE Named(T, a.kind, N[a], Len(T) + 1, 1)
  <2>1. PICK j \in DOMAIN T : \E l \in DOMAIN T[j].text :
          T[j].text[l].kind = a.kind /\ T[j].text[l].n = N[a]
    BY <1>3 DEF Named
  <2>2. PICK l \in DOMAIN T[j].text : T[j].text[l].kind = a.kind /\ T[j].text[l].n = N[a]
    BY <2>1
  <2>3. PICK o \in DOMAIN N :
          /\ T[j].text = [k \in DOMAIN SourceIn(p, o) |-> ReadsIn(N, SourceIn(p, o), k)]
          /\ \A k \in DOMAIN SourceIn(p, o) :
               SourceIn(p, o)[k].name.kind \in {"function", "global"} =>
                 SourceIn(p, o)[k].name \in DOMAIN N
    BY DEF Complete, Reading
  <2>4. SourceIn(p, o) \in Seq(Expr)
    BY <1>1, PartsType DEF Complete, Numbering
  <2> PICK s \in Seq(Expr) : s = SourceIn(p, o)
    BY <2>4
  <2>5. l \in DOMAIN s /\ T[j].text[l] = ReadsIn(N, s, l)
    BY <2>3
  <2>6. a.kind \in {"function", "global"}
    BY <1>1 DEF ItemName
  <2>7. s[l].name.kind = a.kind /\ T[j].text[l].n = N[s[l].name]
    BY <2>2, <2>5, <2>6 DEF ReadsIn
  <2>8. s[l].name = a
    BY <2>2, <2>3, <2>5, <2>6, <2>7, <1>1
  <2>9. s[l] \in Expr
    BY <2>5
  <2> QED BY <2>6, <2>8, <2>9, RenamedNames
<1>4. CASE \E b \in DOMAIN ItemSeq(p) : ItemSeq(p)[b] = a
  BY <1>1, <1>4, SameList
<1> QED BY <1>2, <1>3, <1>4 DEF Complete, Ordering

-----------------------------------------------------------------------------
\* The second compilation so far, beside the text of the first: its items are
\* the items of the first, under the same numbers, and its text begins it.
Coupled(r, p, N, T) ==
  /\ Complete(p, N, T) /\ Fits(r, p) /\ InOrder(r, N, T)
  /\ program = Renamed(r, p)
  /\ \A x \in DOMAIN Numbers : \E a \in DOMAIN N : x = Ren(r, a) /\ N[a] = Numbers[x]
  /\ Len(out) <= Len(T)
  /\ \A i \in DOMAIN out :
       /\ out[i].kind = T[i].kind /\ out[i].n = T[i].n
       /\ out[i].missing = T[i].missing /\ out[i].reached = T[i].reached
       /\ \A l \in DOMAIN out[i].text : l \in DOMAIN T[i].text /\ out[i].text[l] = T[i].text[l]

\* The items of the second compilation have the numbers their originals have.
LEMMA SameItem ==
  ASSUME IInv, NEW r \in Renaming, NEW p, NEW N, NEW T, Coupled(r, p, N, T), NEW a \in DOMAIN N
  PROVE  /\ HasNewId(r, a) /\ Ren(r, a) \in ItemName /\ Ren(r, a).kind = a.kind
         /\ Ren(r, a) \in DOMAIN Numbers => Numbers[Ren(r, a)] = N[a]
         /\ \A x \in DOMAIN Numbers : x.kind = a.kind /\ Numbers[x] = N[a] => x = Ren(r, a)
<1>1. Complete(p, N, T) /\ Fits(r, p)
  BY DEF Coupled
<1>2. \A b \in DOMAIN N : HasNewId(r, b)
  BY <1>1, CompleteNewIds
<1>3. \A b, c \in DOMAIN N : b.kind = c.kind /\ N[b] = N[c] => b = c
  BY <1>1 DEF Complete, Numbering
<1>4. ASSUME Ren(r, a) \in DOMAIN Numbers
      PROVE  Numbers[Ren(r, a)] = N[a]
  <2>1. PICK b \in DOMAIN N : Ren(r, a) = Ren(r, b) /\ N[b] = Numbers[Ren(r, a)]
    BY <1>4 DEF Coupled
  <2>2. a = b
    BY <2>1, <1>2, RenOneToOne
  <2> QED BY <2>1, <2>2
<1>5. ASSUME NEW x \in DOMAIN Numbers, x.kind = a.kind, Numbers[x] = N[a]
      PROVE  x = Ren(r, a)
  <2>1. PICK b \in DOMAIN N : x = Ren(r, b) /\ N[b] = Numbers[x]
    BY DEF Coupled
  <2>2. b.kind = a.kind
    BY <2>1, <1>2, <1>5, RenOneToOne
  <2> QED BY <2>1, <2>2, <1>3, <1>5
<1> QED BY <1>2, <1>4, <1>5, RenOneToOne

\* An entry is that of the original of its owner in the first text.
LEMMA SameOwner ==
  ASSUME IInv, TextInv, NEW r \in Renaming, NEW p, NEW N, NEW T, Coupled(r, p, N, T),
         NEW i \in DOMAIN out, NEW x \in ItemName, Owner(i, x)
  PROVE  \E a \in DOMAIN N :
           /\ x = Ren(r, a) /\ x \in DOMAIN Numbers /\ Numbers[x] = T[i].n
           /\ T[i].missing <=> ~PresentIn(p, a)
           /\ SourceIn(p, a) \in Seq(Expr) /\ Source(x) = Mapped(r, SourceIn(p, a))
           /\ T[i].text = [k \in DOMAIN SourceIn(p, a) |-> ReadsIn(N, SourceIn(p, a), k)]
           /\ \A k \in DOMAIN SourceIn(p, a) :
                SourceIn(p, a)[k].name.kind \in {"function", "global"} =>
                  SourceIn(p, a)[k].name \in DOMAIN N
<1>1. Complete(p, N, T) /\ Fits(r, p) /\ program = Renamed(r, p) /\ IsProgram(p)
  BY DEF Coupled, Complete
<1>2. x \in DOMAIN Numbers /\ out[i].kind = x.kind /\ out[i].n = Numbers[x]
  BY NumbersAre DEF Owner, IsEntryOf
<1>3. i \in DOMAIN T
  <2>1. out \in Seq(Entries) /\ T \in Seq(Entries) /\ Len(out) <= Len(T)
    BY DEF IInv, TypeOK, Coupled, Complete
  <2> QED BY <2>1
<1>4. PICK a \in DOMAIN N :
        /\ OwnerIn(N, T, i, a)
        /\ T[i].missing <=> ~PresentIn(p, a)
        /\ T[i].text = [k \in DOMAIN SourceIn(p, a) |-> ReadsIn(N, SourceIn(p, a), k)]
        /\ \A k \in DOMAIN SourceIn(p, a) :
             SourceIn(p, a)[k].name.kind \in {"function", "global"} =>
               SourceIn(p, a)[k].name \in DOMAIN N
  BY <1>1, <1>3 DEF Complete, Reading
<1>5. x = Ren(r, a) /\ Numbers[x] = T[i].n
  BY <1>2, <1>4, SameItem DEF OwnerIn, Coupled
<1>6. a \in ItemName /\ HasNewId(r, a)
  BY <1>1, SameItem DEF Complete, Numbering
<1>7. Source(x) = Mapped(r, SourceIn(p, a))
  BY <1>1, <1>5, <1>6, InCurrent, RenamedSource
<1>8. SourceIn(p, a) \in Seq(Expr)
  BY <1>1, <1>6, PartsType
<1> QED BY <1>2, <1>4, <1>5, <1>7, <1>8

\* An entry with nothing left to write has all of its text.
LEMMA FullText ==
  ASSUME IInv, TextInv, NEW r \in Renaming, NEW p, NEW N, NEW T, Coupled(r, p, N, T),
         NEW i \in DOMAIN out, Rest(i) = <<>>
  PROVE  out[i].text = T[i].text
<1>1. PICK x \in ItemName : Owner(i, x) /\ TextOf(i, x)
  BY DEF TextInv
<1>2. PICK pre \in Seq(Expr) :
        /\ Source(x) = pre \o Preorders(Rest(i))
        /\ out[i].text = [k \in DOMAIN pre |-> Reads(Source(x), k)]
  BY <1>1 DEF TextOf
<1>3. Source(x) = pre
  BY <1>2, EmptyPreorders
<1>4. PICK a \in DOMAIN N :
        /\ SourceIn(p, a) \in Seq(Expr) /\ Source(x) = Mapped(r, SourceIn(p, a))
        /\ T[i].text = [k \in DOMAIN SourceIn(p, a) |-> ReadsIn(N, SourceIn(p, a), k)]
  BY <1>1, SameOwner
<1>5. DOMAIN pre = DOMAIN SourceIn(p, a)
  BY <1>3, <1>4, MappedType
<1>6. \A l \in DOMAIN out[i].text : out[i].text[l] = T[i].text[l]
  BY DEF Coupled
<1> QED BY <1>2, <1>4, <1>5, <1>6

\* The facts about both texts that the steps need.
LEMMA BothTexts ==
  ASSUME IInv, NEW r \in Renaming, NEW p, NEW N, NEW T, Coupled(r, p, N, T)
  PROVE  /\ out \in Seq(Entries) /\ T \in Seq(Entries) /\ Distinct(T)
         /\ Len(out) \in Nat /\ Len(T) \in Nat /\ Len(out) <= Len(T)
         /\ DOMAIN out = 1 .. Len(out) /\ DOMAIN T = 1 .. Len(T)
         /\ \A i \in DOMAIN out : i \in DOMAIN T
         /\ IsProgram(p) /\ Fits(r, p) /\ ItemSeq(program) = ItemSeq(p)
<1>1. out \in Seq(Entries) /\ T \in Seq(Entries) /\ Len(out) <= Len(T) /\ Distinct(T)
  BY DEF IInv, TypeOK, Coupled, Complete
<1>2. IsProgram(p) /\ Fits(r, p) /\ program = Renamed(r, p)
  BY DEF Coupled, Complete
<1>3. ItemSeq(program) = ItemSeq(p)
  BY <1>2, SameList
<1> QED BY <1>1, <1>2, <1>3

\* What the first text had to know before some token, the second has numbered
\* when its text reaches that token.
LEMMA KnownNumbered ==
  ASSUME IInv, TextInv, ReachInv, OrderInv,
         NEW r \in Renaming, NEW p, NEW N, NEW T, Coupled(r, p, N, T),
         NEW i \in DOMAIN T, NEW kind \in {"function", "global"}, NEW m \in Nat, NEW k,
         Known(p, N, T, kind, m, i, k),
         \A j \in DOMAIN T : \A l \in DOMAIN T[j].text :
           j < i \/ (j = i /\ l < k) => j \in DOMAIN out /\ l \in DOMAIN out[j].text,
         ~T[i].reached =>
           \A b \in DOMAIN ItemSeq(program) : ItemSeq(program)[b] \in DOMAIN Numbers
  PROVE  \E y \in DOMAIN Numbers : y.kind = kind /\ Numbers[y] = m
<1>1. CASE kind = "function" /\ m = 0
  <2>1. MainId \in ItemName /\ HasNumber(MainId)
    BY MainIsItem DEF MainId, ReachInv
  <2>2. MainId \in DOMAIN Numbers /\ Numbers[MainId] = ItemNumber(MainId)
    BY <2>1, NumbersAre
  <2>3. MainId.kind = "function" /\ ItemNumber(MainId) = 0
    BY DEF MainId, Id, ItemNumber, OrderInv
  <2> QED BY <1>1, <2>2, <2>3
<1>2. CASE Named(T, kind, m, i, k)
  <2>1. PICK j \in DOMAIN T : \E l \in DOMAIN T[j].text :
          /\ j < i \/ (j = i /\ l < k)
          /\ T[j].text[l].kind = kind /\ T[j].text[l].n = m
    BY <1>2 DEF Named
  <2>2. PICK l \in DOMAIN T[j].text :
          /\ j < i \/ (j = i /\ l < k)
          /\ T[j].text[l].kind = kind /\ T[j].text[l].n = m
    BY <2>1
  <2>3. j \in DOMAIN out /\ l \in DOMAIN out[j].text
    BY <2>2
  <2>4. out[j].text[l] = T[j].text[l]
    BY <2>3 DEF Coupled
  <2> QED BY <2>2, <2>3, <2>4, NamedNumbered
<1>3. CASE ~T[i].reached /\ IsListed(p, N, kind, m)
  <2>1. PICK b \in DOMAIN ItemSeq(p) : /\ ItemSeq(p)[b] \in DOMAIN N
                                       /\ ItemSeq(p)[b].kind = kind /\ N[ItemSeq(p)[b]] = m
    BY <1>3 DEF IsListed
  <2>2. PICK a \in DOMAIN N : a = ItemSeq(p)[b]
    BY <2>1
  <2>3. PICK c \in DOMAIN ItemSeq(p) : ItemSeq(p)[c] = Ren(r, a)
    BY <2>2, BothTexts, SameList
  <2>4. Ren(r, a) \in DOMAIN Numbers
    BY <1>3, <2>3, BothTexts
  <2>5. Numbers[Ren(r, a)] = m /\ Ren(r, a).kind = kind
    BY <2>1, <2>2, <2>4, SameItem
  <2> QED BY <2>4, <2>5
<1> QED BY <1>1, <1>2, <1>3 DEF Known

\* What main reaches is written before the mark, in both texts.
LEMMA NoneReachedLeft ==
  ASSUME IInv, TextInv, ReachInv, OrderInv,
         NEW r \in Renaming, NEW p, NEW N, NEW T, Coupled(r, p, N, T),
         phase # "reached", todo = <<>>, NEW i \in DOMAIN T, Len(out) < i
  PROVE  ~T[i].reached
<1>1. /\ out \in Seq(Entries) /\ T \in Seq(Entries) /\ Distinct(T)
      /\ Len(out) \in Nat /\ DOMAIN out = 1 .. Len(out) /\ DOMAIN T = 1 .. Len(T) /\ Len(T) \in Nat
      /\ \A j \in DOMAIN out : j \in DOMAIN T
  BY BothTexts
<1>2. PICK h \in DOMAIN T : h = Len(out) + 1
  BY <1>1
<1>3. \A j \in DOMAIN T : EntryLaw(p, N, T, j)
  BY DEF Coupled, Complete, Ordering
<1>4. SUFFICES ASSUME T[h].reached PROVE FALSE
  <2>1. T[i].reached => T[h].reached
    <3>1. h = i \/ h < i
      BY <1>1, <1>2
    <3> QED BY <3>1, <1>3 DEF EntryLaw
  <2> QED BY <2>1
<1>5. \A j \in DOMAIN out : out[j].reached = T[j].reached /\ out[j].kind = T[j].kind /\ out[j].n = T[j].n
  BY DEF Coupled
<1>6. Closed(Reached)
  BY DEF ReachInv
<1>7. \A x \in Reached : ~(x.kind = T[h].kind /\ Numbers[x] = T[h].n)
  <2> SUFFICES ASSUME NEW x \in Reached, x.kind = T[h].kind, Numbers[x] = T[h].n PROVE FALSE
    OBVIOUS
  <2>1. PICK j \in DOMAIN out : Owner(j, x)
    BY DEF Reached
  <2>2. x \in DOMAIN Numbers
    BY <2>1, NumbersAre DEF Owner, Reached
  <2>3. out[j].kind = T[h].kind /\ out[j].n = T[h].n
    BY <2>1, <2>2, NumbersAre DEF Owner, IsEntryOf
  <2>4. j = h
    BY <2>3, <1>1, <1>5 DEF Distinct
  <2> QED BY <2>4, <1>1, <1>2
<1>8. Known(p, N, T, T[h].kind, T[h].n, h, 1)
  BY <1>3 DEF EntryLaw
<1>9. CASE T[h].kind = "function" /\ T[h].n = 0
  <2>1. MainId \in Reached
    BY <1>6 DEF Closed, MainId
  <2>2. MainId \in DOMAIN Numbers
    BY MainIsItem, NumbersAre DEF MainId, ReachInv
  <2>3. MainId.kind = "function" /\ Numbers[MainId] = 0
    BY <2>2, NumbersAre DEF MainId, Id, ItemNumber, OrderInv
  <2> QED BY <1>9, <2>1, <2>3, <1>7
<1>10. CASE Named(T, T[h].kind, T[h].n, h, 1)
  <2>1. PICK j \in DOMAIN T : \E l \in DOMAIN T[j].text :
          /\ j < h \/ (j = h /\ l < 1)
          /\ T[j].text[l].kind = T[h].kind /\ T[j].text[l].n = T[h].n
    BY <1>10 DEF Named
  <2>2. PICK l \in DOMAIN T[j].text :
          /\ j < h \/ (j = h /\ l < 1)
          /\ T[j].text[l].kind = T[h].kind /\ T[j].text[l].n = T[h].n
    BY <2>1
  <2>3. T[j] \in Entries /\ T[h] \in Entries
    BY <1>1
  <2>4. T[j].text \in Seq(Tokens) /\ T[h].kind \in {"function", "global"}
    BY <2>3 DEF Entries
  <2>5. ~(l < 1)
    BY <2>4
  <2>6. j \in DOMAIN out
    BY <2>2, <2>5, <1>1, <1>2
  <2>7. out[j].text = T[j].text
    <3>1. Rest(j) = <<>>
      BY DEF Rest
    <3> QED BY <2>6, <3>1, FullText
  <2>8. out[j].reached
    BY <1>3, <1>4, <1>5, <2>2, <2>5, <2>6 DEF EntryLaw
  <2>9. PICK x \in DOMAIN Numbers :
          /\ x.kind = T[h].kind /\ Numbers[x] = T[h].n
          /\ \E a \in ItemName : Owner(j, a) /\ x \in Uses(a)
    BY <2>2, <2>4, <2>6, <2>7, NamedNumbered
  <2>10. PICK a \in ItemName : Owner(j, a) /\ x \in Uses(a)
    BY <2>9
  <2>11. a \in Reached
    BY <2>6, <2>8, <2>10 DEF Reached
  <2>12. x \in Reached
    BY <1>6, <2>10, <2>11 DEF Closed
  <2> QED BY <2>9, <2>12, <1>7
<1> QED BY <1>4, <1>8, <1>9, <1>10 DEF Known

-----------------------------------------------------------------------------
\* When the first compilation is done its text is complete.
LEMMA SameReached ==
  ASSUME IInv
  PROVE  ReachedIn(Numbers, out) = Reached
<1>1. ASSUME NEW a, a \in ReachedIn(Numbers, out) PROVE a \in Reached
  BY <1>1, NumbersAre DEF ReachedIn, OwnerIn, Reached, Owner, IsEntryOf
<1>2. ASSUME NEW a, a \in Reached PROVE a \in ReachedIn(Numbers, out)
  <2>1. a \in ItemName
    BY <1>2 DEF Reached
  <2>2. PICK i \in DOMAIN out : out[i].reached /\ Owner(i, a)
    BY <1>2 DEF Reached
  <2>3. a \in DOMAIN Numbers /\ Numbers[a] = ItemNumber(a)
    BY <2>1, <2>2, NumbersAre DEF Owner
  <2> QED BY <2>2, <2>3 DEF ReachedIn, OwnerIn, Owner, IsEntryOf
<1> QED BY <1>1, <1>2

\* When a compilation is done its numbers are dense and main's is the first.
LEMMA DoneNumbering ==
  ASSUME IInv, TextInv, ReachInv, OrderInv
  PROVE  Numbering(Numbers)
<1>1. ASSUME NEW a \in DOMAIN Numbers, NEW m \in Nat, m < Numbers[a]
      PROVE  \E b \in DOMAIN Numbers : b.kind = a.kind /\ Numbers[b] = m
  <2>1. PICK f : f = IF a.kind = "function" THEN functions ELSE globals
    OBVIOUS
  <2>2. Dense(f)
    BY <2>1 DEF IInv, TypeOK
  <2>3. a.id \in DOMAIN f /\ Numbers[a] = f[a.id] /\ a.kind \in {"function", "global"}
    BY <2>1, NumbersAre DEF HasNumber, ItemNumber, ItemName
  <2>4. f[a.id] < Cardinality(DOMAIN f) /\ f[a.id] \in Nat
    BY <2>2, <2>3 DEF Dense
  <2>5. Cardinality(DOMAIN f) \in Nat
    BY <2>2, FS_CardinalityType DEF Dense
  <2>6. m < Cardinality(DOMAIN (IF a.kind = "function" THEN functions ELSE globals))
    BY <1>1, <2>1, <2>3, <2>4, <2>5
  <2> QED BY <2>3, <2>6, NoGaps
<1>2. MainId \in DOMAIN Numbers
  BY MainIsItem, NumbersAre DEF MainId, ReachInv
<1>3. Numbers[MainId] = 0
  BY <1>2, NumbersAre DEF MainId, Id, ItemNumber, OrderInv
<1> QED BY <1>1, <1>2, <1>3, NumbersAre DEF Numbering

\* When a compilation is done every entry says what its item is.
LEMMA DoneReading ==
  ASSUME IInv, TextInv, ReachInv, OrderInv, phase = "done"
  PROVE  Reading(program, Numbers, out)
<1>1. todo = <<>> /\ function_queue = <<>> /\ global_queue = <<>> /\ IsProgram(program)
  BY DEF IInv, TypeOK
<1>2. ASSUME NEW i \in DOMAIN out
      PROVE  \E a \in DOMAIN Numbers :
               /\ OwnerIn(Numbers, out, i, a)
               /\ out[i].missing <=> ~PresentIn(program, a)
               /\ out[i].text = [k \in DOMAIN SourceIn(program, a) |->
                                   ReadsIn(Numbers, SourceIn(program, a), k)]
               /\ \A k \in DOMAIN SourceIn(program, a) :
                    SourceIn(program, a)[k].name.kind \in {"function", "global"} =>
                      SourceIn(program, a)[k].name \in DOMAIN Numbers
  <2>1. PICK a \in ItemName : Owner(i, a) /\ TextOf(i, a)
    BY DEF TextInv
  <2>2. a \in DOMAIN Numbers /\ OwnerIn(Numbers, out, i, a)
    BY <2>1, NumbersAre DEF Owner, IsEntryOf, OwnerIn
  <2>3. out[i].missing <=> ~PresentIn(program, a)
    BY <2>1, InCurrent DEF OrderInv
  <2>4. Rest(i) = <<>>
    BY <1>1 DEF Rest
  <2>5. PICK pre \in Seq(Expr) :
          /\ Source(a) = pre \o Preorders(Rest(i))
          /\ out[i].text = [k \in DOMAIN pre |-> Reads(Source(a), k)]
          /\ \A k \in DOMAIN pre : Met(pre[k].name)
    BY <2>1 DEF TextOf
  <2>6. Source(a) = pre
    BY <2>4, <2>5, EmptyPreorders
  <2>7. SourceIn(program, a) = pre
    BY <2>6, InCurrent
  <2>8. ASSUME NEW k \in DOMAIN pre, pre[k].name.kind \in {"function", "global"}
        PROVE  pre[k].name \in DOMAIN Numbers
    <3>1. pre[k].name \in Name
      BY ExprAssumption
    <3>2. pre[k].name \in ItemName
      BY <2>8, <3>1 DEF Name, ItemName
    <3> QED BY <2>5, <2>8, <3>2, NumbersAre DEF Met
  <2>9. \A k \in DOMAIN pre : Reads(pre, k) = ReadsIn(Numbers, pre, k)
    <3> SUFFICES ASSUME NEW k \in DOMAIN pre PROVE Reads(pre, k) = ReadsIn(Numbers, pre, k)
      OBVIOUS
    <3>1. pre[k].name.kind \in {"function", "global"} =>
            Numbers[pre[k].name] = ItemNumber(pre[k].name)
      BY <2>8, NumbersAre
    <3> QED BY <3>1 DEF Reads, ReadsIn
  <2>10. out[i].text = [k \in DOMAIN pre |-> ReadsIn(Numbers, pre, k)]
    BY <2>5, <2>6, <2>9
  <2> QED BY <2>2, <2>3, <2>7, <2>8, <2>10
<1>3. ASSUME NEW a \in DOMAIN Numbers PROVE \E i \in DOMAIN out : OwnerIn(Numbers, out, i, a)
  <2>1. a \in ItemName /\ HasNumber(a) /\ Numbers[a] = ItemNumber(a)
    BY NumbersAre
  <2>2. PICK i \in DOMAIN out : Owner(i, a)
    BY <1>1, <2>1, AllWritten
  <2> QED BY <2>1, <2>2 DEF OwnerIn, Owner, IsEntryOf
<1> QED BY <1>2, <1>3 DEF Reading

\* When a compilation is done the entries before the mark are closed under
\* use.
LEMMA DoneMarking ==
  ASSUME IInv, TextInv, ReachInv, OrderInv, phase = "done"
  PROVE  Marking(out)
<1>1. Closed(Reached)
  BY DEF ReachInv
<1>2. ASSUME NEW x \in Reached
      PROVE  x \in DOMAIN Numbers
             /\ \E j \in DOMAIN out : out[j].reached /\ out[j].kind = x.kind /\ out[j].n = Numbers[x]
  <2>1. PICK j \in DOMAIN out : out[j].reached /\ Owner(j, x)
    BY DEF Reached
  <2>2. x \in DOMAIN Numbers /\ Numbers[x] = ItemNumber(x)
    BY <2>1, NumbersAre DEF Owner, Reached
  <2> QED BY <2>1, <2>2 DEF Owner, IsEntryOf
<1>3. \E i \in DOMAIN out : out[i].reached /\ out[i].kind = "function" /\ out[i].n = 0
  <2>1. MainId \in Reached
    BY <1>1 DEF Closed, MainId
  <2>2. MainId.kind = "function" /\ Numbers[MainId] = 0
    BY DoneNumbering DEF Numbering, MainId, Id
  <2> QED BY <1>2, <2>1, <2>2
<1>4. ASSUME NEW i \in DOMAIN out, out[i].reached, NEW l \in DOMAIN out[i].text,
             out[i].text[l].kind \in {"function", "global"}
      PROVE  \E j \in DOMAIN out : /\ out[j].reached /\ out[j].kind = out[i].text[l].kind
                                   /\ out[j].n = out[i].text[l].n
  <2>1. PICK x \in DOMAIN Numbers :
          /\ x.kind = out[i].text[l].kind /\ Numbers[x] = out[i].text[l].n
          /\ \E a \in ItemName : Owner(i, a) /\ x \in Uses(a)
    BY <1>4, NamedNumbered
  <2>2. PICK a \in ItemName : Owner(i, a) /\ x \in Uses(a)
    BY <2>1
  <2>3. a \in Reached
    BY <1>4, <2>2 DEF Reached
  <2>4. x \in Reached
    BY <1>1, <2>2, <2>3 DEF Closed
  <2> QED BY <1>2, <2>1, <2>4
<1> QED BY <1>3, <1>4 DEF Marking

\* When the list is done, everything listed is numbered.
LEMMA ListNumbered ==
  ASSUME IInv, phase # "reached", leftover = <<>>
  PROVE  \A b \in DOMAIN ItemSeq(program) : ItemSeq(program)[b] \in DOMAIN Numbers
<1> SUFFICES ASSUME NEW b \in DOMAIN Items PROVE Items[b] \in DOMAIN Numbers
  BY ItemsAre
<1>1. IsProgram(program)
  BY DEF IInv, TypeOK
<1>2. Items[b] \in ItemName
  BY <1>1, ProgramTypes
<1>3. HasNumber(Items[b])
  BY DEF IInv, Listed
<1> QED BY <1>2, <1>3, NumbersAre

\* When a compilation is done its text is complete.
LEMMA DoneComplete ==
  ASSUME IInv, TextInv, ReachInv, OrderInv, phase = "done"
  PROVE  Complete(program, Numbers, out)
<1>1. IsProgram(program) /\ out \in Seq(Entries) /\ Distinct(out) /\ leftover = <<>>
  BY DEF IInv, TypeOK
<1>2. ListLaw(program, Numbers, ReachedIn(Numbers, out))
  BY SameReached DEF OrderInv
<1>3. \A b \in DOMAIN ItemSeq(program) : ItemSeq(program)[b] \in DOMAIN Numbers
  BY <1>1, ListNumbered
<1>4. \A a \in DOMAIN Numbers :
        \/ a = MainId
        \/ Named(out, a.kind, Numbers[a], Len(out) + 1, 1)
        \/ \E b \in DOMAIN ItemSeq(program) : ItemSeq(program)[b] = a
  BY ItemsAre DEF OrderInv, Accounted
<1>5. Ordering(program, Numbers, out)
  BY <1>2, <1>3, <1>4 DEF Ordering, OrderInv
<1> QED BY <1>1, <1>5, DoneNumbering, DoneReading, DoneMarking DEF Complete

\* The second compilation starts with main, which stays main.
LEMMA StartsCoupled ==
  ASSUME IInv, TextInv, ReachInv, OrderInv, CompileAgain
  PROVE  \E r \in Renaming :
           \E p, N, T : p = program /\ N = Numbers /\ T = out /\ Coupled(r, p, N, T)'
<1>1. PICK r \in Renaming : /\ Fits(r, program) /\ program' = Renamed(r, program)
                            /\ Keeps(r.function, functions, "function")
                            /\ Keeps(r.global, globals, "global")
  BY DEF CompileAgain
<1> PICK p, N, T : p = program /\ N = Numbers /\ T = out
  OBVIOUS
<1>2. Complete(p, N, T) /\ Fits(r, p) /\ program' = Renamed(r, p)
  BY <1>1, DoneComplete DEF CompileAgain
<1>3. ASSUME NEW a \in DOMAIN N, a \notin ReachedIn(N, T)
      PROVE  /\ a \in ItemName /\ a.id \in DOMAIN NewIds(r, a.kind)
             /\ Ren(r, a).id = NewIds(r, a.kind)[a.id]
             /\ \E i \in DOMAIN out :
                  /\ out[i].kind = a.kind /\ ~out[i].reached
                  /\ a.id \in DOMAIN (IF a.kind = "function" THEN functions ELSE globals)
                  /\ out[i].n = (IF a.kind = "function" THEN functions ELSE globals)[a.id]
  <2>1. HasNewId(r, a)
    BY <1>2, CompleteNewIds
  <2>2. PICK i \in DOMAIN T : OwnerIn(N, T, i, a)
    BY <1>2 DEF Complete, Reading
  <2>3. ~T[i].reached
    BY <1>3, <2>2 DEF ReachedIn
  <2>4. a \in ItemName /\ HasNumber(a) /\ N[a] = ItemNumber(a)
    BY NumbersAre
  <2> QED BY <2>1, <2>2, <2>3, <2>4 DEF HasNewId, Ren, Id, OwnerIn, HasNumber, ItemNumber
<1>4. InOrder(r, N, T)
  <2> SUFFICES ASSUME NEW a \in DOMAIN N, NEW b \in DOMAIN N, a.kind = b.kind,
                      a \notin ReachedIn(N, T), b \notin ReachedIn(N, T), a.id < b.id
               PROVE  Ren(r, a).id < Ren(r, b).id
    BY DEF InOrder
  <2>1. a.kind \in {"function", "global"}
    BY <1>3 DEF ItemName
  <2>2. CASE a.kind = "function"
    <3> DEFINE Unreached == {id \in DOMAIN r.function :
                  \E i \in DOMAIN out : /\ out[i].kind = "function" /\ ~out[i].reached
                                        /\ id \in DOMAIN functions /\ out[i].n = functions[id]}
    <3>1. ASSUME NEW x \in DOMAIN N, x \notin ReachedIn(N, T), x.kind = "function"
          PROVE  x.id \in Unreached /\ Ren(r, x).id = r.function[x.id]
      <4>1. /\ x.id \in DOMAIN NewIds(r, "function")
            /\ Ren(r, x).id = NewIds(r, "function")[x.id]
            /\ \E i \in DOMAIN out :
                  /\ out[i].kind = "function" /\ ~out[i].reached
                  /\ x.id \in DOMAIN functions /\ out[i].n = functions[x.id]
        BY ONLY <1>3, <3>1
      <4>2. NewIds(r, "function") = r.function
        BY DEF NewIds
      <4> QED BY ONLY <4>1, <4>2
    <3>3. a.id \in Unreached /\ b.id \in Unreached
          /\ Ren(r, a).id = r.function[a.id] /\ Ren(r, b).id = r.function[b.id]
      BY ONLY <3>1, <2>2, a \in DOMAIN N, b \in DOMAIN N, a.kind = b.kind,
              a \notin ReachedIn(N, T), b \notin ReachedIn(N, T)
    <3>2. r.function[a.id] < r.function[b.id]
      BY <1>1, <3>3 DEF Keeps
    <3> QED BY ONLY <3>2, <3>3
  <2>3. CASE a.kind = "global"
    <3> DEFINE Unreached == {id \in DOMAIN r.global :
                  \E i \in DOMAIN out : /\ out[i].kind = "global" /\ ~out[i].reached
                                        /\ id \in DOMAIN globals /\ out[i].n = globals[id]}
    <3>1. ASSUME NEW x \in DOMAIN N, x \notin ReachedIn(N, T), x.kind = "global"
          PROVE  x.id \in Unreached /\ Ren(r, x).id = r.global[x.id]
      <4>1. /\ x.id \in DOMAIN NewIds(r, "global")
            /\ Ren(r, x).id = NewIds(r, "global")[x.id]
            /\ \E i \in DOMAIN out :
                  /\ out[i].kind = "global" /\ ~out[i].reached
                  /\ x.id \in DOMAIN globals /\ out[i].n = globals[x.id]
        BY ONLY <1>3, <3>1
      <4>2. NewIds(r, "global") = r.global
        BY DEF NewIds
      <4> QED BY ONLY <4>1, <4>2
    <3>3. a.id \in Unreached /\ b.id \in Unreached
          /\ Ren(r, a).id = r.global[a.id] /\ Ren(r, b).id = r.global[b.id]
      BY ONLY <3>1, <2>3, a \in DOMAIN N, b \in DOMAIN N, a.kind = b.kind,
              a \notin ReachedIn(N, T), b \notin ReachedIn(N, T)
    <3>2. r.global[a.id] < r.global[b.id]
      BY <1>1, <3>3 DEF Keeps
    <3> QED BY ONLY <3>2, <3>3
  <2> QED BY <2>1, <2>2, <2>3
<1>5. functions' = [id \in {Main} |-> 0] /\ globals' = [id \in {} |-> 0] /\ out' = <<>>
  BY DEF CompileAgain
<1>6. \A x \in DOMAIN Numbers' : \E a \in DOMAIN N : x = Ren(r, a) /\ N[a] = Numbers'[x]
  <2> SUFFICES ASSUME NEW x \in DOMAIN Numbers'
               PROVE  \E a \in DOMAIN N : x = Ren(r, a) /\ N[a] = Numbers'[x]
    OBVIOUS
  <2>1. Numbers' = [item \in {y \in ItemName : HasNumber(y)'} |-> ItemNumber(item)']
    BY DEF Numbers
  <2>2. x \in ItemName /\ HasNumber(x)' /\ Numbers'[x] = ItemNumber(x)'
    BY <2>1
  <2>3. x.kind = "function" /\ x.id = Main
    BY <1>5, <2>2 DEF HasNumber, ItemName
  <2>4. x = MainId /\ Numbers'[x] = 0
    BY <1>5, <2>2, <2>3 DEF ItemName, MainId, Id, ItemNumber
  <2>5. MainId \in DOMAIN N /\ N[MainId] = 0
    BY <1>2 DEF Complete, Numbering
  <2>6. Ren(r, MainId) = MainId
    BY RenOneToOne
  <2> QED BY <2>4, <2>5, <2>6
<1>7. Coupled(r, p, N, T)'
  <2>1. T \in Seq(Entries)
    BY <1>2 DEF Complete
  <2>2. Len(out') <= Len(T)
    BY <1>5, <2>1
  <2>3. DOMAIN out' = {}
    BY <1>5
  <2> QED BY <1>2, <1>4, <1>6, <2>2, <2>3 DEF Coupled
<1> QED BY <1>7

-----------------------------------------------------------------------------
\* The text of an entry says what its item's expressions are.
TextSays ==
  \A i \in DOMAIN out : \E x \in ItemName :
    /\ Owner(i, x) /\ Source(x) \in Seq(Expr)
    /\ \A k \in DOMAIN out[i].text : /\ k \in DOMAIN Source(x)
                                     /\ out[i].text[k] = Reads(Source(x), k)

\* What is written of an entry says what its item's expressions are.
LEMMA TextSaysInv == IInv /\ TextInv => TextSays
<1> SUFFICES ASSUME IInv, TextInv, NEW i \in DOMAIN out
             PROVE  \E x \in ItemName :
                      /\ Owner(i, x) /\ Source(x) \in Seq(Expr)
                      /\ \A k \in DOMAIN out[i].text : /\ k \in DOMAIN Source(x)
                                                       /\ out[i].text[k] = Reads(Source(x), k)
  BY DEF TextSays
<1>1. PICK x \in ItemName : Owner(i, x) /\ TextOf(i, x)
  BY DEF TextInv
<1>2. PICK pre \in Seq(Expr) :
        /\ Source(x) = pre \o Preorders(Rest(i))
        /\ out[i].text = [k \in DOMAIN pre |-> Reads(Source(x), k)]
  BY <1>1 DEF TextOf
<1>3. Rest(i) \in Seq(Expr) /\ Preorders(Rest(i)) \in Seq(Expr)
  <2>1. Rest(i) \in Seq(Expr)
    BY DEF IInv, TypeOK, Rest
  <2> QED BY <2>1, PreorderTree
<1>4. Source(x) \in Seq(Expr) /\ \A k \in DOMAIN pre : k \in DOMAIN Source(x)
  BY <1>2, <1>3, PreAt
<1> QED BY <1>1, <1>2, <1>4

\* It does so in the next state.
LEMMA TextSaysNext == IInv' /\ TextInv' => TextSays'
BY TextSaysInv, PTL

\* The token written next says what the next expression of the item is.
LEMMA NextToken ==
  ASSUME IInv, IInv', TextInv, TextInv', WriteExpr
  PROVE  \E x \in ItemName : \E s \in Seq(Expr) : \E c \in Nat :
           /\ Owner(Len(out), x) /\ s = Source(x) /\ c = Len(out[Len(out)].text) + 1
           /\ c \in DOMAIN s /\ s[c] = Head(todo)
           /\ Token(Head(todo)) = Reads(s, c)'
<1>1. /\ out # <<>> /\ out \in Seq(Entries) /\ IsProgram(program) /\ out' \in Seq(Entries)
      /\ program' = program /\ out' = Written(Token(Head(todo))) /\ definition(Head(todo).name)
  BY DEF IInv, TypeOK, TextInv, WriteExpr
<1>2. Len(out) \in DOMAIN out
  BY <1>1
<1>3. PICK x \in ItemName : Owner(Len(out), x) /\ TextOf(Len(out), x)
  BY <1>2 DEF TextInv
<1>4. PICK pre \in Seq(Expr) :
        /\ Source(x) = pre \o Preorders(todo)
        /\ out[Len(out)].text = [k \in DOMAIN pre |-> Reads(Source(x), k)]
  BY <1>3 DEF TextOf, Rest
<1>5. /\ Head(todo) \in Expr /\ Head(todo).name \in Name /\ todo \in Seq(Expr) /\ todo' \in Seq(Expr)
      /\ Preorders(todo) = <<Head(todo)>> \o Preorders(todo')
  BY NextExpr
<1> PICK s, rest, tail, e : /\ s = Source(x) /\ rest = Preorders(todo) /\ tail = Preorders(todo')
                            /\ e = Head(todo)
  OBVIOUS
<1>6. rest \in Seq(Expr) /\ tail \in Seq(Expr)
  BY <1>5, PreorderTree
<1>7. Len(rest) = Len(tail) + 1 /\ rest[1] = e /\ Len(tail) \in Nat
  <2>1. rest = <<e>> \o tail
    BY <1>5
  <2> QED BY <2>1, <1>5, <1>6
<1>8. Len(pre) + 1 \in DOMAIN s /\ s[Len(pre) + 1] = e /\ s \in Seq(Expr)
  <2>1. s = pre \o rest
    BY <1>4
  <2> QED BY <2>1, <1>6, <1>7
<1>9. Len(out[Len(out)].text) = Len(pre)
  <2>1. out[Len(out)] \in Entries
    BY <1>1, <1>2
  <2>2. out[Len(out)].text \in Seq(Tokens)
    BY <2>1 DEF Entries
  <2>3. DOMAIN out[Len(out)].text = DOMAIN pre
    BY <1>4
  <2> QED BY <2>2, <2>3
<1>10. PICK c \in Nat : c = Len(pre) + 1
  OBVIOUS
<1>11. PICK n : n = Len(out)
  OBVIOUS
<1>12. /\ Len(out') = n /\ DOMAIN out' = DOMAIN out
       /\ out'[n].kind = out[n].kind /\ out'[n].n = out[n].n
       /\ c \in DOMAIN out'[n].text /\ out'[n].text[c] = Token(e)
  <2>1. /\ Len(out') = Len(out) /\ DOMAIN out' = DOMAIN out
        /\ \A i \in DOMAIN out : out'[i].kind = out[i].kind /\ out'[i].n = out[i].n
        /\ out'[Len(out)].text = Append(out[Len(out)].text, Token(e))
    BY <1>1, WrittenText
  <2>2. out[Len(out)].text \in Seq(Tokens)
    <3>1. out[Len(out)] \in Entries
      BY <1>1, <1>2
    <3> QED BY <3>1 DEF Entries
  <2>3. PICK W \in Seq(Tokens) : W = out[Len(out)].text
    BY <2>2
  <2>4. PICK t : t = Token(e)
    OBVIOUS
  <2>5. c \in DOMAIN Append(W, t) /\ Append(W, t)[c] = t
    <3>1. c = Len(W) + 1
      BY <1>9, <1>10, <2>3
    <3> QED BY <3>1
  <2> QED BY <1>2, <1>11, <2>1, <2>3, <2>4, <2>5
<1>13. PICK y \in ItemName :
         /\ Owner(n, y)'
         /\ c \in DOMAIN Source(y)' /\ out'[n].text[c] = Reads(Source(y), c)'
  <2>1. TextSays'
    BY TextSaysNext
  <2>2. n \in DOMAIN out'
    BY <1>2, <1>11, <1>12
  <2> QED BY <1>12, <2>1, <2>2 DEF TextSays
<1>14. y = x
  <2>1. Extended
    BY <1>1, <1>5, MeetingExtends
  <2>2. Owner(n, x)'
    BY <1>3, <1>11, <1>12, <2>1, OwnerKept
  <2> QED BY <1>13, <2>2, UniqueNext DEF Unique
<1>15. Source(y)' = s
  BY <1>1, <1>14, SourceKept
<1>16. Token(e) = Reads(s, c)'
  BY <1>12, <1>13, <1>15 DEF Reads
<1> QED BY <1>3, <1>8, <1>9, <1>10, <1>16

\* An item named in the second text gets the number its original has.
LEMMA NextNumber ==
  ASSUME IInv, TextInv, ReachInv, OrderInv, WriteExpr,
         NEW r \in Renaming, NEW p, NEW N, NEW T, Coupled(r, p, N, T),
         NEW t, t = Token(Head(todo)), t.kind \in {"function", "global"},
         NEW v \in DOMAIN N, Head(todo).name = Ren(r, v),
         NEW n \in DOMAIN T, n = Len(out),
         NEW c \in DOMAIN T[n].text, c = Len(out[n].text) + 1,
         T[n].text[c].kind = t.kind, T[n].text[c].n = N[v]
  PROVE  t.n = N[v]
<1>1. PICK e \in Expr : e = Head(todo)
  BY NextExpr
<1>2. t.kind = e.name.kind
  BY <1>1 DEF Token
<1>3. /\ e.name \in ItemName
      /\ DOMAIN Numbers' = DOMAIN Numbers \cup {e.name}
      /\ Numbers'[e.name] = t.n /\ t.n \in Nat
      /\ \A m \in Nat : m < t.n => \E w \in DOMAIN Numbers : w.kind = t.kind /\ Numbers[w] = m
      /\ e.name \notin DOMAIN Numbers =>
           \A w \in DOMAIN Numbers : w.kind = e.name.kind => Numbers[w] < t.n
  <2>1. NumberMet(e, t)
    BY <1>1, <1>2, MeetsName
  <2> QED BY <2>1 DEF NumberMet
<1>4. /\ Ren(r, v).kind = v.kind
      /\ Ren(r, v) \in DOMAIN Numbers => Numbers[Ren(r, v)] = N[v]
      /\ \A x \in DOMAIN Numbers : x.kind = v.kind /\ Numbers[x] = N[v] => x = Ren(r, v)
  BY SameItem
<1>5. CASE e.name \in DOMAIN Numbers
  <2>1. Extended
    BY <1>1, NextExpr, MeetingExtends DEF WriteExpr
  <2>2. Numbers'[e.name] = Numbers[e.name]
    BY <1>5, <2>1, NumbersKept
  <2> QED BY <1>1, <1>3, <1>4, <1>5, <2>2
<1>6. CASE e.name \notin DOMAIN Numbers
  <2>1. N[v] \in Nat
    BY DEF Coupled, Complete, Numbering
  <2>2. ASSUME N[v] < t.n PROVE FALSE
    <3>1. PICK w \in DOMAIN Numbers : w.kind = t.kind /\ Numbers[w] = N[v]
      BY <1>3, <2>1, <2>2
    <3>2. w = e.name
      BY <1>1, <1>2, <1>4, <3>1
    <3> QED BY <1>6, <3>2
  <2>3. ASSUME t.n < N[v] PROVE FALSE
    <3>1. TokenLaw(p, N, T, n, c)
      BY DEF Coupled, Complete, Ordering
    <3>2. Known(p, N, T, t.kind, t.n, n, c)
      BY <1>3, <2>3, <3>1 DEF TokenLaw
    <3>3. /\ out \in Seq(Entries) /\ T \in Seq(Entries) /\ Len(out) \in Nat
          /\ DOMAIN out = 1 .. Len(out) /\ DOMAIN T = 1 .. Len(T) /\ n \in DOMAIN out
      <4>1. out # <<>>
        BY DEF TextInv, WriteExpr
      <4> QED BY <4>1, BothTexts
    <3>4. ASSUME NEW j \in DOMAIN T, NEW l \in DOMAIN T[j].text, j < n \/ (j = n /\ l < c)
          PROVE  j \in DOMAIN out /\ l \in DOMAIN out[j].text
      <4>1. CASE j < n
        <5>1. j \in DOMAIN out /\ j # Len(out)
          BY <3>3, <4>1
        <5>2. Rest(j) = <<>>
          BY <5>1 DEF Rest
        <5> QED BY <5>1, <5>2, FullText
      <4>2. CASE j = n /\ l < c
        <5>1. T[n] \in Entries /\ out[n] \in Entries
          BY <3>3
        <5>2. T[n].text \in Seq(Tokens) /\ out[n].text \in Seq(Tokens)
          BY <5>1 DEF Entries
        <5> QED BY <3>3, <4>2, <5>2
      <4> QED BY <3>4, <4>1, <4>2
    <3>5. ~T[n].reached => \A b \in DOMAIN ItemSeq(program) : ItemSeq(program)[b] \in DOMAIN Numbers
      <4>1. out[n].reached = T[n].reached
        BY <3>3 DEF Coupled
      <4> QED BY <3>3, <4>1, AllListed
    <3>6. \E y \in DOMAIN Numbers : y.kind = t.kind /\ Numbers[y] = t.n
      BY <1>3, <3>2, <3>4, <3>5, KnownNumbered
    <3>7. PICK y \in DOMAIN Numbers : y.kind = t.kind /\ Numbers[y] = t.n
      BY <3>6
    <3>8. Numbers[y] < t.n
      BY <1>2, <1>3, <1>6, <3>7
    <3> QED BY <1>3, <3>7, <3>8
  <2> QED BY <1>3, <2>1, <2>2, <2>3
<1> QED BY <1>5, <1>6

\* The next token is the one the first text has there.
LEMMA WriteExprCoupled ==
  ASSUME IInv, IInv', TextInv, TextInv', ReachInv, OrderInv, WriteExpr,
         NEW r \in Renaming, NEW p, NEW N, NEW T, Coupled(r, p, N, T)
  PROVE  Coupled(r, p, N, T)'
<1>1. PICK x \in ItemName : \E s \in Seq(Expr) : \E c \in Nat :
        /\ Owner(Len(out), x) /\ s = Source(x) /\ c = Len(out[Len(out)].text) + 1
        /\ c \in DOMAIN s /\ s[c] = Head(todo)
        /\ Token(Head(todo)) = Reads(s, c)'
  BY NextToken
<1>2. PICK s \in Seq(Expr) : \E c \in Nat :
        /\ Owner(Len(out), x) /\ s = Source(x) /\ c = Len(out[Len(out)].text) + 1
        /\ c \in DOMAIN s /\ s[c] = Head(todo)
        /\ Token(Head(todo)) = Reads(s, c)'
  BY <1>1
<1>3. PICK c \in Nat :
        /\ Owner(Len(out), x) /\ s = Source(x) /\ c = Len(out[Len(out)].text) + 1
        /\ c \in DOMAIN s /\ s[c] = Head(todo)
        /\ Token(Head(todo)) = Reads(s, c)'
  BY <1>2
<1>4. /\ out # <<>> /\ out \in Seq(Entries) /\ T \in Seq(Entries)
      /\ out' \in Seq(Entries) /\ DOMAIN out = 1 .. Len(out) /\ Len(out) \in Nat
      /\ \A i \in DOMAIN out : i \in DOMAIN T
  BY BothTexts DEF IInv, TypeOK, TextInv, WriteExpr
<1>5. PICK n \in DOMAIN out : n = Len(out)
  BY <1>4
<1>6. n \in DOMAIN T
  BY <1>4
<1>7. PICK a \in DOMAIN N :
        /\ x = Ren(r, a) /\ x \in DOMAIN Numbers /\ Numbers[x] = T[n].n
        /\ T[n].missing <=> ~PresentIn(p, a)
        /\ SourceIn(p, a) \in Seq(Expr) /\ Source(x) = Mapped(r, SourceIn(p, a))
        /\ T[n].text = [k \in DOMAIN SourceIn(p, a) |-> ReadsIn(N, SourceIn(p, a), k)]
        /\ \A k \in DOMAIN SourceIn(p, a) :
             SourceIn(p, a)[k].name.kind \in {"function", "global"} =>
               SourceIn(p, a)[k].name \in DOMAIN N
  <2>1. Owner(n, x)
    BY <1>3, <1>5
  <2> QED BY <2>1, SameOwner
<1>8. PICK q \in Seq(Expr) : q = SourceIn(p, a)
  BY <1>7
<1>9. s = Mapped(r, q) /\ DOMAIN s = DOMAIN q /\ c \in DOMAIN q
  BY <1>3, <1>7, <1>8, MappedType
<1>10. q[c] \in Expr /\ s[c] = r.expr[q[c]]
  BY <1>9, <1>8, MappedType
<1>11. c \in DOMAIN T[n].text /\ T[n].text[c] = ReadsIn(N, q, c)
  BY <1>7, <1>8, <1>9
<1>12. PICK t : t = Token(Head(todo))
  OBVIOUS
<1>13. PICK e \in Expr : e = q[c]
  BY <1>10
<1>14. /\ s[c].form = e.form /\ s[c].name.kind = e.name.kind /\ Len(s[c].parts) = Len(e.parts)
       /\ e.name.kind \in {"function", "global"} => s[c].name = Ren(r, e.name)
       /\ e.name.kind \notin {"function", "global", "local"} => s[c].name.id = e.name.id
  BY <1>10, <1>13, RenamedNames
<1>15. T[n].text[c] = [form |-> e.form, kind |-> e.name.kind, parts |-> Len(e.parts),
                       n |-> CASE e.name.kind \in {"function", "global"} -> N[e.name]
                               [] e.name.kind = "local" -> LocalNumber(q, e.name.id)
                               [] OTHER -> e.name.id]
  BY <1>11, <1>13 DEF ReadsIn
<1>16. t = [form |-> s[c].form, kind |-> s[c].name.kind, parts |-> Len(s[c].parts),
            n |-> CASE s[c].name.kind \in {"function", "global"} -> ItemNumber(s[c].name)'
                    [] s[c].name.kind = "local" -> LocalNumber(s, s[c].name.id)
                    [] OTHER -> s[c].name.id]
  BY <1>3, <1>12 DEF Reads
<1>17. t.n = T[n].text[c].n
  <2>1. CASE e.name.kind \in {"function", "global"}
    <3>1. e.name \in DOMAIN N
      BY <1>7, <1>8, <1>9, <1>13, <2>1
    <3>2. T[n].text[c].n = N[e.name] /\ T[n].text[c].kind = t.kind
      BY <2>1, <1>14, <1>15, <1>16
    <3>3. t.kind \in {"function", "global"} /\ Head(todo).name = Ren(r, e.name)
      BY <2>1, <1>3, <1>14, <1>16
    <3>4. c = Len(out[n].text) + 1
      BY <1>3, <1>5
    <3>5. t.n = N[e.name]
      BY <1>5, <1>6, <1>11, <1>12, <3>1, <3>2, <3>3, <3>4, NextNumber
    <3> QED BY <3>2, <3>5
  <2>2. CASE e.name.kind = "local"
    <3>1. LocalNumber(s, s[c].name.id) = LocalNumber(q, e.name.id)
      BY <2>2, <1>9, <1>13, MappedLocals
    <3> QED BY <2>2, <3>1, <1>14, <1>15, <1>16
  <2>3. CASE e.name.kind \notin {"function", "global", "local"}
    BY <2>3, <1>14, <1>15, <1>16
  <2> QED BY <2>1, <2>2, <2>3
<1>18. t = T[n].text[c]
  BY <1>14, <1>15, <1>16, <1>17
<1>19. /\ Len(out') = Len(out) /\ DOMAIN out' = DOMAIN out
       /\ \A i \in DOMAIN out : i # Len(out) => out'[i] = out[i]
       /\ \A i \in DOMAIN out : /\ out'[i].kind = out[i].kind /\ out'[i].n = out[i].n
                                /\ out'[i].missing = out[i].missing
                                /\ out'[i].reached = out[i].reached
       /\ out'[Len(out)].text = Append(out[Len(out)].text, t)
  <2>1. out' = Written(t)
    BY <1>12 DEF WriteExpr
  <2> QED BY <1>4, <2>1, WrittenText
<1>20. \A i \in DOMAIN out' : \A l \in DOMAIN out'[i].text :
         l \in DOMAIN T[i].text /\ out'[i].text[l] = T[i].text[l]
  <2> SUFFICES ASSUME NEW i \in DOMAIN out, NEW l \in DOMAIN out'[i].text
               PROVE  l \in DOMAIN T[i].text /\ out'[i].text[l] = T[i].text[l]
    BY <1>19
  <2>1. \A k \in DOMAIN out[i].text : k \in DOMAIN T[i].text /\ out[i].text[k] = T[i].text[k]
    BY DEF Coupled
  <2>2. CASE i # n
    BY <1>5, <1>19, <2>1, <2>2
  <2>3. CASE i = n
    <3>1. out[n] \in Entries
      BY <1>4
    <3>2. PICK W \in Seq(Tokens) : W = out[n].text
      BY <3>1 DEF Entries
    <3>3. out'[n].text = Append(W, t) /\ c = Len(W) + 1
      BY <1>3, <1>5, <1>19, <3>2
    <3>4. l \in DOMAIN Append(W, t)
      BY <2>3, <3>3
    <3>5. (l \in DOMAIN W /\ Append(W, t)[l] = W[l]) \/ (l = c /\ Append(W, t)[l] = t)
      BY <3>3, <3>4
    <3> QED BY <1>11, <1>18, <2>1, <2>3, <3>2, <3>3, <3>5
  <2> QED BY <2>2, <2>3
<1>21. \A y \in DOMAIN Numbers' : \E b \in DOMAIN N : y = Ren(r, b) /\ N[b] = Numbers'[y]
  <2>1. \A y \in DOMAIN Numbers : \E b \in DOMAIN N : y = Ren(r, b) /\ N[b] = Numbers[y]
    BY DEF Coupled
  <2>2. s[c] \in Expr /\ s[c] = Head(todo)
    BY <1>3
  <2>3. CASE e.name.kind \in {"function", "global"}
    <3>1. e.name \in DOMAIN N /\ s[c].name = Ren(r, e.name) /\ s[c].name.kind = e.name.kind
      BY <1>7, <1>8, <1>9, <1>13, <1>14, <2>3
    <3>2. T[n].text[c].n = N[e.name]
      BY <2>3, <1>15
    <3>3. DOMAIN Numbers' = DOMAIN Numbers \cup {s[c].name} /\ Numbers'[s[c].name] = t.n
      <4>1. s[c].name.kind \in {"function", "global"}
        BY <2>3, <3>1
      <4>2. NumberMet(s[c], t)
        BY <1>12, <2>2, <4>1, MeetsName
      <4> QED BY <4>2 DEF NumberMet
    <3>4. \A y \in DOMAIN Numbers : Numbers'[y] = Numbers[y]
      <4>1. Extended
        BY NextExpr, MeetingExtends DEF WriteExpr
      <4> QED BY <4>1, NumbersKept
    <3> QED BY <1>17, <2>1, <3>1, <3>2, <3>3, <3>4
  <2>4. CASE e.name.kind \notin {"function", "global"}
    <3>1. Numbers' = Numbers
      BY <1>14, <2>2, <2>4, MeetsName
    <3> QED BY <2>1, <3>1
  <2> QED BY <2>3, <2>4
<1>22. \A i \in DOMAIN out' : /\ out'[i].kind = T[i].kind /\ out'[i].n = T[i].n
                              /\ out'[i].missing = T[i].missing /\ out'[i].reached = T[i].reached
  BY <1>19 DEF Coupled
<1>23. program' = program
  BY DEF WriteExpr
<1> QED BY <1>19, <1>20, <1>21, <1>22, <1>23 DEF Coupled

-----------------------------------------------------------------------------
\* The next entry of the second text is the entry of the first at its place.
LEMMA EntryCoupled ==
  ASSUME IInv, IInv', TextInv, ReachInv, OrderInv, todo = <<>>, leftover = <<>>,
         functions' = functions, globals' = globals, program' = program,
         NEW x \in DOMAIN Numbers, NEW entry \in Entries, out' = Append(out, entry),
         entry.kind = x.kind, entry.n = Numbers[x], entry.text = <<>>,
         entry.reached <=> phase = "reached", entry.missing <=> ~Present(x),
         \A m \in Nat : m < entry.n => \E j \in DOMAIN out : out[j].kind = entry.kind /\ out[j].n = m,
         entry.kind = "global" => function_queue = <<>>,
         NEW r \in Renaming, NEW p, NEW N, NEW T, Coupled(r, p, N, T)
  PROVE  Coupled(r, p, N, T)'
<1>1. /\ out \in Seq(Entries) /\ T \in Seq(Entries) /\ Distinct(T)
      /\ Len(out) \in Nat /\ DOMAIN out = 1 .. Len(out) /\ DOMAIN T = 1 .. Len(T) /\ Len(T) \in Nat
      /\ \A j \in DOMAIN out : j \in DOMAIN T
      /\ IsProgram(p) /\ Fits(r, p) /\ ItemSeq(program) = ItemSeq(p)
  BY BothTexts
<1>2. PICK i \in Nat : i = Len(out) + 1
  BY <1>1
<1>3. /\ DOMAIN out' = DOMAIN out \cup {i} /\ out'[i] = entry /\ Len(out') = i
      /\ \A j \in DOMAIN out : out'[j] = out[j] /\ j < i
  BY <1>1, <1>2
<1>4. \A j \in DOMAIN out : out[j].kind = T[j].kind /\ out[j].n = T[j].n /\ out[j].reached = T[j].reached
  BY DEF Coupled
<1>5. \A j \in DOMAIN out : ~(out[j].kind = entry.kind /\ out[j].n = entry.n)
  <2> SUFFICES ASSUME NEW j \in DOMAIN out, out[j].kind = entry.kind, out[j].n = entry.n PROVE FALSE
    OBVIOUS
  <2>1. Distinct(out')
    BY DEF IInv
  <2>2. j = i
    BY <1>3, <2>1 DEF Distinct
  <2> QED BY <1>3, <2>2
<1>6. PICK a \in DOMAIN N : x = Ren(r, a) /\ N[a] = entry.n
  BY DEF Coupled
<1>7. /\ Complete(p, N, T) /\ a \in ItemName /\ HasNewId(r, a) /\ a.kind = entry.kind
      /\ \A b \in DOMAIN N : a.kind = b.kind /\ N[a] = N[b] => a = b
      /\ \A j \in DOMAIN T : EntryLaw(p, N, T, j)
  <2>1. Complete(p, N, T) /\ HasNewId(r, a) /\ Ren(r, a).kind = a.kind
    BY SameItem DEF Coupled
  <2> QED BY <2>1, <1>6 DEF Complete, Numbering, Ordering
<1>8. PICK j \in DOMAIN T : T[j].kind = entry.kind /\ T[j].n = entry.n
  BY <1>6, <1>7 DEF Complete, Reading, OwnerIn
<1>9. i \in DOMAIN T /\ ~(j < i)
  <2>1. j \notin DOMAIN out
    BY <1>4, <1>5, <1>8
  <2> QED BY <2>1, <1>1, <1>2
<1>10. T[i] \in Entries /\ T[i].n \in Nat /\ entry.n \in Nat
       /\ T[i].kind \in {"function", "global"} /\ entry.kind \in {"function", "global"}
  <2>1. T[i] \in Entries
    BY <1>1, <1>9
  <2>2. \A e \in Entries : e.n \in Nat /\ e.kind \in {"function", "global"}
    BY DEF Entries
  <2> QED BY <2>1, <2>2
<1>11. \A h \in DOMAIN T : T[h].kind = entry.kind /\ T[h].n = entry.n => h = j
  BY <1>1, <1>8 DEF Distinct
<1>12. T[i].reached <=> phase = "reached"
  <2>1. ASSUME phase = "reached" PROVE T[i].reached
    <3>1. Accounted(x)
      BY DEF OrderInv
    <3>2. Marking(T)
      BY <1>7 DEF Complete
    <3>3. \E h \in DOMAIN T : T[h].reached /\ T[h].kind = entry.kind /\ T[h].n = entry.n
      <4>1. CASE x = MainId
        <5>1. entry.kind = "function" /\ entry.n = 0
          BY <4>1, NumbersAre DEF MainId, Id, ItemNumber, OrderInv
        <5> QED BY <3>2, <5>1 DEF Marking
      <4>2. CASE Named(out, x.kind, Numbers[x], Len(out) + 1, 1)
        <5>1. PICK h \in DOMAIN out : \E l \in DOMAIN out[h].text :
                out[h].text[l].kind = entry.kind /\ out[h].text[l].n = entry.n
          BY <4>2 DEF Named
        <5>2. PICK l \in DOMAIN out[h].text :
                out[h].text[l].kind = entry.kind /\ out[h].text[l].n = entry.n
          BY <5>1
        <5>3. l \in DOMAIN T[h].text /\ T[h].text[l] = out[h].text[l]
          BY DEF Coupled
        <5>4. h \in DOMAIN T /\ T[h].reached
          BY <1>1, <1>4, <2>1 DEF ReachInv
        <5> QED BY <1>10, <3>2, <5>2, <5>3, <5>4 DEF Marking
      <4> QED BY <2>1, <3>1, <4>1, <4>2 DEF Accounted
    <3>4. T[j].reached
      BY <1>11, <3>3
    <3>5. i = j \/ i < j
      BY <1>1, <1>2, <1>9
    <3> QED BY <1>7, <1>9, <3>4, <3>5 DEF EntryLaw
  <2>2. ASSUME phase # "reached" PROVE ~T[i].reached
    <3>1. Len(out) < i
      BY <1>1, <1>2
    <3> QED BY <1>9, <2>2, <3>1, NoneReachedLeft
  <2> QED BY <2>1, <2>2
<1>13. T[i].kind = entry.kind
  <2>1. ASSUME entry.kind = "function", T[i].kind = "global" PROVE FALSE
    <3>1. Accounted(x)
      BY DEF OrderInv
    <3>2. Known(p, N, T, "function", entry.n, i, 1)
      <4>1. CASE x = MainId
        <5>1. entry.n = 0
          BY <4>1, NumbersAre DEF MainId, Id, ItemNumber, OrderInv
        <5> QED BY <5>1 DEF Known
      <4>2. CASE Named(out, x.kind, Numbers[x], Len(out) + 1, 1)
        <5>1. PICK h \in DOMAIN out : \E l \in DOMAIN out[h].text :
                out[h].text[l].kind = "function" /\ out[h].text[l].n = entry.n
          BY <2>1, <4>2 DEF Named
        <5>2. PICK l \in DOMAIN out[h].text :
                out[h].text[l].kind = "function" /\ out[h].text[l].n = entry.n
          BY <5>1
        <5>3. l \in DOMAIN T[h].text /\ T[h].text[l] = out[h].text[l]
          BY DEF Coupled
        <5>4. h \in DOMAIN T /\ h < i
          BY <1>1, <1>3
        <5>5. Named(T, "function", entry.n, i, 1)
          BY <5>2, <5>3, <5>4 DEF Named
        <5> QED BY <5>5 DEF Known
      <4>3. CASE phase # "reached" /\ \E b \in DOMAIN Items : Items[b] = x
        <5>1. PICK b \in DOMAIN ItemSeq(p) : ItemSeq(p)[b] = x
          BY <4>3, <1>1, ItemsAre
        <5>2. PICK c \in DOMAIN ItemSeq(p) : ItemSeq(p)[b] = Ren(r, ItemSeq(p)[c])
          BY <1>1, SameList
        <5>3. HasNewId(r, ItemSeq(p)[c])
          BY <1>1, SameList
        <5>4. ItemSeq(p)[c] = a
          <6>1. Ren(r, ItemSeq(p)[c]) = Ren(r, a)
            BY <1>6, <5>1, <5>2
          <6>2. \A b1, b2 : HasNewId(r, b1) /\ HasNewId(r, b2) /\ Ren(r, b1) = Ren(r, b2) => b1 = b2
            BY RenOneToOne
          <6> QED BY <1>7, <5>3, <6>1, <6>2
        <5>5. IsListed(p, N, "function", entry.n)
          BY <1>6, <1>7, <2>1, <5>4 DEF IsListed
        <5> QED BY <1>12, <4>3, <5>5 DEF Known
      <4> QED BY <3>1, <4>1, <4>2, <4>3 DEF Accounted
    <3>3. HasEntry(T, "function", entry.n, i)
      BY <1>7, <1>9, <1>10, <2>1, <3>2 DEF EntryLaw
    <3>4. PICK h \in DOMAIN T : h < i /\ T[h].kind = "function" /\ T[h].n = entry.n
      BY <3>3 DEF HasEntry
    <3> QED BY <1>9, <1>11, <2>1, <3>4
  <2>2. ASSUME entry.kind = "global", T[i].kind = "function" PROVE FALSE
    <3>1. Known(p, N, T, "function", T[i].n, i, 1)
      BY <1>7, <1>9, <2>2 DEF EntryLaw
    <3>2. ASSUME NEW h \in DOMAIN T, NEW l \in DOMAIN T[h].text, h < i \/ (h = i /\ l < 1)
          PROVE  h \in DOMAIN out /\ l \in DOMAIN out[h].text
      <4>1. T[h] \in Entries
        BY <1>1
      <4>2. T[h].text \in Seq(Tokens)
        BY <4>1 DEF Entries
      <4>3. ~(l < 1)
        BY <4>2
      <4>4. h \in DOMAIN out
        BY <1>1, <1>2, <3>2, <4>3
      <4>5. Rest(h) = <<>>
        BY DEF Rest
      <4> QED BY <4>4, <4>5, FullText
    <3>3. ~T[i].reached => \A b \in DOMAIN ItemSeq(program) : ItemSeq(program)[b] \in DOMAIN Numbers
      BY <1>12, ListNumbered
    <3>4. \E y \in DOMAIN Numbers : y.kind = "function" /\ Numbers[y] = T[i].n
      BY <1>9, <1>10, <3>1, <3>2, <3>3, KnownNumbered
    <3>5. PICK y \in DOMAIN Numbers : y.kind = "function" /\ Numbers[y] = T[i].n
      BY <3>4
    <3>6. PICK h \in DOMAIN out : out[h].kind = "function" /\ out[h].n = Numbers[y]
      BY <2>2, <3>5, FunctionsWritten
    <3>7. h = i
      BY <1>1, <1>4, <1>9, <2>2, <3>5, <3>6 DEF Distinct
    <3> QED BY <1>3, <3>7
  <2> QED BY <1>10, <2>1, <2>2
<1>14. T[i].n = entry.n
  <2>1. ASSUME entry.n < T[i].n PROVE FALSE
    <3>1. HasEntry(T, entry.kind, entry.n, i)
      BY <1>7, <1>9, <1>10, <1>13, <2>1 DEF EntryLaw
    <3> QED BY <1>9, <1>11, <3>1 DEF HasEntry
  <2>2. ASSUME T[i].n < entry.n PROVE FALSE
    <3>1. PICK h \in DOMAIN out : out[h].kind = entry.kind /\ out[h].n = T[i].n
      BY <1>10, <2>2
    <3>2. h = i
      BY <1>1, <1>4, <1>9, <1>13, <3>1 DEF Distinct
    <3> QED BY <1>3, <3>2
  <2> QED BY <1>10, <2>1, <2>2
<1>15. T[i].missing = entry.missing /\ T[i].reached = entry.reached
  <2>1. PICK b \in DOMAIN N : OwnerIn(N, T, i, b) /\ (T[i].missing <=> ~PresentIn(p, b))
    BY <1>7, <1>9 DEF Complete, Reading
  <2>2. b = a
    BY <1>6, <1>7, <1>13, <1>14, <2>1 DEF OwnerIn
  <2>3. Present(x) <=> PresentIn(p, a)
    <3>1. program = Renamed(r, p) /\ x \in ItemName
      BY NumbersAre DEF Coupled
    <3>2. Present(x) <=> PresentIn(Renamed(r, p), Ren(r, a))
      BY <1>6, <3>1, InCurrent
    <3> QED BY <1>1, <1>7, <3>2, RenamedPresent
  <2>4. T[i].missing \in BOOLEAN /\ entry.missing \in BOOLEAN
        /\ T[i].reached \in BOOLEAN /\ entry.reached \in BOOLEAN
    BY <1>10 DEF Entries
  <2> QED BY <1>12, <2>1, <2>2, <2>3, <2>4
<1>16. Numbers' = Numbers
  BY NumbersSame
<1>17. \A h \in DOMAIN out' :
         /\ out'[h].kind = T[h].kind /\ out'[h].n = T[h].n
         /\ out'[h].missing = T[h].missing /\ out'[h].reached = T[h].reached
         /\ \A l \in DOMAIN out'[h].text : l \in DOMAIN T[h].text /\ out'[h].text[l] = T[h].text[l]
  <2> SUFFICES ASSUME NEW h \in DOMAIN out'
               PROVE  /\ out'[h].kind = T[h].kind /\ out'[h].n = T[h].n
                      /\ out'[h].missing = T[h].missing /\ out'[h].reached = T[h].reached
                      /\ \A l \in DOMAIN out'[h].text :
                           l \in DOMAIN T[h].text /\ out'[h].text[l] = T[h].text[l]
    OBVIOUS
  <2>1. CASE h \in DOMAIN out
    BY <1>3, <2>1 DEF Coupled
  <2>2. CASE h = i
    <3>1. DOMAIN entry.text = {}
      OBVIOUS
    <3> QED BY <1>3, <1>13, <1>14, <1>15, <2>2, <3>1
  <2> QED BY <1>3, <2>1, <2>2
<1>18. Len(out') <= Len(T)
  BY <1>1, <1>3, <1>9
<1> QED BY <1>16, <1>17, <1>18 DEF Coupled

\* A function's entry is the one the first text has there.
LEMMA EmitFunctionCoupled ==
  ASSUME IInv, IInv', TextInv, ReachInv, OrderInv, emit_function,
         NEW r \in Renaming, NEW p, NEW N, NEW T, Coupled(r, p, N, T)
  PROVE  Coupled(r, p, N, T)'
<1> PICK id : id = Head(function_queue)
  OBVIOUS
<1>1. /\ todo = <<>> /\ leftover = <<>> /\ functions' = functions /\ globals' = globals
      /\ program' = program /\ function_queue # <<>>
      /\ out' = Append(out, Entry("function", functions[id], ~HasFunction(id)))
  BY DEF emit_function, Draining
<1>2. /\ id \in DOMAIN functions /\ id \in Nat /\ functions[id] \in Nat
      /\ \A m \in Nat : m < functions[id] =>
           \E j \in DOMAIN out : out[j].kind = "function" /\ out[j].n = m
  BY <1>1, HeadNumber DEF IInv, TypeOK
<1> PICK entry : entry = Entry("function", functions[id], ~HasFunction(id))
  OBVIOUS
<1>3. entry \in Entries
  BY <1>2 DEF Entry, Entries
<1>4. /\ entry.kind = "function" /\ entry.n = functions[id] /\ entry.text = <<>>
      /\ entry.missing = ~HasFunction(id) /\ entry.reached = (phase = "reached")
  BY DEF Entry
<1> PICK x : x = Id("function", id)
  OBVIOUS
<1>5. /\ x \in ItemName /\ HasNumber(x) /\ x.kind = "function" /\ ItemNumber(x) = functions[id]
      /\ Present(x) = HasFunction(id)
  BY <1>2 DEF Id, ItemName, HasNumber, ItemNumber, Present
<1>6. x \in DOMAIN Numbers /\ Numbers[x] = entry.n
  BY <1>4, <1>5, NumbersAre
<1>7. (entry.missing <=> ~Present(x)) /\ (entry.reached <=> phase = "reached")
  BY <1>4, <1>5
<1> QED BY <1>1, <1>2, <1>3, <1>4, <1>5, <1>6, <1>7, EntryCoupled

\* A global's entry is the one the first text has there.
LEMMA EmitGlobalCoupled ==
  ASSUME IInv, IInv', TextInv, ReachInv, OrderInv, emit_global,
         NEW r \in Renaming, NEW p, NEW N, NEW T, Coupled(r, p, N, T)
  PROVE  Coupled(r, p, N, T)'
<1> PICK id : id = Head(global_queue)
  OBVIOUS
<1>1. /\ todo = <<>> /\ leftover = <<>> /\ functions' = functions /\ globals' = globals
      /\ program' = program /\ global_queue # <<>> /\ function_queue = <<>>
      /\ out' = Append(out, Entry("global", globals[id], ~HasGlobal(id)))
  BY DEF emit_global, Draining
<1>2. /\ id \in DOMAIN globals /\ id \in Nat /\ globals[id] \in Nat
      /\ \A m \in Nat : m < globals[id] =>
           \E j \in DOMAIN out : out[j].kind = "global" /\ out[j].n = m
  BY <1>1, HeadNumber DEF IInv, TypeOK
<1> PICK entry : entry = Entry("global", globals[id], ~HasGlobal(id))
  OBVIOUS
<1>3. entry \in Entries
  BY <1>2 DEF Entry, Entries
<1>4. /\ entry.kind = "global" /\ entry.n = globals[id] /\ entry.text = <<>>
      /\ entry.missing = ~HasGlobal(id) /\ entry.reached = (phase = "reached")
  BY DEF Entry
<1> PICK x : x = Id("global", id)
  OBVIOUS
<1>5. /\ x \in ItemName /\ HasNumber(x) /\ x.kind = "global" /\ ItemNumber(x) = globals[id]
      /\ Present(x) = HasGlobal(id)
  BY <1>2 DEF Id, ItemName, HasNumber, ItemNumber, Present
<1>6. x \in DOMAIN Numbers /\ Numbers[x] = entry.n
  BY <1>4, <1>5, NumbersAre
<1>7. (entry.missing <=> ~Present(x)) /\ (entry.reached <=> phase = "reached")
  BY <1>4, <1>5
<1> QED BY <1>1, <1>2, <1>3, <1>4, <1>5, <1>6, <1>7, EntryCoupled

\* Past the mark, the items main reaches have their numbers.
LEMMA ReachedNumbered ==
  ASSUME IInv, TextInv, ReachInv, OrderInv,
         NEW r \in Renaming, NEW p, NEW N, NEW T, Coupled(r, p, N, T),
         phase # "reached", todo = <<>>, NEW a \in ReachedIn(N, T)
  PROVE  Ren(r, a) \in DOMAIN Numbers /\ Numbers[Ren(r, a)] = N[a]
<1>1. PICK i \in DOMAIN T : T[i].reached /\ OwnerIn(N, T, i, a)
  BY DEF ReachedIn
<1>2. a \in DOMAIN N
  BY DEF ReachedIn
<1>3. i \in DOMAIN out
  <2>1. ~(Len(out) < i)
    BY <1>1, NoneReachedLeft
  <2> QED BY <2>1, BothTexts
<1>4. PICK y \in ItemName : Owner(i, y)
  BY <1>3 DEF TextInv
<1>5. y \in DOMAIN Numbers /\ Numbers[y] = out[i].n /\ y.kind = out[i].kind
  BY <1>4, NumbersAre DEF Owner, IsEntryOf
<1>6. Numbers[y] = N[a] /\ y.kind = a.kind
  BY <1>1, <1>3, <1>5 DEF Coupled, OwnerIn
<1>7. y = Ren(r, a)
  BY <1>2, <1>5, <1>6, SameItem
<1> QED BY <1>5, <1>6, <1>7

\* The next listed item is, of those without a number, the first in both lists.
LEMMA NumberLeftoverCoupled ==
  ASSUME IInv, TextInv, ReachInv, OrderInv, NumberLeftover,
         NEW r \in Renaming, NEW p, NEW N, NEW T, Coupled(r, p, N, T)
  PROVE  Coupled(r, p, N, T)'
<1> PICK x : x = Head(leftover)
  OBVIOUS
<1>1. /\ leftover # <<>> /\ leftover \in Seq(ItemName) /\ program' = program /\ out' = out
      /\ \/ x.kind = "function" /\ function_id(x.id)
         \/ x.kind = "global" /\ global_id(x.id)
  BY DEF NumberLeftover, IInv, TypeOK
<1>2. x \in ItemName /\ x = leftover[1] /\ 1 \in DOMAIN leftover
  BY <1>1
<1>3. phase = "unreachable" /\ todo = <<>>
  BY <1>1 DEF OrderInv, ReachInv, IInv, TypeOK
<1>4. /\ DOMAIN Numbers' = DOMAIN Numbers \cup {x}
      /\ \A v \in DOMAIN Numbers : Numbers'[v] = Numbers[v]
      /\ Numbers'[x] \in Nat
      /\ \A m \in Nat : m < Numbers'[x] => \E v \in DOMAIN Numbers : v.kind = x.kind /\ Numbers[v] = m
      /\ x \notin DOMAIN Numbers =>
           \A v \in DOMAIN Numbers : v.kind = x.kind => Numbers[v] < Numbers'[x]
  BY <1>1, <1>2, MeetsItem
<1>5. PICK S : S = ItemSeq(p)
  OBVIOUS
<1>6. IsProgram(p) /\ Fits(r, p) /\ Items = S /\ Complete(p, N, T) /\ InOrder(r, N, T)
  BY <1>5, BothTexts, ItemsAre DEF Coupled
<1>7. PICK d \in Nat :
        /\ d + Len(leftover) = Len(Items)
        /\ \A j \in DOMAIN leftover : leftover[j] = Items[d + j]
        /\ \A b \in 1 .. d : Items[b] \in DOMAIN Numbers
  BY <1>3 DEF OrderInv, Listing
<1>8. S \in Seq(ItemName)
  BY <1>6, ProgramTypes DEF IInv, TypeOK
<1>9. PICK h \in DOMAIN S : h = d + 1 /\ S[h] = x
  BY <1>1, <1>2, <1>6, <1>7, <1>8
<1>10. /\ \A b \in DOMAIN S : /\ HasNewId(r, S[b])
                              /\ \E c \in DOMAIN S : S[c] = Ren(r, S[b])
                              /\ \E c \in DOMAIN S : S[b] = Ren(r, S[c])
       /\ \A b, c \in DOMAIN S : S[b].kind = S[c].kind => (S[b].id < S[c].id <=> b < c)
  BY <1>5, <1>6, SameList
<1>11. PICK g \in DOMAIN S : x = Ren(r, S[g])
  BY <1>9, <1>10
<1>12. PICK a \in DOMAIN N : a = S[g]
  BY <1>5, <1>6 DEF Complete, Ordering
<1>13. x = Ren(r, a) /\ N[a] \in Nat
  BY <1>6, <1>11, <1>12 DEF Complete, Numbering
<1>14. x.kind = a.kind /\ \A y \in DOMAIN Numbers : y.kind = a.kind /\ Numbers[y] = N[a] => y = x
  BY <1>13, SameItem
<1>15. ASSUME x \notin DOMAIN Numbers PROVE Numbers'[x] = N[a]
  <2>1. ASSUME N[a] < Numbers'[x] PROVE FALSE
    <3>1. PICK w \in DOMAIN Numbers : w.kind = x.kind /\ Numbers[w] = N[a]
      BY <1>4, <1>13, <2>1
    <3> QED BY <1>14, <1>15, <3>1
  <2>2. ASSUME Numbers'[x] < N[a] PROVE FALSE
    <3>1. PICK c \in Nat : c = Numbers'[x]
      BY <1>4
    <3>2. PICK v \in DOMAIN N : v.kind = a.kind /\ N[v] = c
      BY <1>6, <2>2, <3>1 DEF Complete, Numbering
    <3>3. Ren(r, v) \notin DOMAIN Numbers
      <4> SUFFICES ASSUME Ren(r, v) \in DOMAIN Numbers PROVE FALSE
        OBVIOUS
      <4>1. Numbers[Ren(r, v)] = c /\ Ren(r, v).kind = x.kind
        BY <1>14, <3>2, SameItem
      <4>2. Numbers[Ren(r, v)] < c
        BY <1>4, <1>15, <3>1, <4>1
      <4> QED BY <4>1, <4>2
    <3>4. a \notin ReachedIn(N, T) /\ v \notin ReachedIn(N, T)
      <4>1. \A b \in ReachedIn(N, T) : Ren(r, b) \in DOMAIN Numbers
        BY <1>3, ReachedNumbered
      <4> QED BY <1>13, <1>15, <3>3, <4>1
    <3>5. PICK b \in DOMAIN S : b < g /\ S[b] = v
      <4>1. ListLaw(p, N, ReachedIn(N, T))
        BY <1>6 DEF Complete, Ordering
      <4>2. N[v] < N[a]
        BY <2>2, <3>1, <3>2
      <4> QED BY <1>5, <1>12, <3>2, <3>4, <4>1, <4>2 DEF ListLaw
    <3>6. v.id < a.id
      BY <1>10, <1>12, <3>2, <3>5
    <3>7. Ren(r, v).id < Ren(r, a).id
      BY <1>6, <3>2, <3>4, <3>6 DEF InOrder
    <3>8. PICK f \in DOMAIN S : S[f] = Ren(r, v)
      BY <1>10, <3>5
    <3>9. f < h
      <4>1. S[f].kind = S[h].kind
        BY <1>9, <1>14, <3>2, <3>8, SameItem
      <4>2. S[f].id < S[h].id
        BY <1>9, <1>13, <3>7, <3>8
      <4> QED BY <1>10, <4>1, <4>2
    <3>10. f \in 1 .. d
      BY <1>7, <1>8, <1>9, <3>9
    <3> QED BY <1>6, <1>7, <3>3, <3>8, <3>10
  <2> QED BY <1>4, <1>13, <2>1, <2>2
<1>16. \A y \in DOMAIN Numbers' : \E b \in DOMAIN N : y = Ren(r, b) /\ N[b] = Numbers'[y]
  <2>1. \A y \in DOMAIN Numbers : \E b \in DOMAIN N : y = Ren(r, b) /\ N[b] = Numbers[y]
    BY DEF Coupled
  <2> QED BY <1>4, <1>13, <1>15, <2>1
<1> QED BY <1>1, <1>16 DEF Coupled

\* A step that numbers and writes nothing keeps the texts together.
LEMMA StillCoupled ==
  ASSUME functions' = functions, globals' = globals, program' = program, out' = out,
         NEW r \in Renaming, NEW p, NEW N, NEW T, Coupled(r, p, N, T)
  PROVE  Coupled(r, p, N, T)'
BY NumbersSame DEF Coupled

\* Every step of the second compilation keeps the texts together.
LEMMA NextCoupled ==
  ASSUME IInv, IInv', TextInv, TextInv', ReachInv, OrderInv, [Next]_vars,
         NEW r \in Renaming, NEW p, NEW N, NEW T, Coupled(r, p, N, T)
  PROVE  Coupled(r, p, N, T)'
<1>1. CASE WriteExpr
  BY <1>1, WriteExprCoupled
<1>2. CASE emit_function
  BY <1>2, EmitFunctionCoupled
<1>3. CASE emit_global
  BY <1>3, EmitGlobalCoupled
<1>4. CASE StartUnreachable
  BY <1>4, StillCoupled DEF StartUnreachable
<1>5. CASE NumberLeftover
  BY <1>5, NumberLeftoverCoupled
<1>6. CASE Finish
  BY <1>6, StillCoupled DEF Finish
<1>7. CASE UNCHANGED vars
  BY <1>7, StillCoupled DEF vars
<1> QED BY <1>1, <1>2, <1>3, <1>4, <1>5, <1>6, <1>7 DEF Next

\* While there is an earlier text, the new one is coupled with it.
CoupleInv == earlier # <<>> => \E r \in Renaming : \E p, N : Coupled(r, p, N, earlier)

\* CoupleInv holds throughout both compilations.
LEMMA CoupleInduction == RecompileSpec => []CoupleInv
<1>1. RecompileInit => CoupleInv
  BY DEF RecompileInit, CoupleInv
<1>2. /\ IInv /\ IInv' /\ TextInv /\ TextInv' /\ ReachInv /\ OrderInv /\ CoupleInv
      /\ [RecompileNext]_<<vars, earlier>>
      => CoupleInv'
  <2> SUFFICES ASSUME IInv, IInv', TextInv, TextInv', ReachInv, OrderInv, CoupleInv,
                      [RecompileNext]_<<vars, earlier>>, earlier' # <<>>
               PROVE  \E r \in Renaming : \E p, N : Coupled(r, p, N, earlier)'
    BY DEF CoupleInv
  <2>1. CASE [Next]_vars /\ earlier' = earlier
    <3>1. PICK r \in Renaming : \E p, N : Coupled(r, p, N, earlier)
      BY <2>1 DEF CoupleInv
    <3>2. PICK p, N : Coupled(r, p, N, earlier)
      BY <3>1
    <3>3. PICK T : T = earlier
      OBVIOUS
    <3>4. Coupled(r, p, N, T)'
      BY <2>1, <3>2, <3>3, NextCoupled
    <3>5. Coupled(r, p, N, earlier)'
      BY <2>1, <3>3, <3>4
    <3> QED BY <3>5
  <2>2. CASE CompileAgain
    <3>1. PICK r \in Renaming :
            \E p, N, T : p = program /\ N = Numbers /\ T = out /\ Coupled(r, p, N, T)'
      BY <2>2, StartsCoupled
    <3>2. PICK p, N, T : p = program /\ N = Numbers /\ T = out /\ Coupled(r, p, N, T)'
      BY <3>1
    <3>3. earlier' = T
      BY <2>2, <3>2 DEF CompileAgain
    <3>4. Coupled(r, p, N, earlier)'
      BY <3>2, <3>3
    <3> QED BY <3>4
  <2> QED BY <2>1, <2>2 DEF RecompileNext
<1> QED BY <1>1, <1>2, Induction, TextInduction, ReachInduction, OrderInduction, PTL DEF RecompileSpec

\* When the second text is done, nothing of the first is left.
LEMMA DoneSame ==
  ASSUME IInv, TextInv, ReachInv, OrderInv, phase = "done",
         NEW r \in Renaming, NEW p, NEW N, NEW T, Coupled(r, p, N, T)
  PROVE  out = T
<1>1. /\ out \in Seq(Entries) /\ T \in Seq(Entries) /\ Distinct(T)
      /\ Len(out) \in Nat /\ Len(T) \in Nat /\ Len(out) <= Len(T)
      /\ DOMAIN out = 1 .. Len(out) /\ DOMAIN T = 1 .. Len(T)
      /\ \A i \in DOMAIN out : i \in DOMAIN T
  BY BothTexts
<1>2. todo = <<>> /\ leftover = <<>> /\ function_queue = <<>> /\ global_queue = <<>>
  BY DEF IInv
<1>3. \A i \in DOMAIN out : /\ out[i].kind = T[i].kind /\ out[i].n = T[i].n
                            /\ out[i].missing = T[i].missing /\ out[i].reached = T[i].reached
  BY DEF Coupled
<1>4. \A i \in DOMAIN out : out[i].text = T[i].text
  <2> SUFFICES ASSUME NEW i \in DOMAIN out PROVE out[i].text = T[i].text
    OBVIOUS
  <2>1. Rest(i) = <<>>
    BY <1>2 DEF Rest
  <2> QED BY <2>1, FullText
<1>5. ASSUME Len(out) < Len(T) PROVE FALSE
  <2>1. PICK i \in DOMAIN T : i = Len(out) + 1
    BY <1>1, <1>5
  <2>2. T[i].kind \in {"function", "global"} /\ T[i].n \in Nat
    <3>1. T[i] \in Entries
      BY <1>1
    <3> QED BY <3>1 DEF Entries
  <2>3. Known(p, N, T, T[i].kind, T[i].n, i, 1)
    BY DEF Coupled, Complete, Ordering, EntryLaw
  <2>4. ASSUME NEW h \in DOMAIN T, NEW l \in DOMAIN T[h].text, h < i \/ (h = i /\ l < 1)
        PROVE  h \in DOMAIN out /\ l \in DOMAIN out[h].text
    <3>1. T[h] \in Entries
      BY <1>1
    <3>2. T[h].text \in Seq(Tokens)
      BY <3>1 DEF Entries
    <3>3. ~(l < 1)
      BY <3>2
    <3>4. h \in DOMAIN out
      BY <1>1, <2>1, <2>4, <3>3
    <3> QED BY <1>4, <3>4
  <2>5. \A b \in DOMAIN ItemSeq(program) : ItemSeq(program)[b] \in DOMAIN Numbers
    BY <1>2, ListNumbered
  <2>6. \E y \in DOMAIN Numbers : y.kind = T[i].kind /\ Numbers[y] = T[i].n
    BY <2>2, <2>3, <2>4, <2>5, KnownNumbered
  <2>7. PICK y \in DOMAIN Numbers : y.kind = T[i].kind /\ Numbers[y] = T[i].n
    BY <2>6
  <2>8. y \in ItemName /\ HasNumber(y) /\ Numbers[y] = ItemNumber(y)
    BY NumbersAre
  <2>9. PICK j \in DOMAIN out : Owner(j, y)
    BY <1>2, <2>8, AllWritten
  <2>10. T[j].kind = T[i].kind /\ T[j].n = T[i].n
    BY <1>3, <2>7, <2>8, <2>9 DEF Owner, IsEntryOf
  <2>11. j = i
    BY <1>1, <2>10 DEF Distinct
  <2> QED BY <1>1, <2>1, <2>11
<1>6. Len(out) = Len(T)
  <2>1. PICK a, b : a = Len(out) /\ b = Len(T)
    OBVIOUS
  <2>2. a \in Nat /\ b \in Nat /\ a <= b /\ ~(a < b)
    BY <1>1, <1>5, <2>1
  <2>3. a = b
    BY <2>2
  <2> QED BY <2>1, <2>3
<1>7. \A i \in DOMAIN out : out[i] = T[i]
  <2> SUFFICES ASSUME NEW i \in DOMAIN out PROVE out[i] = T[i]
    OBVIOUS
  <2>1. out[i] \in Entries /\ T[i] \in Entries
    BY <1>1
  <2>2. PICK e, f : e = out[i] /\ f = T[i]
    OBVIOUS
  <2>3. /\ e.kind = f.kind /\ e.n = f.n /\ e.missing = f.missing /\ e.reached = f.reached
        /\ e.text = f.text
    BY <1>3, <1>4, <2>2
  <2>4. e = f
    BY <2>1, <2>2, <2>3 DEF Entries
  <2> QED BY <2>2, <2>4
<1>8. PICK S, R : S = out /\ R = T
  OBVIOUS
<1>9. S \in Seq(Entries) /\ R \in Seq(Entries) /\ Len(S) = Len(R) /\ \A i \in 1 .. Len(S) : S[i] = R[i]
  BY <1>1, <1>6, <1>7, <1>8
<1>10. S = R
  BY <1>9, SeqEqual
<1> QED BY <1>8, <1>10

\* Another compilation of a program, with other ids for its functions, globals
\* and locals, has the same text.
THEOREM RenumberingChangesNothing == RecompileSpec => []RenumberingInvisible
<1>1. IInv /\ TextInv /\ ReachInv /\ OrderInv /\ CoupleInv => RenumberingInvisible
  BY DoneSame DEF CoupleInv, RenumberingInvisible
<1> QED BY <1>1, Induction, TextInduction, ReachInduction, OrderInduction, CoupleInduction, PTL
=============================================================================
