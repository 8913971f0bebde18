---------------------- MODULE WeightedRoundRobin_proofs ----------------------
(***************************************************************************)
(* Theorems of WeightedRoundRobin, for any number of backends, workers and *)
(* keys, any weights and any schedule of turns and health changes. They    *)
(* begin with the arithmetic of new(): the weights are folded by a         *)
(* recursive function, so that its values are reached by induction, over   *)
(* a set of numbers (the least number outside it would contradict the      *)
(* step).                                                                  *)
(***************************************************************************)
EXTENDS WeightedRoundRobin, FiniteSetTheorems, WellFoundedInduction, TLAPS

LEMMA SetInduction ==
  ASSUME NEW T, 0 \in T, \A n \in T \cap Nat : n + 1 \in T
  PROVE  Nat \subseteq T
<1> DEFINE U == Nat \ T
           Less == OpToRel(<, Nat)
<1>1. \A x, y \in Nat : x < y => <<x, y>> \in Less
  BY DEF OpToRel
<1>2. IsWellFoundedOn(Less, Nat)
  BY NatLessThanWellFounded
<1> HIDE DEF Less
<1> SUFFICES ASSUME U # {} PROVE FALSE
  OBVIOUS
<1>3. U \subseteq Nat
  OBVIOUS
<1> HIDE DEF U
<1>4. PICK m \in U : \A y \in U : ~(<<y, m>> \in Less)
  BY <1>2, <1>3, WFMin
<1> USE DEF U
<1>5. m # 0 /\ m - 1 \in Nat /\ m - 1 < m
  OBVIOUS
<1>6. m - 1 \in T
  BY <1>1, <1>4, <1>5
<1> QED
  BY <1>5, <1>6

LEMMA BackendFacts ==
  /\ \A b \in Backends : b \in Nat /\ b < N
  /\ \A n \in Nat : n < N => n \in Backends
  /\ None \notin Backends /\ None \notin Keys /\ None \notin Workers
  /\ \A b \in Backends : Weight[b] \in Nat \ {0}
  /\ N \in Nat /\ N > 0
BY NAssumption, NoneAssumption, LockAssumption, WeightAssumption DEF Backends

-----------------------------------------------------------------------------
(* max_weight is the weight of a backend, and no weight exceeds it. *)
LEMMA MaxWeightFacts ==
  /\ MaxWeight \in Nat \ {0}
  /\ \E b \in Backends : MaxWeight = Weight[b]
  /\ \A b \in Backends : Weight[b] <= MaxWeight
<1> DEFINE HasMax(n) == \E c \in Backends : \A b \in Backends : b <= n => Weight[b] <= Weight[c]
           T == {n \in Nat : HasMax(n)}
<1>1. 0 \in T
  <2>1. 0 \in Backends /\ \A b \in Backends : b <= 0 => b = 0
    BY BackendFacts
  <2> QED
    BY <2>1, BackendFacts
<1>2. ASSUME NEW n \in T \cap Nat
      PROVE  n + 1 \in T
  <2>1. PICK c \in Backends : \A b \in Backends : b <= n => Weight[b] <= Weight[c]
    OBVIOUS
  <2>2. \A b \in Backends : b <= n + 1 => b <= n \/ b = n + 1
    BY BackendFacts
  <2>3. CASE n + 1 \in Backends /\ Weight[n + 1] > Weight[c]
    BY <2>1, <2>2, <2>3, BackendFacts
  <2>4. CASE ~(n + 1 \in Backends /\ Weight[n + 1] > Weight[c])
    BY <2>1, <2>2, <2>4, BackendFacts
  <2> QED
    BY <2>3, <2>4
<1>3. N \in T
  <2> HIDE DEF T
  <2> QED
    BY <1>1, <1>2, SetInduction, BackendFacts
<1>4. PICK c \in Backends : \A b \in Backends : Weight[b] <= Weight[c]
  BY <1>3, BackendFacts
<1>5. MaxWeight \in {Weight[b] : b \in Backends} /\ \A b \in Backends : Weight[b] <= MaxWeight
  BY <1>4 DEF MaxWeight
<1> QED
  BY <1>5, BackendFacts

-----------------------------------------------------------------------------
(* gcd_f64 recurs on its second argument, which falls: the value for a     *)
(* pair is fixed by the values for smaller second arguments. Gcd(epsilon)  *)
(* is the function GcdF64 applies, GcdStep its body, and Partial(., m) are *)
(* the functions that obey it for second arguments up to m. There is one   *)
(* of each, and they agree.                                                *)
Gcd(epsilon) ==
  LET gcd[p \in Nat \X Nat] ==
        IF p[2] < epsilon THEN p[1] ELSE gcd[<<p[2], p[1] % p[2]>>]
  IN  gcd

LEMMA GcdF64IsGcd ==
  ASSUME NEW a, NEW b, NEW epsilon
  PROVE  GcdF64(a, b, epsilon) = Gcd(epsilon)[<<a, b>>]
BY DEF GcdF64, Gcd

GcdStep(epsilon, g, p) == IF p[2] < epsilon THEN p[1] ELSE g[<<p[2], p[1] % p[2]>>]

Partial(epsilon, m) ==
  {g \in [Nat \X (0 .. m) -> Nat] : \A p \in Nat \X (0 .. m) : g[p] = GcdStep(epsilon, g, p)}

LEMMA Falls ==
  ASSUME NEW epsilon \in Nat \ {0}, NEW p \in Nat \X Nat, p[2] >= epsilon
  PROVE  /\ p[1] \in Nat /\ p[2] \in Nat \ {0}
         /\ p[1] % p[2] \in 0 .. (p[2] - 1)
OBVIOUS

LEMMA PartialExists ==
  ASSUME NEW epsilon \in Nat \ {0}
  PROVE  \A m \in Nat : Partial(epsilon, m) # {}
<1> DEFINE T == {m \in Nat : Partial(epsilon, m) # {}}
<1>1. 0 \in T
  <2> DEFINE g == [p \in Nat \X (0 .. 0) |-> p[1]]
  <2>1. g \in Partial(epsilon, 0)
    BY DEF Partial, GcdStep
  <2> QED
    BY <2>1
<1>2. ASSUME NEW m \in T \cap Nat
      PROVE  m + 1 \in T
  <2>1. PICK g : g \in Partial(epsilon, m)
    OBVIOUS
  <2> DEFINE h == [p \in Nat \X (0 .. (m + 1)) |-> IF p[2] <= m THEN g[p] ELSE GcdStep(epsilon, g, p)]
  <2>2. /\ g \in [Nat \X (0 .. m) -> Nat]
        /\ \A p \in Nat \X (0 .. m) : g[p] = GcdStep(epsilon, g, p)
    BY <2>1 DEF Partial
  <2>3. ASSUME NEW p \in Nat \X (0 .. (m + 1))
        PROVE  h[p] = GcdStep(epsilon, g, p) /\ h[p] \in Nat /\ GcdStep(epsilon, h, p) = GcdStep(epsilon, g, p)
    <3>1. p \in Nat \X Nat /\ p[1] \in Nat /\ p[2] \in 0 .. (m + 1)
      BY SMT
    <3>2. h[p] = GcdStep(epsilon, g, p)
      BY <2>2, <3>1
    <3>3. CASE p[2] < epsilon
      BY <3>1, <3>2, <3>3 DEF GcdStep
    <3>4. CASE p[2] >= epsilon
      <4>1. <<p[2], p[1] % p[2]>> \in Nat \X (0 .. m)
        BY <3>1, <3>4, Falls
      <4>2. h[<<p[2], p[1] % p[2]>>] = g[<<p[2], p[1] % p[2]>>]
        BY <4>1
      <4> QED
        BY <2>2, <3>1, <3>2, <4>1, <4>2 DEF GcdStep
    <3> QED
      BY <3>1, <3>3, <3>4
  <2> HIDE DEF h
  <2>4. h \in [Nat \X (0 .. (m + 1)) -> Nat]
    BY <2>3 DEF h
  <2>5. h \in Partial(epsilon, m + 1)
    BY <2>3, <2>4 DEF Partial
  <2> QED
    BY <2>5
<1> HIDE DEF T
<1>3. Nat \subseteq T
  BY <1>1, <1>2, SetInduction
<1> QED
  BY <1>3 DEF T

LEMMA PartialAgree ==
  ASSUME NEW epsilon \in Nat \ {0},
         NEW m \in Nat, NEW n \in Nat,
         NEW g \in Partial(epsilon, m), NEW h \in Partial(epsilon, n)
  PROVE  \A p \in Nat \X Nat : p[2] <= m /\ p[2] <= n => g[p] = h[p]
<1> DEFINE T == {k \in Nat : \A p \in Nat \X Nat :
                   p[2] <= k /\ p[2] <= m /\ p[2] <= n => g[p] = h[p]}
<1>0. /\ \A p \in Nat \X (0 .. m) : g[p] = GcdStep(epsilon, g, p)
      /\ \A p \in Nat \X (0 .. n) : h[p] = GcdStep(epsilon, h, p)
  BY DEF Partial
<1>1. 0 \in T
  <2>1. ASSUME NEW p \in Nat \X Nat, p[2] <= 0, p[2] <= m, p[2] <= n
        PROVE  g[p] = h[p]
    <3>1. p \in Nat \X (0 .. m) /\ p \in Nat \X (0 .. n) /\ p[2] < epsilon
      BY <2>1
    <3> QED
      BY <1>0, <3>1 DEF GcdStep
  <2> QED
    BY <2>1
<1>2. ASSUME NEW k \in T \cap Nat
      PROVE  k + 1 \in T
  <2>1. ASSUME NEW p \in Nat \X Nat, p[2] <= k + 1, p[2] <= m, p[2] <= n
        PROVE  g[p] = h[p]
    <3>1. p \in Nat \X (0 .. m) /\ p \in Nat \X (0 .. n)
      BY <2>1
    <3>2. g[p] = GcdStep(epsilon, g, p) /\ h[p] = GcdStep(epsilon, h, p)
      BY <1>0, <3>1
    <3>3. CASE p[2] < epsilon
      BY <3>2, <3>3 DEF GcdStep
    <3>4. CASE p[2] >= epsilon
      <4> DEFINE q == <<p[2], p[1] % p[2]>>
      <4>1. q \in Nat \X Nat /\ q[2] <= k /\ q[2] <= m /\ q[2] <= n
        BY <2>1, <3>4, Falls
      <4>2. g[q] = h[q]
        BY <4>1
      <4> QED
        BY <3>2, <4>2 DEF GcdStep
    <3> QED
      BY <3>3, <3>4
  <2> QED
    BY <2>1
<1> HIDE DEF T
<1>3. Nat \subseteq T
  BY <1>1, <1>2, SetInduction
<1>4. ASSUME NEW p \in Nat \X Nat, p[2] <= m, p[2] <= n
      PROVE  g[p] = h[p]
  <2>1. p[2] \in T /\ p[2] <= p[2]
    BY <1>3
  <2> QED
    BY <1>4, <2>1 DEF T
<1> QED
  BY <1>4

LEMMA GcdDef ==
  ASSUME NEW epsilon \in Nat \ {0}
  PROVE  /\ Gcd(epsilon) \in [Nat \X Nat -> Nat]
         /\ \A p \in Nat \X Nat : Gcd(epsilon)[p] = GcdStep(epsilon, Gcd(epsilon), p)
<1> DEFINE part(m) == CHOOSE g : g \in Partial(epsilon, m)
           f == [p \in Nat \X Nat |-> part(p[2])[p]]
<1>1. \A m \in Nat : part(m) \in Partial(epsilon, m)
  BY PartialExists
<1>2. ASSUME NEW p \in Nat \X Nat
      PROVE  f[p] = GcdStep(epsilon, f, p) /\ f[p] \in Nat
  <2>1. f[p] = part(p[2])[p] /\ p[1] \in Nat /\ p[2] \in Nat /\ p \in Nat \X (0 .. p[2])
    OBVIOUS
  <2> HIDE DEF part, f
  <2>2. part(p[2])[p] = GcdStep(epsilon, part(p[2]), p) /\ part(p[2])[p] \in Nat
    BY <1>1, <2>1 DEF Partial
  <2>3. CASE p[2] < epsilon
    BY <2>1, <2>2, <2>3 DEF GcdStep
  <2>4. CASE p[2] >= epsilon
    <3> DEFINE q == <<p[2], p[1] % p[2]>>
    <3>1. q \in Nat \X Nat /\ q[2] \in Nat /\ q[2] <= p[2]
      BY <2>4, Falls
    <3>2. f[q] = part(q[2])[q]
      BY <3>1 DEF f
    <3>3. part(q[2])[q] = part(p[2])[q]
      BY <1>1, <2>1, <3>1, PartialAgree
    <3> QED
      BY <2>1, <2>2, <2>4, <3>2, <3>3 DEF GcdStep
  <2> QED
    BY <2>1, <2>3, <2>4
<1>3. f = [p \in Nat \X Nat |-> IF p[2] < epsilon THEN p[1] ELSE f[<<p[2], p[1] % p[2]>>]]
  <2> HIDE DEF part
  <2>1. \A p \in Nat \X Nat : f[p] = IF p[2] < epsilon THEN p[1] ELSE f[<<p[2], p[1] % p[2]>>]
    BY <1>2 DEF GcdStep
  <2> QED
    BY <2>1
<1> HIDE DEF f
<1>4. Gcd(epsilon) = [p \in Nat \X Nat |->
                  IF p[2] < epsilon THEN p[1] ELSE Gcd(epsilon)[<<p[2], p[1] % p[2]>>]]
  BY <1>3 DEF Gcd
<1>5. \A p \in Nat \X Nat : Gcd(epsilon)[p] = GcdStep(epsilon, Gcd(epsilon), p)
  BY <1>4 DEF GcdStep
<1> DEFINE T == {k \in Nat : \A p \in Nat \X Nat : p[2] <= k => Gcd(epsilon)[p] \in Nat}
<1>6. 0 \in T
  <2>1. ASSUME NEW p \in Nat \X Nat, p[2] <= 0
        PROVE  Gcd(epsilon)[p] \in Nat
    <3>1. p[1] \in Nat /\ p[2] < epsilon
      BY <2>1
    <3> QED
      BY <1>5, <3>1 DEF GcdStep
  <2> QED
    BY <2>1
<1>7. ASSUME NEW k \in T \cap Nat
      PROVE  k + 1 \in T
  <2>1. ASSUME NEW p \in Nat \X Nat, p[2] <= k + 1
        PROVE  Gcd(epsilon)[p] \in Nat
    <3>1. CASE p[2] < epsilon
      BY <1>5, <3>1 DEF GcdStep
    <3>2. CASE p[2] >= epsilon
      <4>1. <<p[2], p[1] % p[2]>> \in Nat \X Nat /\ p[1] % p[2] <= k
        BY <2>1, <3>2, Falls
      <4> QED
        BY <1>5, <3>2, <4>1 DEF GcdStep
    <3> QED
      BY <3>1, <3>2
  <2> QED
    BY <2>1
<1>8. \A p \in Nat \X Nat : Gcd(epsilon)[p] \in Nat
  <2> HIDE DEF T
  <2>1. Nat \subseteq T
    BY <1>6, <1>7, SetInduction
  <2>2. \A p \in Nat \X Nat : p[2] \in T /\ p[2] <= p[2]
    BY <2>1
  <2> QED
    BY <2>2 DEF T
<1>9. Gcd(epsilon) \in [Nat \X Nat -> Nat]
  BY <1>4, <1>8
<1> QED
  BY <1>5, <1>9

-----------------------------------------------------------------------------
(* The fold of a list of weights obeys its definition, by the same         *)
(* argument.                                                               *)
FoldOf(weights, epsilon) ==
  LET fold[n \in 0 .. Len(weights)] ==
        IF n = 0 THEN 0 ELSE GcdF64(fold[n - 1], weights[n], epsilon)
  IN  fold

LEMMA StepIsFold ==
  ASSUME NEW weights, NEW epsilon
  PROVE  StepOf(weights, epsilon) =
           IF FoldOf(weights, epsilon)[Len(weights)] > 0
           THEN FoldOf(weights, epsilon)[Len(weights)] ELSE One
BY DEF StepOf, FoldOf

FoldStep(weights, epsilon, g, n) ==
  IF n = 0 THEN 0 ELSE Gcd(epsilon)[<<g[n - 1], weights[n]>>]

LEMMA ListFacts ==
  ASSUME NEW weights \in Seq(Nat \ {0})
  PROVE  /\ Len(weights) \in Nat
         /\ \A i \in 1 .. Len(weights) : weights[i] \in Nat \ {0}
OBVIOUS

LEMMA FoldDef ==
  ASSUME NEW weights \in Seq(Nat \ {0}), NEW epsilon \in Nat \ {0}
  PROVE  /\ \A n \in 0 .. Len(weights) :
              FoldOf(weights, epsilon)[n]
                = FoldStep(weights, epsilon, FoldOf(weights, epsilon), n)
         /\ \A n \in 0 .. Len(weights) : FoldOf(weights, epsilon)[n] \in Nat
<1> DEFINE L == Len(weights)
           Step(g, n) == FoldStep(weights, epsilon, g, n)
           Fold(m) == {g \in [0 .. m -> Nat] : \A n \in 0 .. m : g[n] = Step(g, n)}
           F == FoldOf(weights, epsilon)
           T == {m \in Nat : m <= L => Fold(m) # {}}
<1>0. L \in Nat /\ \A i \in 1 .. L : weights[i] \in Nat
  BY ListFacts
<1> HIDE DEF L
<1>1. 0 \in T
  <2> DEFINE g == [n \in 0 .. 0 |-> 0]
  <2>1. g \in Fold(0)
    BY DEF FoldStep
  <2> QED
    BY <2>1
<1>2. ASSUME NEW m \in T \cap Nat
      PROVE  m + 1 \in T
  <2> SUFFICES ASSUME m + 1 <= L PROVE Fold(m + 1) # {}
    OBVIOUS
  <2>1. PICK g : g \in Fold(m)
    BY <1>0
  <2> DEFINE h == [n \in 0 .. (m + 1) |-> IF n <= m THEN g[n] ELSE Step(g, n)]
  <2>2. /\ g \in [0 .. m -> Nat]
        /\ \A n \in 0 .. m : g[n] = Step(g, n)
    BY <2>1
  <2>3. ASSUME NEW n \in 0 .. (m + 1)
        PROVE  h[n] = Step(g, n) /\ h[n] \in Nat /\ Step(h, n) = Step(g, n)
    <3>1. h[n] = Step(g, n)
      BY <2>2
    <3>2. CASE n = 0
      BY <3>1, <3>2 DEF FoldStep
    <3>3. CASE n # 0
      <4>1. n - 1 \in 0 .. m /\ n # 0 /\ n \in 1 .. L /\ h[n - 1] = g[n - 1]
        BY <3>3, <1>0
      <4>2. g[n - 1] \in Nat /\ weights[n] \in Nat
        BY <2>2, <4>1, <1>0
      <4>3. Gcd(epsilon)[<<g[n - 1], weights[n]>>] \in Nat
        BY <4>2, GcdDef
      <4> HIDE DEF h
      <4>4. /\ Step(g, n) = Gcd(epsilon)[<<g[n - 1], weights[n]>>]
            /\ Step(h, n) = Gcd(epsilon)[<<g[n - 1], weights[n]>>]
        BY <4>1 DEF FoldStep
      <4> QED
        BY <3>1, <4>3, <4>4
    <3> QED
      BY <3>2, <3>3
  <2> HIDE DEF h
  <2>4. h \in [0 .. (m + 1) -> Nat]
    BY <2>3 DEF h
  <2>5. h \in Fold(m + 1)
    BY <2>3, <2>4
  <2> QED
    BY <2>5
<1>3. PICK g : g \in Fold(L)
  <2> HIDE DEF T
  <2>1. L \in T
    BY <1>1, <1>2, SetInduction, <1>0
  <2> QED
    BY <2>1, <1>0 DEF T
<1>4. g = [n \in 0 .. L |->
             IF n = 0 THEN 0 ELSE GcdF64(g[n - 1], weights[n], epsilon)]
  <2>1. /\ g \in [0 .. L -> Nat]
        /\ g = [n \in 0 .. L |->
                  IF n = 0 THEN 0 ELSE Gcd(epsilon)[<<g[n - 1], weights[n]>>]]
    BY <1>3 DEF FoldStep
  <2> QED
    BY <2>1, GcdF64IsGcd
<1>5. F = [n \in 0 .. L |->
             IF n = 0 THEN 0 ELSE GcdF64(F[n - 1], weights[n], epsilon)]
  BY <1>4 DEF FoldOf, L
<1> HIDE DEF F
<1>6. \A n \in 0 .. L : F[n] = Step(F, n)
  BY <1>5, GcdF64IsGcd DEF FoldStep
<1> DEFINE U == {n \in Nat : n <= L => F[n] \in Nat}
<1>7. 0 \in U
  <2>1. 0 \in 0 .. L
    BY <1>0
  <2>2. F[0] = 0
    BY <1>6, <2>1 DEF FoldStep
  <2> QED
    BY <2>2
<1>8. ASSUME NEW n \in U \cap Nat
      PROVE  n + 1 \in U
  <2> SUFFICES ASSUME n + 1 <= L PROVE F[n + 1] \in Nat
    OBVIOUS
  <2>1. /\ F[n] \in Nat /\ weights[n + 1] \in Nat
        /\ n + 1 \in 0 .. L /\ (n + 1) - 1 = n
    BY <1>0
  <2>2. F[n + 1] = Gcd(epsilon)[<<F[n], weights[n + 1]>>]
    BY <1>6, <2>1 DEF FoldStep
  <2> QED
    BY <2>1, <2>2, GcdDef
<1>9. \A n \in 0 .. L : F[n] \in Nat
  <2> HIDE DEF U
  <2>1. Nat \subseteq U
    BY <1>7, <1>8, SetInduction
  <2> QED
    BY <2>1, <1>0 DEF U
<1> QED
  BY <1>6, <1>9 DEF F, L

(* gcd_weight is positive, whatever the weights and the cut-off: the       *)
(* wheel moves down at every pass, and line 73 is never reached with a     *)
(* weight of zero.                                                         *)
LEMMA StepPositive ==
  ASSUME NEW weights \in Seq(Nat \ {0}), NEW epsilon \in Nat \ {0}
  PROVE  StepOf(weights, epsilon) \in Nat \ {0}
<1>1. FoldOf(weights, epsilon)[Len(weights)] \in Nat
  BY FoldDef, ListFacts
<1> QED
  BY <1>1, StepIsFold, StepAssumption

(* The list that the wheel is built from.                                  *)
Weights == [i \in 1 .. N |-> Weight[i - 1]]

LEMMA WeightsFacts ==
  /\ Weights \in Seq(Nat \ {0}) /\ Len(Weights) = N
  /\ \A b \in Backends : b + 1 \in 1 .. N /\ Weights[b + 1] = Weight[b]
  /\ \A i \in 1 .. N : i - 1 \in Backends /\ Weights[i] = Weight[i - 1]
  /\ GcdWeight = StepOf(Weights, Epsilon)
<1>1. \A i \in 1 .. N : i - 1 \in Backends /\ Weight[i - 1] \in Nat \ {0}
  BY BackendFacts
<1>2. Weights \in [1 .. N -> Nat \ {0}]
  BY <1>1 DEF Weights
<1>3. \A b \in Backends : b + 1 \in 1 .. N /\ (b + 1) - 1 = b
  BY BackendFacts
<1>4. Weights \in Seq(Nat \ {0}) /\ Len(Weights) = N
  BY <1>2, BackendFacts
<1> QED
  BY <1>1, <1>3, <1>4 DEF Weights, GcdWeight

LEMMA GcdWeightPositive == GcdWeight \in Nat \ {0}
BY WeightsFacts, StepPositive, QuantumAssumption

-----------------------------------------------------------------------------
(* What gcd_f64 computes when its cut-off takes no remainder but zero for  *)
(* zero: weights that are all multiples of the epsilon, as those of at     *)
(* most four decimals are.                                                 *)
Multiple(n, d) == \E j \in Nat : n = j * d

LEMMA MultipleFacts ==
  ASSUME NEW d \in Nat
  PROVE  /\ Multiple(0, d) /\ Multiple(d, d)
         /\ \A m \in Nat, n \in Nat : Multiple(n, m) /\ Multiple(m, d) => Multiple(n, d)
         /\ \A a \in Nat, b \in Nat : Multiple(a, d) /\ Multiple(b, d) => Multiple(a + b, d)
         /\ \A a \in Nat, q \in Nat : Multiple(a, d) => Multiple(a * q, d)
<1>1. 0 = 0 * d /\ d = 1 * d
  OBVIOUS
<1>2. ASSUME NEW m \in Nat, NEW n \in Nat, Multiple(n, m), Multiple(m, d)
      PROVE  Multiple(n, d)
  <2>1. PICK i \in Nat : n = i * m
    BY <1>2 DEF Multiple
  <2>2. PICK j \in Nat : m = j * d
    BY <1>2 DEF Multiple
  <2>3. n = (i * j) * d /\ i * j \in Nat
    BY <2>1, <2>2
  <2> QED
    BY <2>3 DEF Multiple
<1>3. ASSUME NEW a \in Nat, NEW b \in Nat, Multiple(a, d), Multiple(b, d)
      PROVE  Multiple(a + b, d)
  <2>1. PICK i \in Nat : a = i * d
    BY <1>3 DEF Multiple
  <2>2. PICK j \in Nat : b = j * d
    BY <1>3 DEF Multiple
  <2>3. a + b = (i + j) * d /\ i + j \in Nat
    BY <2>1, <2>2
  <2> QED
    BY <2>3 DEF Multiple
<1>4. ASSUME NEW a \in Nat, NEW q \in Nat, Multiple(a, d)
      PROVE  Multiple(a * q, d)
  <2>1. PICK i \in Nat : a = i * d
    BY <1>4 DEF Multiple
  <2>2. a * q = (i * q) * d /\ i * q \in Nat
    BY <2>1
  <2> QED
    BY <2>2 DEF Multiple
<1> QED
  BY <1>1, <1>2, <1>3, <1>4 DEF Multiple

LEMMA DivMod ==
  ASSUME NEW a \in Nat, NEW b \in Nat \ {0}
  PROVE  a \div b \in Nat /\ a % b \in Nat /\ a = b * (a \div b) + (a % b)
OBVIOUS

(* Quotient and remainder are unique. *)
LEMMA ModUnique ==
  ASSUME NEW n \in Nat \ {0}, NEW q \in Nat, NEW r \in 0 .. (n - 1)
  PROVE  (n * q + r) % n = r /\ (n * q + r) \div n = q
<1> DEFINE a == n * q + r
           x == a \div n
           s == a % n
<1>1. a \in Nat /\ x \in Nat /\ s \in 0 .. (n - 1) /\ a = n * x + s
  BY DivMod
<1>2. ASSUME NEW y \in Nat, NEW z \in Nat, z > y
      PROVE  n * z >= n * y + n
  <2>1. PICK d \in Nat : z = y + 1 + d
    <3>1. z - y - 1 \in Nat /\ z = y + 1 + (z - y - 1)
      BY <1>2
    <3> QED
      BY <3>1
  <2>2. n * z = n * y + n + n * d /\ n * d \in Nat /\ n * y \in Nat
    BY <2>1
  <2> QED
    BY <2>2
<1>3. n * q \in Nat /\ n * x \in Nat
  BY <1>1
<1>4. n * q + r = n * x + s
  BY <1>1
<1> HIDE DEF x, s
<1>5. x = q
  <2>1. ~(x > q)
    BY <1>1, <1>2, <1>3, <1>4
  <2>2. ~(q > x)
    BY <1>1, <1>2, <1>3, <1>4
  <2> QED
    BY <1>1, <2>1, <2>2
<1> QED
  BY <1>1, <1>3, <1>4, <1>5 DEF s, x

(* A difference of multiples is a multiple. *)
LEMMA MultipleRest ==
  ASSUME NEW d \in Nat, NEW a \in Nat, NEW b \in Nat, Multiple(a, d), Multiple(a + b, d)
  PROVE  Multiple(b, d)
<1>1. PICK i \in Nat : a = i * d
  BY DEF Multiple
<1>2. PICK j \in Nat : a + b = j * d
  BY DEF Multiple
<1>3. CASE d = 0
  BY <1>1, <1>2, <1>3, MultipleFacts
<1>4. CASE d # 0 /\ j < i
  <2>1. PICK x \in Nat : i = j + x
    <3>1. i - j \in Nat /\ i = j + (i - j)
      BY <1>4
    <3> QED
      BY <3>1
  <2>2. x > 0 /\ i * d = j * d + x * d
    BY <1>4, <2>1
  <2>3. x * d > 0 /\ x * d \in Nat /\ j * d \in Nat
    BY <1>4, <2>2
  <2> QED
    BY <1>1, <1>2, <2>2, <2>3
<1>5. CASE d # 0 /\ j >= i
  <2>1. PICK x \in Nat : j = i + x
    <3>1. j - i \in Nat /\ j = i + (j - i)
      BY <1>5
    <3> QED
      BY <3>1
  <2>2. j * d = i * d + x * d /\ i * d \in Nat /\ x * d \in Nat
    BY <2>1
  <2>3. b = x * d
    BY <1>1, <1>2, <2>2
  <2> QED
    BY <2>1, <2>3 DEF Multiple
<1> QED
  BY <1>3, <1>4, <1>5

(* gcd_f64 of a pair: it divides both, and whatever divides both divides   *)
(* it.                                                                     *)
IsGcd(d, p) ==
  /\ Multiple(p[1], d) /\ Multiple(p[2], d)
  /\ \A c \in Nat : Multiple(p[1], c) /\ Multiple(p[2], c) => Multiple(d, c)

LEMMA GcdIsGcd == \A p \in Nat \X Nat : IsGcd(Gcd(1)[p], p)
<1> DEFINE T == {k \in Nat : \A p \in Nat \X Nat : p[2] <= k => IsGcd(Gcd(1)[p], p)}
<1>1. ASSUME NEW p \in Nat \X Nat, p[2] = 0
      PROVE  IsGcd(Gcd(1)[p], p)
  <2>1. p[2] < 1 /\ p[1] \in Nat
    BY <1>1
  <2>2. Gcd(1)[p] = p[1]
    <3>1. 1 \in Nat \ {0}
      OBVIOUS
    <3>2. Gcd(1)[p] = GcdStep(1, Gcd(1), p)
      BY <3>1, GcdDef
    <3> QED
      BY <2>1, <3>2 DEF GcdStep
  <2> QED
    BY <1>1, <2>1, <2>2, MultipleFacts DEF IsGcd
<1>2. 0 \in T
  BY <1>1
<1>3. ASSUME NEW k \in T \cap Nat
      PROVE  k + 1 \in T
  <2>1. ASSUME NEW p \in Nat \X Nat, p[2] <= k + 1, p[2] # 0
        PROVE  IsGcd(Gcd(1)[p], p)
    <3> DEFINE a == p[1]
               b == p[2]
               r == a % b
               q == a \div b
               d == Gcd(1)[<<b, r>>]
    <3>0. a \in Nat /\ b \in Nat \ {0}
      BY <2>1
    <3>1. /\ r \in 0 .. (b - 1) /\ r \in Nat /\ q \in Nat
          /\ a = b * q + r /\ b * q \in Nat
      <4> HIDE DEF a, b
      <4> QED
        BY <3>0, DivMod
    <3>2. Gcd(1)[p] = d /\ d \in Nat
      <4>1. ~(b < 1) /\ <<b, r>> \in Nat \X Nat
        BY <3>0, <3>1
      <4> QED
        BY <4>1, GcdDef DEF GcdStep
    <3>3. IsGcd(d, <<b, r>>)
      BY <2>1, <3>0, <3>1
    <3> HIDE DEF a, b, r, q, d
    <3>4. Multiple(b, d) /\ Multiple(r, d)
      BY <3>3 DEF IsGcd
    <3>5. Multiple(b * q, d)
      BY <3>0, <3>1, <3>2, <3>4, MultipleFacts
    <3>6. Multiple(a, d)
      BY <3>0, <3>1, <3>2, <3>4, <3>5, MultipleFacts
    <3>7. ASSUME NEW c \in Nat, Multiple(a, c), Multiple(b, c)
          PROVE  Multiple(d, c)
      <4>1. Multiple(b * q, c)
        BY <3>0, <3>1, <3>7, MultipleFacts
      <4>2. Multiple(r, c)
        BY <3>0, <3>1, <3>7, <4>1, MultipleRest
      <4> QED
        BY <3>3, <3>7, <4>2 DEF IsGcd
    <3> QED
      BY <3>2, <3>4, <3>6, <3>7 DEF IsGcd, a, b
  <2> QED
    BY <1>1, <2>1
<1> HIDE DEF T
<1>4. Nat \subseteq T
  BY <1>2, <1>3, SetInduction
<1>5. \A p \in Nat \X Nat : p[2] \in T /\ p[2] <= p[2]
  BY <1>4
<1> QED
  BY <1>5 DEF T

(* With such weights the step of the wheel is their greatest common        *)
(* divisor: it divides every weight, and every common divisor divides it.  *)
(* new(), wrr.rs:18-39, for every list of weights.                         *)
THEOREM StepIsGcd ==
  ASSUME NEW weights \in Seq(Nat \ {0}), weights # <<>>
  PROVE  /\ \A i \in 1 .. Len(weights) : Multiple(weights[i], StepOf(weights, 1))
         /\ \A c \in Nat : (\A i \in 1 .. Len(weights) : Multiple(weights[i], c))
                             => Multiple(StepOf(weights, 1), c)
<1> DEFINE L == Len(weights)
           F == FoldOf(weights, 1)
           Divides(n) == \A i \in 1 .. L : i <= n => Multiple(weights[i], F[n])
           Greatest(n) == \A c \in Nat : (\A i \in 1 .. L : i <= n => Multiple(weights[i], c))
                                           => Multiple(F[n], c)
           T == {n \in Nat : n <= L => Divides(n) /\ Greatest(n)}
<1>0. /\ L \in Nat /\ L > 0
      /\ \A i \in 1 .. L : weights[i] \in Nat \ {0}
      /\ \A n \in 0 .. L : F[n] = FoldStep(weights, 1, F, n) /\ F[n] \in Nat
  <2>1. 1 \in Nat \ {0}
    OBVIOUS
  <2>2. \A n \in 0 .. L : F[n] = FoldStep(weights, 1, F, n) /\ F[n] \in Nat
    BY <2>1, FoldDef
  <2>3. L \in Nat /\ L > 0
    OBVIOUS
  <2> QED
    BY <2>2, <2>3, ListFacts
<1> HIDE DEF L, F
<1>1. 0 \in T
  <2>1. 0 \in 0 .. L /\ \A i \in 1 .. L : ~(i <= 0)
    BY <1>0
  <2>2. F[0] = 0
    BY <1>0, <2>1 DEF FoldStep
  <2>3. Greatest(0)
    BY <2>2, MultipleFacts
  <2> QED
    BY <2>1, <2>3
<1>2. ASSUME NEW n \in T \cap Nat
      PROVE  n + 1 \in T
  <2> SUFFICES ASSUME n + 1 <= L PROVE Divides(n + 1) /\ Greatest(n + 1)
    OBVIOUS
  <2> DEFINE e == F[n]
             w == weights[n + 1]
             d == F[n + 1]
  <2>1. /\ n + 1 \in 1 .. L /\ n \in 0 .. L /\ n + 1 \in 0 .. L /\ (n + 1) - 1 = n
        /\ \A i \in 1 .. L : i <= n + 1 => i <= n \/ i = n + 1
        /\ \A i \in 1 .. L : i <= n => i <= n + 1
    BY <1>0
  <2>2. e \in Nat /\ d \in Nat /\ w \in Nat /\ d = Gcd(1)[<<e, w>>]
    <3>1. d = FoldStep(weights, 1, F, n + 1) /\ n + 1 # 0
      BY <1>0, <2>1
    <3>2. d = Gcd(1)[<<e, w>>]
      BY <2>1, <3>1 DEF FoldStep
    <3> QED
      BY <1>0, <2>1, <3>2
  <2>3. /\ Multiple(e, d) /\ Multiple(w, d)
        /\ \A c \in Nat : Multiple(e, c) /\ Multiple(w, c) => Multiple(d, c)
    BY <2>2, GcdIsGcd DEF IsGcd
  <2>4. Divides(n) /\ Greatest(n)
    BY <2>1
  <2>5. Divides(n + 1)
    <3> SUFFICES ASSUME NEW i \in 1 .. L, i <= n + 1 PROVE Multiple(weights[i], d)
      OBVIOUS
    <3>1. CASE i = n + 1
      BY <2>3, <3>1
    <3>2. CASE i <= n
      <4>1. Multiple(weights[i], e) /\ weights[i] \in Nat
        BY <1>0, <2>4, <3>2
      <4> HIDE DEF e, d
      <4> QED
        BY <2>2, <2>3, <4>1, MultipleFacts
    <3> QED
      BY <2>1, <3>1, <3>2
  <2>6. Greatest(n + 1)
    <3> SUFFICES ASSUME NEW c \in Nat, \A i \in 1 .. L : i <= n + 1 => Multiple(weights[i], c)
                 PROVE  Multiple(d, c)
      OBVIOUS
    <3>1. Multiple(w, c) /\ \A i \in 1 .. L : i <= n => Multiple(weights[i], c)
      BY <2>1
    <3>2. Multiple(e, c)
      BY <2>4, <3>1
    <3> QED
      BY <2>3, <3>1, <3>2
  <2> QED
    BY <2>5, <2>6
<1>3. Divides(L) /\ Greatest(L)
  <2> HIDE DEF T
  <2>1. L \in T
    BY <1>0, <1>1, <1>2, SetInduction
  <2> QED
    BY <1>0, <2>1 DEF T
<1>4. F[L] # 0
  <2>1. 1 \in 1 .. L /\ weights[1] \in Nat \ {0}
    BY <1>0
  <2>2. Multiple(weights[1], F[L])
    BY <1>0, <1>3, <2>1
  <2> QED
    BY <2>1, <2>2 DEF Multiple
<1>5. StepOf(weights, 1) = F[L]
  <2>1. F[L] \in Nat
    BY <1>0
  <2> QED
    BY <1>4, <2>1, StepIsFold DEF F, L
<1> HIDE DEF T
<1>6. /\ \A i \in 1 .. L : Multiple(weights[i], F[L])
      /\ \A c \in Nat : (\A i \in 1 .. L : Multiple(weights[i], c)) => Multiple(F[L], c)
  BY <1>0, <1>3
<1> QED
  BY <1>5, <1>6 DEF L

(* The same of the wheel's own weights.                                    *)
LEMMA WheelStepIsGcd ==
  ASSUME Epsilon = 1
  PROVE  /\ \A b \in Backends : Multiple(Weight[b], GcdWeight)
         /\ \A c \in Nat : (\A b \in Backends : Multiple(Weight[b], c))
                             => Multiple(GcdWeight, c)
<1>1. Weights # <<>>
  BY WeightsFacts, BackendFacts
<1>2. /\ \A i \in 1 .. N : Multiple(Weights[i], GcdWeight)
      /\ \A c \in Nat : (\A i \in 1 .. N : Multiple(Weights[i], c)) => Multiple(GcdWeight, c)
  BY <1>1, WeightsFacts, StepIsGcd
<1> QED
  BY <1>2, WeightsFacts

-----------------------------------------------------------------------------
(* Where the cut-off does bite, the value is still not below it and not    *)
(* above either argument.                                                  *)
LEMMA GcdWithin ==
  ASSUME NEW epsilon \in Nat \ {0}
  PROVE  \A p \in Nat \X Nat :
           p[2] >= epsilon => /\ Gcd(epsilon)[p] >= epsilon /\ Gcd(epsilon)[p] <= p[2]
                              /\ p[1] >= epsilon => Gcd(epsilon)[p] <= p[1]
<1> DEFINE Within(p) == p[2] >= epsilon => /\ Gcd(epsilon)[p] >= epsilon /\ Gcd(epsilon)[p] <= p[2]
                                           /\ p[1] >= epsilon => Gcd(epsilon)[p] <= p[1]
           T == {k \in Nat : \A p \in Nat \X Nat : p[2] <= k => Within(p)}
<1>1. 0 \in T
  OBVIOUS
<1>2. ASSUME NEW k \in T \cap Nat
      PROVE  k + 1 \in T
  <2>1. ASSUME NEW p \in Nat \X Nat, p[2] <= k + 1, p[2] >= epsilon
        PROVE  /\ Gcd(epsilon)[p] >= epsilon /\ Gcd(epsilon)[p] <= p[2]
               /\ p[1] >= epsilon => Gcd(epsilon)[p] <= p[1]
    <3> DEFINE a == p[1]
               b == p[2]
               r == a % b
               d == Gcd(epsilon)[<<b, r>>]
    <3>1. a \in Nat /\ b \in Nat \ {0} /\ r \in Nat /\ r <= b - 1 /\ r <= k
      BY <2>1, Falls
    <3>2. Gcd(epsilon)[p] = d /\ d \in Nat
      <4>1. ~(b < epsilon) /\ <<b, r>> \in Nat \X Nat
        BY <2>1, <3>1
      <4> QED
        BY <4>1, GcdDef DEF GcdStep
    <3>3. a < b => r = a
      BY <3>1
    <3>4. CASE r < epsilon
      <4>1. d = b
        BY <3>1, <3>4, GcdDef DEF GcdStep
      <4> QED
        BY <2>1, <3>1, <3>2, <3>3, <3>4, <4>1
    <3>5. CASE r >= epsilon
      <4>1. Within(<<b, r>>)
        BY <3>1
      <4>2. d >= epsilon /\ d <= r
        BY <3>5, <4>1
      <4> QED
        BY <2>1, <3>1, <3>2, <3>3, <4>2
    <3> QED
      BY <3>1, <3>4, <3>5
  <2> QED
    BY <2>1
<1> HIDE DEF T
<1>3. Nat \subseteq T
  BY <1>1, <1>2, SetInduction
<1>4. \A p \in Nat \X Nat : p[2] \in T /\ p[2] <= p[2]
  BY <1>3
<1> QED
  BY <1>4 DEF T

(* For any cut-off: as long as no weight is below it, the step is not      *)
(* larger than any weight, so that the weight in the mutex passes each     *)
(* backend on its way down and the wheel reaches them all.                 *)
THEOREM StepReachesEvery ==
  ASSUME NEW weights \in Seq(Nat \ {0}), NEW epsilon \in Nat \ {0},
         \A i \in 1 .. Len(weights) : weights[i] >= epsilon
  PROVE  \A i \in 1 .. Len(weights) : StepOf(weights, epsilon) <= weights[i]
<1> DEFINE L == Len(weights)
           F == FoldOf(weights, epsilon)
           Reached(n) == /\ n > 0 => F[n] >= epsilon
                         /\ \A i \in 1 .. L : i <= n => F[n] <= weights[i]
           T == {n \in Nat : n <= L => Reached(n)}
<1>0. /\ L \in Nat
      /\ \A i \in 1 .. L : weights[i] \in Nat /\ weights[i] >= epsilon
      /\ \A n \in 0 .. L : F[n] = FoldStep(weights, epsilon, F, n) /\ F[n] \in Nat
  <2>1. \A n \in 0 .. L : F[n] = FoldStep(weights, epsilon, F, n) /\ F[n] \in Nat
    BY FoldDef
  <2> QED
    BY <2>1, ListFacts
<1>00. StepOf(weights, epsilon) = IF F[L] > 0 THEN F[L] ELSE One
  BY StepIsFold
<1> HIDE DEF L, F
<1>1. 0 \in T
  OBVIOUS
<1>2. ASSUME NEW n \in T \cap Nat
      PROVE  n + 1 \in T
  <2> SUFFICES ASSUME n + 1 <= L PROVE Reached(n + 1)
    OBVIOUS
  <2> DEFINE e == F[n]
             w == weights[n + 1]
             d == F[n + 1]
  <2>1. /\ n + 1 \in 1 .. L /\ n \in 0 .. L /\ n + 1 \in 0 .. L /\ (n + 1) - 1 = n
        /\ \A i \in 1 .. L : i <= n + 1 => i <= n \/ i = n + 1
    BY <1>0
  <2>2. e \in Nat /\ d \in Nat /\ w \in Nat /\ w >= epsilon /\ d = Gcd(epsilon)[<<e, w>>]
    <3>1. d = FoldStep(weights, epsilon, F, n + 1) /\ n + 1 # 0
      BY <1>0, <2>1
    <3>2. d = Gcd(epsilon)[<<e, w>>]
      BY <2>1, <3>1 DEF FoldStep
    <3> QED
      BY <1>0, <2>1, <3>2
  <2>3. Reached(n)
    BY <2>1
  <2>4. d >= epsilon /\ d <= w /\ (e >= epsilon => d <= e)
    <3> DEFINE q == <<e, w>>
    <3>1. q \in Nat \X Nat /\ q[1] = e /\ q[2] = w /\ d = Gcd(epsilon)[q]
      BY <2>2
    <3> HIDE DEF q
    <3> QED
      BY <2>2, <3>1, GcdWithin
  <2>5. ASSUME NEW i \in 1 .. L, i <= n + 1
        PROVE  d <= weights[i]
    <3>1. weights[i] \in Nat
      BY <1>0
    <3>2. CASE i = n + 1
      BY <2>4, <3>2
    <3>3. CASE i <= n
      <4>1. e >= epsilon /\ e <= weights[i]
        BY <2>3, <3>3
      <4> HIDE DEF d, e
      <4> QED
        BY <2>2, <2>4, <3>1, <4>1
    <3> QED
      BY <2>1, <2>5, <3>2, <3>3
  <2> QED
    BY <2>4, <2>5
<1>3. Reached(L)
  <2> HIDE DEF T
  <2>1. L \in T
    BY <1>0, <1>1, <1>2, SetInduction
  <2> QED
    BY <1>0, <2>1 DEF T
<1>4. ASSUME NEW i \in 1 .. L
      PROVE  StepOf(weights, epsilon) <= weights[i]
  <2>1. L > 0 /\ i <= L
    BY <1>0
  <2>2. F[L] >= epsilon /\ F[L] <= weights[i] /\ F[L] \in Nat
    BY <1>0, <1>3, <2>1
  <2> QED
    BY <1>00, <2>2
<1> QED
  BY <1>4 DEF L

(* Whatever divides is no larger, and a remainder of zero is a multiple.   *)
LEMMA Divisors ==
  ASSUME NEW n \in Nat \ {0}, NEW d \in Nat \ {0}
  PROVE  /\ n % d = 0 <=> Multiple(n, d)
         /\ Multiple(n, d) => d <= n
<1>1. n = d * (n \div d) + (n % d) /\ n \div d \in Nat /\ n % d \in Nat
  BY DivMod
<1>2. n % d = 0 => Multiple(n, d)
  <2>1. n % d = 0 => n = (n \div d) * d
    BY <1>1
  <2> QED
    BY <1>1, <2>1 DEF Multiple
<1>3. ASSUME Multiple(n, d)
      PROVE  n % d = 0 /\ d <= n
  <2>1. PICK j \in Nat : n = j * d
    BY <1>3 DEF Multiple
  <2>2. n = d * j + 0 /\ 0 \in 0 .. (d - 1)
    BY <2>1
  <2>3. n % d = 0
    BY <2>1, <2>2, ModUnique
  <2>4. j >= 1
    BY <2>1
  <2>5. PICK k \in Nat : j = 1 + k
    <3>1. j - 1 \in Nat /\ j = 1 + (j - 1)
      BY <2>1, <2>4
    <3> QED
      BY <3>1
  <2>6. n = d + k * d /\ k * d \in Nat
    BY <2>1, <2>5
  <2> QED
    BY <2>3, <2>6
<1> QED
  BY <1>2, <1>3

(* new(), wrr.rs:18-39, for any lists of weights and any cut-offs: every   *)
(* backend is reached, and the step is the greatest common divisor.        *)
LEMMA AllReached == Unreached = {} /\ NotTheGcd = {}
<1>1. Unreached = {}
  <2> SUFFICES ASSUME NEW weights \in Vectors, NEW epsilon \in Epsilons,
                      \A i \in 1 .. Len(weights) : weights[i] >= epsilon,
                      NEW i \in 1 .. Len(weights)
               PROVE  ~(StepOf(weights, epsilon) > weights[i])
    BY DEF Unreached
  <2>1. weights \in Seq(Nat \ {0}) /\ epsilon \in Nat \ {0}
    BY StepAssumption
  <2>2. StepOf(weights, epsilon) <= weights[i]
    BY <2>1, StepReachesEvery
  <2>3. StepOf(weights, epsilon) \in Nat /\ weights[i] \in Nat
    BY <2>1, StepPositive, ListFacts
  <2> QED
    BY <2>2, <2>3
<1>2. NotTheGcd = {}
  <2> SUFFICES ASSUME NEW weights \in Vectors
               PROVE  /\ DividesAll(StepOf(weights, 1), weights)
                      /\ \A d \in (StepOf(weights, 1) + 1) .. weights[1] :
                           ~DividesAll(d, weights)
    BY DEF NotTheGcd
  <2> DEFINE step == StepOf(weights, 1)
  <2>1. weights \in Seq(Nat \ {0}) /\ weights # <<>> /\ 1 \in Nat \ {0}
    BY StepAssumption
  <2>2. /\ step \in Nat \ {0} /\ 1 \in 1 .. Len(weights)
        /\ \A i \in 1 .. Len(weights) : weights[i] \in Nat \ {0}
    BY <2>1, StepPositive, ListFacts
  <2>3. /\ \A i \in 1 .. Len(weights) : Multiple(weights[i], step)
        /\ \A c \in Nat : (\A i \in 1 .. Len(weights) : Multiple(weights[i], c))
                             => Multiple(step, c)
    BY <2>1, StepIsGcd
  <2> HIDE DEF step
  <2>4. \A d \in Nat \ {0} :
          DividesAll(d, weights) <=> \A i \in 1 .. Len(weights) : Multiple(weights[i], d)
    BY <2>2, Divisors DEF DividesAll
  <2>5. DividesAll(step, weights)
    BY <2>2, <2>3, <2>4
  <2>6. ASSUME NEW d \in (step + 1) .. weights[1], DividesAll(d, weights)
        PROVE  FALSE
    <3>1. d \in Nat \ {0} /\ d > step
      BY <2>2
    <3>2. Multiple(step, d)
      BY <2>3, <2>4, <2>6, <3>1
    <3>3. d <= step
      BY <2>2, <3>1, <3>2, Divisors
    <3> QED
      BY <2>2, <3>1, <3>3
  <2> QED
    BY <2>5, <2>6 DEF step
<1> QED
  BY <1>1, <1>2

(* So the wheel that new() leaves passes every backend on its way down.    *)
THEOREM StepsReachAll == Spec => []StepReachesAll
<1>1. StepReachesAll
  BY AllReached DEF StepReachesAll
<1> QED
  BY <1>1, PTL

-----------------------------------------------------------------------------
(* The index goes up by one and back to zero. *)
LEMMA ModSucc ==
  ASSUME NEW n \in Nat \ {0}, NEW c \in Nat
  PROVE  /\ c % n \in 0 .. (n - 1)
         /\ (c + 1) % n = IF c % n = n - 1 THEN 0 ELSE (c % n) + 1
<1> DEFINE q == c \div n
           r == c % n
<1>1. q \in Nat /\ r \in 0 .. (n - 1) /\ c = n * q + r
  BY DivMod
<1> HIDE DEF q, r
<1>2. CASE r = n - 1
  <2>1. c + 1 = n * (q + 1) + 0 /\ q + 1 \in Nat /\ 0 \in 0 .. (n - 1)
    BY <1>1, <1>2
  <2>2. (n * (q + 1) + 0) % n = 0
    BY <2>1, ModUnique
  <2> QED
    BY <1>1, <1>2, <2>1, <2>2 DEF r
<1>3. CASE r # n - 1
  <2>1. c + 1 = n * q + (r + 1) /\ r + 1 \in 0 .. (n - 1)
    BY <1>1, <1>3
  <2>2. (c + 1) % n = r + 1
    BY <1>1, <2>1, ModUnique
  <2> QED
    BY <1>1, <1>3, <2>2 DEF r
<1> QED
  BY <1>2, <1>3

-----------------------------------------------------------------------------
(* What is known of worker w. Of a call: what is up now was seen, what     *)
(* stayed up is up now, and the filter has found up what stayed up below   *)
(* pos and nothing that was not seen. And the holder of the mutex is       *)
(* inside a call that found more than one.                                 *)
WorkerInv(w) ==
  /\ phase[w] = "calling" =>
       /\ key[w] \in Keys
       /\ AliveSet \subseteq seen[w]
       /\ kept[w] \subseteq AliveSet
       /\ up[w] \subseteq seen[w]
       /\ \A b \in kept[w] : b < pos[w] => b \in up[w]
  /\ lock = w => phase[w] = "calling" /\ pos[w] = N /\ Cardinality(up[w]) > 1

(* Since it last restarted the wheel has offered backend b a pick for      *)
(* every weight it stood at above Floor(b): the backends it has passed in  *)
(* this round have had the one for cw, too.                                *)
Floor(b) == IF Index = 0 \/ b < Index THEN cw - GcdWeight ELSE cw

(* What b may have been served by then, in quanta of weight. *)
Offered(b) == IF Weight[b] > Floor(b) THEN Weight[b] - Floor(b) ELSE 0

(* What is known of the wheel. *)
WheelInv ==
  /\ cw = 0 => current = 0 /\ steady = {} /\ \A b \in Backends : served[b] = 0
  /\ cw # 0 => \A b \in Backends : served[b] * GcdWeight <= Offered(b)
  /\ steady \subseteq AliveSet

(* The inductive invariant. *)
IInv == TypeOK /\ WheelInv /\ \A w \in Workers : WorkerInv(w)

(* The weight a turn compares with is positive: it is put back to the      *)
(* maximum when it is spent, and the first turn starts at index 0.         *)
LEMMA WheelFacts ==
  ASSUME TypeOK, WheelInv
  PROVE  /\ Index \in Backends /\ Index \in Nat /\ Index <= N - 1
         /\ current \in Nat /\ current < UsizeMod
         /\ cw \in Nat /\ cw <= MaxWeight
         /\ cw = 0 => Index = 0
         /\ Lowered \in Nat \ {0} /\ Lowered <= MaxWeight
<1>1. current \in Nat /\ current < UsizeMod /\ cw \in Nat /\ cw <= MaxWeight
  BY UsizeAssumption, MaxWeightFacts DEF TypeOK
<1>2. Index \in 0 .. (N - 1)
  BY <1>1, ModSucc, BackendFacts DEF Index
<1>3. cw = 0 => Index = 0
  <2>1. N * 0 + 0 = 0 /\ 0 \in 0 .. (N - 1)
    BY BackendFacts
  <2>2. 0 % N = 0
    BY <2>1, ModUnique, BackendFacts
  <2> QED
    BY <2>2 DEF WheelInv, Index
<1>4. Lowered \in Nat \ {0} /\ Lowered <= MaxWeight
  BY <1>1, <1>3, MaxWeightFacts, GcdWeightPositive DEF Lowered
<1> QED
  BY <1>1, <1>2, <1>3, <1>4, BackendFacts DEF Backends

-----------------------------------------------------------------------------
LEMMA InitIInv == Init => IInv
<1> SUFFICES ASSUME Init PROVE IInv
  OBVIOUS
<1>1. TypeOK
  <2>1. 0 \in 0 .. N /\ 0 \in 0 .. (UsizeMod - 1) /\ 0 \in 0 .. MaxWeight
    BY UsizeAssumption, MaxWeightFacts, BackendFacts
  <2> QED
    BY <2>1 DEF Init, AlgInit, TypeOK, InterfaceTypeOK
<1>2. WheelInv
  BY DEF Init, WheelInv
<1>3. \A w \in Workers : WorkerInv(w)
  BY BackendFacts DEF Init, AlgInit, WorkerInv
<1> QED
  BY <1>1, <1>2, <1>3 DEF IInv

(* A step that changes nothing of worker v keeps what is known of v. *)
LEMMA OtherWorker ==
  ASSUME NEW v \in Workers, WorkerInv(v), UNCHANGED alive,
         phase'[v] = phase[v], key'[v] = key[v],
         seen'[v] = seen[v], kept'[v] = kept[v],
         pos'[v] = pos[v], up'[v] = up[v], lock' = v => lock = v
  PROVE  WorkerInv(v)'
BY DEF WorkerInv, AliveSet

(* A step that does not touch the wheel keeps what is known of it. *)
LEMMA WheelStays ==
  ASSUME WheelInv, UNCHANGED <<alive, current, cw, served, steady>>
  PROVE  WheelInv'
BY DEF WheelInv, Offered, Floor, Index, AliveSet

LEMMA CallInv ==
  ASSUME IInv, NEW w \in Workers, NEW k \in Keys, Call(w, k)
  PROVE  IInv'
<1> USE DEF IInv, TypeOK, InterfaceTypeOK
<1>1. TypeOK'
  BY BackendFacts DEF Call, Begin, AliveSet, wheel
<1>2. WheelInv'
  BY WheelStays DEF Call, Begin, wheel
<1>3. ASSUME NEW v \in Workers, v # w PROVE WorkerInv(v)'
  BY <1>3, OtherWorker DEF Call, Begin, wheel
<1>4. /\ phase'[w] = "calling" /\ key'[w] = k /\ alive' = alive
      /\ seen'[w] = AliveSet /\ kept'[w] = AliveSet
      /\ pos'[w] = 0 /\ up'[w] = {}
      /\ lock' = lock /\ lock # w
  BY DEF Call, Begin, wheel, WorkerInv
<1>5. WorkerInv(w)'
  BY <1>4, BackendFacts DEF WorkerInv, AliveSet
<1> QED
  BY <1>1, <1>2, <1>3, <1>5

LEMMA FilterInv ==
  ASSUME IInv, NEW w \in Workers, Filter(w)
  PROVE  IInv'
<1> USE DEF IInv, TypeOK, InterfaceTypeOK
<1>0. pos[w] < N /\ lock # w
  BY BackendFacts DEF Filter, WorkerInv
<1>1. /\ phase[w] = "calling" /\ UNCHANGED <<interface, wheel>>
      /\ pos[w] \in Backends /\ pos[w] \in Nat /\ pos'[w] = pos[w] + 1
      /\ up'[w] = IF alive[pos[w]] THEN up[w] \cup {pos[w]} ELSE up[w]
  BY BackendFacts DEF Filter
<1>2. TypeOK'
  <2>1. pos[w] + 1 \in 0 .. N
    BY <1>1, BackendFacts
  <2> QED
    BY <1>1, <2>1 DEF Filter, interface, wheel
<1>3. WheelInv'
  BY <1>1, WheelStays DEF interface, wheel
<1>4. ASSUME NEW v \in Workers, v # w PROVE WorkerInv(v)'
  BY <1>4, OtherWorker DEF Filter, interface, wheel
<1>5. /\ up[w] \subseteq seen[w] /\ AliveSet \subseteq seen[w] /\ kept[w] \subseteq AliveSet
      /\ \A b \in kept[w] : b < pos[w] => b \in up[w]
  BY <1>1 DEF WorkerInv
<1>6. up'[w] \subseteq seen[w]
  BY <1>1, <1>5 DEF AliveSet
<1>7. ASSUME NEW b \in kept[w], b < pos[w] + 1
      PROVE  b \in up'[w]
  <2>1. b \in Backends /\ b \in Nat /\ alive[b]
    BY <1>5, BackendFacts DEF AliveSet
  <2>2. \A x, y \in Nat : x < y + 1 => x < y \/ x = y
    OBVIOUS
  <2>3. b < pos[w] \/ b = pos[w]
    BY <1>1, <1>7, <2>1, <2>2
  <2> QED
    BY <1>1, <1>5, <2>1, <2>3
<1>8. WorkerInv(w)'
  BY <1>0, <1>1, <1>6, <1>7 DEF WorkerInv, AliveSet, interface, wheel
<1> QED
  BY <1>2, <1>3, <1>4, <1>8

LEMMA ShortcutInv ==
  ASSUME IInv, NEW w \in Workers, Shortcut(w)
  PROVE  IInv'
<1> USE DEF IInv, TypeOK, InterfaceTypeOK
<1>1. PICK r \in Backends \cup {None} : Return(w, r)
  BY DEF Shortcut
<1>2. TypeOK'
  BY <1>1 DEF Shortcut, Return, locals, wheel
<1>3. WheelInv'
  BY <1>1, WheelStays DEF Shortcut, Return, wheel
<1>4. ASSUME NEW v \in Workers, v # w PROVE WorkerInv(v)'
  BY <1>1, <1>4, OtherWorker DEF Shortcut, Return, locals, wheel
<1>5. WorkerInv(w)'
  <2>1. lock # w
    <3>1. Cardinality(up[w]) = 0 \/ Cardinality(up[w]) = 1
      BY FS_EmptySet, FS_Singleton DEF Shortcut
    <3> QED
      BY <3>1 DEF WorkerInv
  <2>2. phase'[w] = "done" /\ lock' = lock
    BY <1>1 DEF Shortcut, Return, wheel
  <2> QED
    BY <2>1, <2>2 DEF WorkerInv
<1> QED
  BY <1>2, <1>3, <1>4, <1>5

LEMMA AcquireInv ==
  ASSUME IInv, NEW w \in Workers, Acquire(w)
  PROVE  IInv'
<1> USE DEF IInv, TypeOK, InterfaceTypeOK
<1>1. TypeOK'
  BY DEF Acquire, interface, locals
<1>2. WheelInv'
  BY WheelStays DEF Acquire, interface
<1>3. ASSUME NEW v \in Workers PROVE WorkerInv(v)'
  BY <1>3 DEF Acquire, WorkerInv, AliveSet, interface, locals
<1> QED
  BY <1>1, <1>2, <1>3

LEMMA HealthFlipInv ==
  ASSUME IInv, HealthFlip
  PROVE  IInv'
<1> USE DEF IInv, TypeOK, InterfaceTypeOK
<1> PICK b \in Backends, y \in BOOLEAN :
      /\ StoreAlive(b, y)
      /\ steady' = IF y THEN steady ELSE steady \ {b}
      /\ UNCHANGED <<locals, lock, current, cw, served>>
  BY DEF HealthFlip
<1>1. TypeOK'
  <2>1. alive' \in [Backends -> BOOLEAN]
    BY DEF StoreAlive
  <2>2. seen' \in [Workers -> SUBSET Backends] /\ kept' \in [Workers -> SUBSET Backends]
    BY DEF StoreAlive
  <2> QED
    BY <2>1, <2>2 DEF StoreAlive, locals
<1>2. WheelInv'
  <2>1. (steady \subseteq AliveSet)'
    BY DEF WheelInv, StoreAlive, AliveSet
  <2>2. steady = {} => steady' = {}
    OBVIOUS
  <2> QED
    BY <2>1, <2>2 DEF WheelInv, Offered, Floor, Index
<1>3. ASSUME NEW v \in Workers PROVE WorkerInv(v)'
  <2>1. WorkerInv(v)
    OBVIOUS
  <2>2. /\ UNCHANGED <<phase, key, pos, up, lock>>
        /\ alive' = [alive EXCEPT ![b] = y]
        /\ seen'[v] = IF phase[v] = "calling" /\ y THEN seen[v] \cup {b} ELSE seen[v]
        /\ kept'[v] = IF phase[v] = "calling" /\ ~y THEN kept[v] \ {b} ELSE kept[v]
    BY DEF StoreAlive, locals
  <2>3. seen[v] \subseteq seen'[v] /\ kept'[v] \subseteq kept[v]
    BY <2>2
  <2>4. (phase[v] = "calling" => AliveSet \subseteq seen[v] /\ kept[v] \subseteq AliveSet)'
    BY <2>1, <2>2 DEF WorkerInv, AliveSet
  <2>5. (phase[v] = "calling" =>
           /\ key[v] \in Keys /\ up[v] \subseteq seen[v]
           /\ \A c \in kept[v] : c < pos[v] => c \in up[v])'
    BY <2>1, <2>2, <2>3 DEF WorkerInv
  <2> QED
    BY <2>1, <2>2, <2>4, <2>5 DEF WorkerInv
<1> QED
  BY <1>1, <1>2, <1>3

-----------------------------------------------------------------------------
LEMMA Product ==
  ASSUME NEW s \in Nat, NEW g \in Nat
  PROVE  s * g \in Nat /\ (s + 1) * g = s * g + g /\ 0 * g = 0 /\ 1 * g = g
OBVIOUS

(* A round of the wheel is cut short when the counter wraps inside of it;  *)
(* in this state it does not, or only at the end of a round.               *)
NoCut == UsizeMod % N = 0 \/ current + 1 < UsizeMod

(* Where the index goes. *)
LEMMA IndexMoves ==
  ASSUME IInv, NEW w \in Workers, Turn(w)
  PROVE  /\ Index' \in Nat
         /\ Index' = 0 \/ Index' = Index + 1
         /\ current' \in 0 .. (UsizeMod - 1)
         /\ NoCut => (Index' = 0 => Index = N - 1)
<1>1. current \in Nat /\ current < UsizeMod /\ Index \in Nat /\ Index <= N - 1
  BY WheelFacts DEF IInv
<1>2. current' = (current + 1) % UsizeMod
  BY DEF Turn
<1>3. CASE current + 1 < UsizeMod
  <2>1. UsizeMod * 0 + (current + 1) = current + 1 /\ current + 1 \in 0 .. (UsizeMod - 1)
    BY <1>1, <1>3, UsizeAssumption
  <2>2. current' = current + 1
    BY <1>2, <2>1, ModUnique, UsizeAssumption
  <2>3. Index' = (current + 1) % N
    BY <2>2 DEF Index
  <2>4. (current + 1) % N = IF current % N = N - 1 THEN 0 ELSE (current % N) + 1
    <3>1. ASSUME NEW c \in Nat, NEW n \in Nat \ {0}
          PROVE  (c + 1) % n = IF c % n = n - 1 THEN 0 ELSE (c % n) + 1
      BY ModSucc
    <3> QED
      BY <1>1, <3>1, NAssumption
  <2>5. Index' = IF Index = N - 1 THEN 0 ELSE Index + 1
    BY <2>3, <2>4 DEF Index
  <2> QED
    BY <1>1, <2>1, <2>2, <2>5
<1>4. CASE current + 1 = UsizeMod
  <2>1. UsizeMod * 1 + 0 = current + 1 /\ 0 \in 0 .. (UsizeMod - 1)
    BY <1>1, <1>4, UsizeAssumption
  <2>2. current' = 0
    BY <1>2, <2>1, ModUnique, UsizeAssumption
  <2>3. N * 0 + 0 = 0 /\ 0 \in 0 .. (N - 1)
    BY BackendFacts
  <2>4. 0 % N = 0
    BY <2>3, ModUnique, BackendFacts
  <2>5. Index' = 0
    BY <2>2, <2>4 DEF Index
  <2>6. ASSUME NoCut PROVE Index = N - 1
    <3>1. (current + 1) % N = 0
      BY <1>1, <1>4, <2>6 DEF NoCut
    <3>2. current \in Nat /\ N \in Nat \ {0}
      BY <1>1, NAssumption
    <3>3. ASSUME NEW c \in Nat, NEW n \in Nat \ {0}, (c + 1) % n = 0
          PROVE  c % n = n - 1
      <4>1. /\ c % n \in 0 .. (n - 1)
            /\ (c + 1) % n = IF c % n = n - 1 THEN 0 ELSE (c % n) + 1
        BY ModSucc
      <4> QED
        BY <3>3, <4>1
    <3> QED
      BY <3>1, <3>2, <3>3 DEF Index
  <2> QED
    BY <2>1, <2>2, <2>5, <2>6
<1> QED
  BY <1>1, <1>3, <1>4, UsizeAssumption

(* A turn passes the backend at Index: what it does to the count of picks  *)
(* and to the floor of a backend b before it, and of one from it on.       *)
LEMMA TurnMoves ==
  ASSUME IInv, NEW w \in Workers, Turn(w), NEW b \in Backends
  PROVE  /\ b < Index =>
              served'[b] = served[b] /\ cw # 0 /\ Floor(b)' = Floor(b)
         /\ b >= Index =>
              /\ served'[b] = (IF Restarts THEN 0 ELSE served[b])
                              + (IF Pick(w) /\ b = Index THEN 1 ELSE 0)
              /\ Restarts => Lowered = MaxWeight
              /\ ~Restarts => cw # 0 /\ Floor(b) = Lowered
              /\ Floor(b)' = IF b = Index \/ Index' = 0 THEN Lowered - GcdWeight ELSE Lowered
<1>1. /\ GcdWeight \in Nat /\ cw \in Nat /\ b \in Nat /\ Index \in Nat
      /\ cw = 0 => Index = 0
      /\ served \in [Backends -> Nat]
  BY GcdWeightPositive, WheelFacts, BackendFacts DEF IInv, TypeOK
<1>2. /\ served'[b] = (IF Restarts THEN 0 ELSE served[b])
                      + (IF Pick(w) /\ b = Index THEN 1 ELSE 0)
      /\ cw' = Lowered
  BY DEF Turn
<1>3. Index' \in Nat /\ (Index' = 0 \/ Index' = Index + 1)
  BY IndexMoves
<1>4. Floor(b)' = IF Index' = 0 \/ b < Index' THEN Lowered - GcdWeight ELSE Lowered
  BY <1>2 DEF Floor
<1>5. CASE b < Index
  <2>1. ~Restarts /\ Lowered = cw /\ cw # 0 /\ Floor(b) = cw - GcdWeight
    BY <1>1, <1>5 DEF Restarts, Lowered, Floor
  <2>2. Index' = 0 \/ b < Index'
    BY <1>1, <1>3, <1>5
  <2> QED
    BY <1>1, <1>2, <1>4, <1>5, <2>1, <2>2
<1>6. CASE b >= Index
  <2>1. Index' = 0 \/ b < Index' <=> b = Index \/ Index' = 0
    BY <1>1, <1>3, <1>6
  <2>2. Restarts => Lowered = MaxWeight
    BY <1>1 DEF Restarts, Lowered
  <2>3. ASSUME ~Restarts
        PROVE  cw # 0 /\ Floor(b) = Lowered
    <3>1. CASE Index = 0
      <4>1. cw - GcdWeight > 0
        BY <1>1, <2>3, <3>1 DEF Restarts
      <4> QED
        BY <1>1, <3>1, <4>1 DEF Lowered, Floor
    <3>2. CASE Index # 0
      BY <1>1, <1>6, <3>2 DEF Lowered, Floor
    <3> QED
      BY <3>1, <3>2
  <2> QED
    BY <1>1, <1>2, <1>4, <1>6, <2>1, <2>2, <2>3
<1> QED
  BY <1>1, <1>5, <1>6

(* Nobody is served more than was offered. *)
LEMMA TurnBound ==
  ASSUME IInv, NEW w \in Workers, Turn(w), NEW b \in Backends
  PROVE  served'[b] * GcdWeight <= Offered(b)'
<1> DEFINE G == GcdWeight
           L == Lowered
           W == Weight[b]
           s == IF Restarts THEN 0 ELSE served[b]
           e == IF Pick(w) /\ b = Index THEN 1 ELSE 0
           f == Floor(b)'
           t == served'[b]
<1>1. /\ G \in Nat \ {0} /\ L \in Nat \ {0} /\ W \in Nat \ {0} /\ s \in Nat
      /\ b \in Nat /\ Index \in Nat /\ cw \in Nat /\ W <= MaxWeight /\ MaxWeight \in Nat
  BY GcdWeightPositive, WheelFacts, BackendFacts, MaxWeightFacts DEF IInv, TypeOK
<1>2. Offered(b)' = IF W > f THEN W - f ELSE 0
  BY DEF Offered
<1>3. cw # 0 => served[b] * G <= Offered(b)
  BY DEF IInv, WheelInv
<1>4. CASE b < Index
  BY <1>2, <1>3, <1>4, TurnMoves DEF Offered
<1>5. CASE b >= Index
  <2>1. s * G <= IF W > L THEN W - L ELSE 0
    <3>1. CASE Restarts
      <4>1. L = MaxWeight /\ s = 0
        BY <1>5, <3>1, TurnMoves
      <4> QED
        BY <1>1, <4>1, Product
    <3>2. CASE ~Restarts
      BY <1>3, <1>5, <3>2, TurnMoves DEF Offered
    <3> QED
      BY <3>1, <3>2
  <2>2. t = s + e /\ f = (IF b = Index \/ Index' = 0 THEN L - G ELSE L)
    BY <1>5, TurnMoves
  <2>3. e = 1 => W >= L
    BY DEF Pick, Outweighs
  <2>4. s * G \in Nat /\ (s + 1) * G = s * G + G
    BY <1>1, Product
  <2> HIDE DEF G, L, W, s, f, t
  <2>5. t * G <= IF W > f THEN W - f ELSE 0
    <3>1. CASE e = 1
      <4>1. f = L - G /\ t * G = s * G + G /\ W >= L
        BY <2>2, <2>3, <2>4, <3>1
      <4> QED
        BY <1>1, <2>1, <2>4, <4>1
    <3>2. CASE e = 0
      <4>1. t = s /\ (f = L - G \/ f = L)
        BY <1>1, <2>2, <3>2
      <4> QED
        BY <1>1, <2>1, <2>4, <4>1
    <3> QED
      BY <3>1, <3>2
  <2> QED
    BY <1>2, <2>5 DEF t, G
<1> QED
  BY <1>1, <1>4, <1>5

LEMMA TurnInv ==
  ASSUME IInv, NEW w \in Workers, Turn(w)
  PROVE  IInv'
<1>0. TypeOK /\ WheelInv /\ \A v \in Workers : WorkerInv(v)
  BY DEF IInv
<1>1. /\ alive' = alive /\ cw' = Lowered /\ UNCHANGED locals
      /\ \/ Return(w, Index) /\ lock' = None
         \/ UNCHANGED <<interface, lock>>
  BY DEF Turn, Return, interface
<1>2. /\ Index \in Backends /\ Lowered \in Nat \ {0} /\ Lowered <= MaxWeight
      /\ MaxWeight \in Nat /\ AliveSet \subseteq Backends
  BY <1>0, WheelFacts, MaxWeightFacts DEF AliveSet
<1>3. TypeOK'
  <2>1. InterfaceTypeOK'
    BY <1>0, <1>1, <1>2 DEF TypeOK, InterfaceTypeOK, Return, interface
  <2>2. current' \in 0 .. (UsizeMod - 1)
    BY IndexMoves
  <2>3. served' \in [Backends -> Nat]
    BY <1>0 DEF Turn, TypeOK
  <2>4. steady' \in SUBSET Backends
    BY <1>0, <1>2 DEF Turn, TypeOK
  <2>5. cw' \in 0 .. MaxWeight
    BY <1>1, <1>2
  <2>6. lock' \in Workers \cup {None}
    BY <1>0, <1>1 DEF TypeOK
  <2> QED
    BY <1>0, <1>1, <2>1, <2>2, <2>3, <2>4, <2>5, <2>6 DEF TypeOK, locals
<1>4. WheelInv'
  <2>1. (steady \subseteq AliveSet)'
    BY <1>0, <1>1 DEF Turn, WheelInv, AliveSet
  <2>2. cw' # 0
    BY <1>1, <1>2
  <2> QED
    BY <2>1, <2>2, TurnBound DEF WheelInv
<1>5. ASSUME NEW v \in Workers PROVE WorkerInv(v)'
  <2>1. CASE Return(w, Index) /\ lock' = None
    <3>1. lock' # v
      BY <2>1, BackendFacts
    <3>2. CASE v = w
      BY <1>0, <2>1, <3>1, <3>2 DEF WorkerInv, Return, TypeOK, InterfaceTypeOK
    <3>3. CASE v # w
      BY <1>0, <1>1, <2>1, <3>1, <3>3, OtherWorker DEF Return, TypeOK, InterfaceTypeOK, locals
    <3> QED
      BY <3>2, <3>3
  <2>2. CASE UNCHANGED <<interface, lock>>
    BY <1>0, <1>1, <2>2, OtherWorker DEF interface, locals
  <2> QED
    BY <1>1, <2>1, <2>2
<1> QED
  BY <1>3, <1>4, <1>5 DEF IInv

LEMMA StepIInv ==
  ASSUME IInv, [Next]_vars
  PROVE  IInv'
<1>1. CASE UNCHANGED vars
  <2>1. TypeOK'
    BY <1>1 DEF vars, IInv, TypeOK, InterfaceTypeOK
  <2>2. WheelInv'
    BY <1>1, WheelStays DEF vars, IInv
  <2>3. \A v \in Workers : WorkerInv(v)'
    BY <1>1, OtherWorker DEF vars, IInv
  <2> QED
    BY <2>1, <2>2, <2>3 DEF IInv
<1> QED
  BY <1>1, CallInv, FilterInv, ShortcutInv, AcquireInv, TurnInv, HealthFlipInv DEF Next

(* The wheel never serves a backend more than it was offered, and only a   *)
(* call that found more than one backend holds the mutex.                  *)
THEOREM Inductive == Spec => []IInv
BY InitIInv, StepIInv, PTL DEF Spec

(* Types of every reachable state. The weight in the mutex does not leave  *)
(* 0 .. MaxWeight, and is never lowered below zero: line 73 stays dead.    *)
THEOREM TypeCorrect == Spec => []TypeOK
<1>1. IInv => TypeOK
  BY DEF IInv
<1> QED
  BY <1>1, Inductive, PTL

(* A turn leaves a positive weight in the mutex: the inner test of         *)
(* wrr.rs:71-75, which would answer None with backends up, never succeeds. *)
THEOREM WeightStaysPositive == Spec => [][\A w \in Workers : Turn(w) => cw' > 0]_vars
<1>1. IInv => \A w \in Workers : Turn(w) => cw' > 0
  BY WheelFacts DEF IInv, Turn
<1> QED
  BY <1>1, Inductive, PTL

(* For any weights and any cut-off: between two restarts no backend is     *)
(* served more than once beyond weight / gcd_weight.                       *)
THEOREM NearShare ==
  Spec => [](\A b \in Backends : served[b] * GcdWeight < Weight[b] + GcdWeight)
<1>1. ASSUME IInv, NEW b \in Backends
      PROVE  served[b] * GcdWeight < Weight[b] + GcdWeight
  <2>1. /\ cw \in Nat /\ GcdWeight \in Nat \ {0} /\ Weight[b] \in Nat \ {0}
        /\ served[b] \in Nat
    BY <1>1, WheelFacts, GcdWeightPositive, BackendFacts DEF IInv, TypeOK
  <2>2. CASE cw = 0
    BY <1>1, <2>1, <2>2, Product DEF IInv, WheelInv
  <2>3. CASE cw # 0
    <3>1. served[b] * GcdWeight <= Offered(b)
      BY <1>1, <2>3 DEF IInv, WheelInv
    <3>2. served[b] * GcdWeight \in Nat
      BY <2>1
    <3> QED
      BY <2>1, <2>3, <3>1, <3>2 DEF Offered, Floor
  <2> QED
    BY <2>2, <2>3
<1>2. IInv => \A b \in Backends : served[b] * GcdWeight < Weight[b] + GcdWeight
  BY <1>1
<1> QED
  BY <1>2, Inductive, PTL

-----------------------------------------------------------------------------
(* WeightedRoundRobin implements BackendChoice, every backend being        *)
(* eligible: None is answered only if no backend stayed up for the call,   *)
(* and a backend only if it was up during it.                              *)
THEOREM Refinement == Spec => KeepsPromise
<1>1. Init => Choice!AlgInit
  BY DEF Init, AlgInit, Choice!AlgInit, Choice!Backends, Backends
<1>2. ASSUME IInv, [Next]_vars
      PROVE  [Choice!Next]_(Choice!interface)
  <2>0. TypeOK /\ WheelInv /\ \A v \in Workers : WorkerInv(v)
    BY <1>2 DEF IInv
  <2>1. ASSUME NEW w \in Workers, NEW k \in Keys, Call(w, k)
        PROVE  Choice!Next
    <3>1. Choice!Begin(w, k)
      BY <2>1 DEF Call, Begin, Choice!Begin, AliveSet, Choice!AliveSet, Backends, Choice!Backends
    <3> QED
      BY <3>1 DEF Choice!Next
  <2>2. ASSUME NEW w \in Workers, Filter(w) \/ Acquire(w)
        PROVE  UNCHANGED Choice!interface
    BY <2>2 DEF Filter, Acquire, interface, Choice!interface
  <2>3. ASSUME NEW w \in Workers, Shortcut(w)
        PROVE  Choice!Next
    <3>1. /\ phase[w] = "calling" /\ pos[w] = N /\ key[w] \in Keys
          /\ up[w] \subseteq seen[w]
          /\ \A b \in kept[w] : b \in Backends /\ b < N /\ b \in up[w]
      <4>1. phase[w] = "calling" /\ pos[w] = N
        BY <2>3 DEF Shortcut, Return
      <4>2. kept[w] \subseteq Backends
        BY <2>0 DEF TypeOK, InterfaceTypeOK
      <4> QED
        BY <2>0, <4>1, <4>2, BackendFacts DEF WorkerInv
    <3>2. CASE up[w] = {} /\ Return(w, None)
      <4>1. Choice!Return(w, None)
        BY <3>2 DEF Return, Choice!Return
      <4>2. Choice!Answer(w)
        BY <3>1, <3>2, <4>1 DEF Choice!Answer
      <4> QED
        BY <4>2 DEF Choice!Next
    <3>3. CASE \E b \in up[w] : Return(w, b)
      <4>1. Choice!Answer(w)
        BY <3>1, <3>3 DEF Return, Choice!Return, Choice!Answer
      <4> QED
        BY <4>1 DEF Choice!Next
    <3> QED
      BY <2>3, <3>2, <3>3 DEF Shortcut
  <2>4. ASSUME NEW w \in Workers, Turn(w)
        PROVE  [Choice!Next]_(Choice!interface)
    <3>1. CASE Pick(w) /\ Return(w, Index)
      <4>1. Index \in seen[w] /\ phase[w] = "calling"
        BY <2>0, <3>1, WheelFacts DEF Pick, Return, WorkerInv, AliveSet
      <4>2. Choice!Answer(w)
        BY <3>1, <4>1 DEF Return, Choice!Return, Choice!Answer
      <4> QED
        BY <4>2 DEF Choice!Next
    <3>2. CASE UNCHANGED interface
      BY <3>2 DEF interface, Choice!interface
    <3> QED
      BY <2>4, <3>1, <3>2 DEF Turn
  <2>5. CASE HealthFlip
    <3> PICK b \in Backends, v \in BOOLEAN : StoreAlive(b, v)
      BY <2>5 DEF HealthFlip
    <3>1. Choice!StoreAlive(b, v)
      BY DEF StoreAlive, Choice!StoreAlive, AliveSet, Choice!AliveSet, Backends, Choice!Backends
    <3> QED
      BY <3>1 DEF Choice!Next, Choice!Backends, Backends
  <2>6. CASE UNCHANGED vars
    BY <2>6 DEF vars, Choice!interface
  <2> QED
    BY <1>2, <2>1, <2>2, <2>3, <2>4, <2>5, <2>6 DEF Next
<1> QED
  BY <1>1, <1>2, Inductive, PTL DEF Spec, KeepsPromise, Choice!Spec

-----------------------------------------------------------------------------
(* Exact shares. With weights that are multiples of the epsilon the wheel  *)
(* only ever stands at multiples of the step.                              *)
InStep == Multiple(cw, GcdWeight)

LEMMA LoweredInStep ==
  ASSUME Epsilon = 1, IInv, InStep
  PROVE  Multiple(Lowered, GcdWeight)
<1>1. GcdWeight \in Nat /\ cw \in Nat
  BY GcdWeightPositive, WheelFacts DEF IInv
<1>2. Multiple(MaxWeight, GcdWeight)
  BY MaxWeightFacts, WheelStepIsGcd
<1>3. CASE Index # 0
  BY <1>3 DEF Lowered, InStep
<1>4. CASE Index = 0 /\ cw - GcdWeight > 0
  <2>1. cw - GcdWeight \in Nat /\ GcdWeight + (cw - GcdWeight) = cw
    BY <1>1, <1>4
  <2>2. Multiple(cw - GcdWeight, GcdWeight)
    BY <1>1, <2>1, MultipleFacts, MultipleRest DEF InStep
  <2> QED
    BY <1>4, <2>2 DEF Lowered
<1>5. CASE Index = 0 /\ ~(cw - GcdWeight > 0)
  BY <1>2, <1>5 DEF Lowered
<1> QED
  BY <1>3, <1>4, <1>5

LEMMA AlwaysInStep ==
  ASSUME Epsilon = 1
  PROVE  Spec => []InStep
<1>1. Init => InStep
  <2>1. 0 = 0 * GcdWeight
    BY GcdWeightPositive
  <2> QED
    BY <2>1 DEF Init, InStep, Multiple
<1>2. IInv /\ InStep /\ [Next]_vars => InStep'
  <2> SUFFICES ASSUME IInv, InStep, [Next]_vars PROVE InStep'
    OBVIOUS
  <2>1. cw' = cw \/ cw' = Lowered
    BY DEF Next, Call, Filter, Shortcut, Acquire, Turn, HealthFlip, wheel, vars
  <2>2. Multiple(Lowered, GcdWeight)
    BY LoweredInStep
  <2> QED
    BY <2>1, <2>2 DEF InStep, Multiple
<1> QED
  BY <1>1, <1>2, Inductive, PTL DEF Spec

(* Two multiples that differ are a step apart. *)
LEMMA MultipleGap ==
  ASSUME NEW g \in Nat, NEW a \in Nat, NEW b \in Nat, Multiple(a, g), Multiple(b, g), a < b
  PROVE  a + g <= b
<1>1. PICK i \in Nat : a = i * g
  BY DEF Multiple
<1>2. PICK j \in Nat : b = j * g
  BY DEF Multiple
<1>3. CASE j <= i
  <2>1. i - j \in Nat /\ i = j + (i - j)
    BY <1>3
  <2>2. PICK x \in Nat : i = j + x
    BY <2>1
  <2>3. i * g = j * g + x * g /\ x * g \in Nat /\ j * g \in Nat
    BY <2>2
  <2> QED
    BY <1>1, <1>2, <2>3
<1>4. CASE j > i
  <2>1. j - i - 1 \in Nat /\ j = i + 1 + (j - i - 1)
    BY <1>4
  <2>2. PICK x \in Nat : j = i + 1 + x
    BY <2>1
  <2>3. j * g = i * g + g + x * g /\ x * g \in Nat /\ i * g \in Nat
    BY <2>2
  <2> QED
    BY <1>1, <1>2, <2>3
<1> QED
  BY <1>3, <1>4

(* With weights that are multiples of the epsilon, no backend is picked    *)
(* more often than its share before the wheel restarts, however many       *)
(* workers turn it, whatever goes down or comes back, and wherever the     *)
(* counter wraps.                                                          *)
THEOREM NotOverserved ==
  ASSUME Epsilon = 1
  PROVE  Spec => []NeverOverserved
<1>1. ASSUME IInv, InStep, steady # {}, NEW b \in Backends
      PROVE  served[b] * GcdWeight <= Weight[b]
  <2>1. /\ cw \in Nat /\ cw # 0 /\ GcdWeight \in Nat \ {0} /\ Weight[b] \in Nat \ {0}
        /\ served[b] \in Nat
    BY <1>1, WheelFacts, GcdWeightPositive, BackendFacts DEF IInv, WheelInv, TypeOK
  <2>2. served[b] * GcdWeight <= Offered(b)
    BY <1>1, <2>1 DEF IInv, WheelInv
  <2>3. GcdWeight <= cw
    <3>1. Multiple(0, GcdWeight) /\ 0 + GcdWeight = GcdWeight
      BY <2>1, MultipleFacts
    <3> QED
      BY <1>1, <2>1, <3>1, MultipleGap DEF InStep
  <2>4. served[b] * GcdWeight \in Nat
    BY <2>1
  <2> QED
    BY <2>1, <2>2, <2>3, <2>4 DEF Offered, Floor
<1>2. IInv /\ InStep => NeverOverserved
  BY <1>1 DEF NeverOverserved
<1> QED
  BY <1>2, Inductive, AlwaysInStep, PTL

-----------------------------------------------------------------------------
(* A backend that has stayed up since the restart was served all that it   *)
(* was offered: each time the wheel passed it, its weight decided.         *)
Exact == cw # 0 => \A b \in steady : served[b] * GcdWeight = Offered(b)

LEMMA TurnExact ==
  ASSUME Epsilon = 1, IInv, InStep, Exact, NoCut,
         NEW w \in Workers, Turn(w), NEW b \in steady'
  PROVE  served'[b] * GcdWeight = Offered(b)'
<1> DEFINE G == GcdWeight
           L == Lowered
           W == Weight[b]
           s == IF Restarts THEN 0 ELSE served[b]
           e == IF Pick(w) /\ b = Index THEN 1 ELSE 0
           f == Floor(b)'
           t == served'[b]
<1>0. b \in Backends /\ alive[b] /\ (~Restarts => b \in steady)
  BY DEF Turn, IInv, TypeOK, WheelInv, AliveSet
<1>1. /\ G \in Nat \ {0} /\ L \in Nat \ {0} /\ W \in Nat \ {0} /\ s \in Nat
      /\ b \in Nat /\ Index \in Nat /\ b < N /\ N \in Nat
      /\ W <= MaxWeight /\ MaxWeight \in Nat
  BY <1>0, GcdWeightPositive, WheelFacts, BackendFacts, MaxWeightFacts DEF IInv, TypeOK
<1>2. Offered(b)' = IF W > f THEN W - f ELSE 0
  BY DEF Offered
<1>3. ~Restarts /\ cw # 0 => served[b] * G = Offered(b)
  BY <1>0 DEF Exact
<1>4. CASE b < Index
  <2>1. ~Restarts
    BY <1>1, <1>4 DEF Restarts
  <2> QED
    BY <1>0, <1>2, <1>3, <1>4, <2>1, TurnMoves DEF Offered
<1>5. CASE b >= Index
  <2>1. s * G = IF W > L THEN W - L ELSE 0
    <3>1. CASE Restarts
      <4>1. L = MaxWeight /\ s = 0
        BY <1>0, <1>5, <3>1, TurnMoves
      <4> QED
        BY <1>1, <4>1, Product
    <3>2. CASE ~Restarts
      BY <1>0, <1>3, <1>5, <3>2, TurnMoves DEF Offered
    <3> QED
      BY <3>1, <3>2
  <2>2. Index' = 0 => b = Index
    BY <1>1, <1>5, IndexMoves
  <2>3. t = s + e /\ f = (IF b = Index THEN L - G ELSE L)
    BY <1>0, <1>5, <2>2, TurnMoves
  <2>4. b = Index => (e = 1 <=> W >= L)
    BY <1>0 DEF Pick, Outweighs
  <2>5. b # Index => e = 0
    OBVIOUS
  <2>6. s * G \in Nat /\ (s + 1) * G = s * G + G
    BY <1>1, Product
  <2>7. W < L => W + G <= L
    BY <1>0, <1>1, LoweredInStep, WheelStepIsGcd, MultipleGap
  <2>8. e = 0 \/ e = 1
    OBVIOUS
  <2> HIDE DEF G, L, W, s, e, f, t
  <2>9. t * G = IF W > f THEN W - f ELSE 0
    <3>1. CASE b = Index /\ W >= L
      <4>1. f = L - G /\ t * G = s * G + G
        BY <2>3, <2>4, <2>6, <3>1
      <4> QED
        BY <1>1, <2>1, <2>6, <3>1, <4>1
    <3>2. CASE b = Index /\ W < L
      <4>1. f = L - G /\ t = s
        BY <1>1, <2>3, <2>4, <2>8, <3>2
      <4> QED
        BY <1>1, <2>1, <2>6, <2>7, <3>2, <4>1
    <3>3. CASE b # Index
      <4>1. f = L /\ t = s
        BY <1>1, <2>3, <2>5, <3>3
      <4> QED
        BY <2>1, <4>1
    <3> QED
      BY <1>1, <3>1, <3>2, <3>3
  <2> QED
    BY <1>2, <2>9 DEF t, G
<1> QED
  BY <1>1, <1>4, <1>5

LEMMA StepExact ==
  ASSUME Epsilon = 1, IInv, InStep, Exact, NoCut, [Next]_vars
  PROVE  Exact'
<1>1. ASSUME NEW w \in Workers, Turn(w)
      PROVE  Exact'
  BY <1>1, TurnExact DEF Exact
<1>2. CASE UNCHANGED <<current, cw, served, steady>>
  BY <1>2 DEF Exact, Offered, Floor, Index
<1>3. CASE HealthFlip
  <2>1. UNCHANGED <<current, cw, served>> /\ steady' \subseteq steady
    BY <1>3 DEF HealthFlip
  <2> QED
    BY <2>1 DEF Exact, Offered, Floor, Index
<1> QED
  BY <1>1, <1>2, <1>3
     DEF Next, Call, Filter, Shortcut, Acquire, wheel, vars

LEMMA AlwaysExact ==
  ASSUME Epsilon = 1
  PROVE  Spec /\ []NoCut => []Exact
<1>1. Init => Exact
  BY DEF Init, Exact
<1>2. IInv /\ InStep /\ Exact /\ NoCut /\ [Next]_vars => Exact'
  BY StepExact
<1> QED
  BY <1>1, <1>2, Inductive, AlwaysInStep, PTL DEF Spec

(* README "respecting weights". With weights that are multiples of the     *)
(* epsilon, and as long as the counter does not wrap in the middle of a    *)
(* round, each backend that stays up between two restarts of the wheel is  *)
(* picked exactly weight / gcd_weight times in between.                    *)
THEOREM ExactShare ==
  ASSUME Epsilon = 1
  PROVE  Spec /\ []NoCut => WeightedShare
<1>1. ASSUME IInv, InStep, Exact, Restarts, NEW b \in steady
      PROVE  served[b] = Weight[b] \div GcdWeight
  <2> DEFINE G == GcdWeight
             W == Weight[b]
             s == served[b]
  <2>1. /\ b \in Backends /\ cw \in Nat /\ cw # 0 /\ Index = 0 /\ cw - G <= 0
        /\ G \in Nat \ {0} /\ W \in Nat \ {0} /\ s \in Nat
    BY <1>1, WheelFacts, GcdWeightPositive, BackendFacts DEF IInv, WheelInv, TypeOK, Restarts
  <2>2. cw = G
    <3>1. Multiple(0, G) /\ Multiple(cw, G) /\ 0 + G = G
      BY <1>1, <2>1, MultipleFacts DEF InStep
    <3>2. G <= cw
      BY <2>1, <3>1, MultipleGap
    <3> QED
      BY <2>1, <3>2
  <2>3. s * G = Offered(b)
    BY <1>1, <2>1 DEF Exact
  <2>4. Offered(b) = W
    BY <2>1, <2>2 DEF Offered, Floor
  <2> HIDE DEF G, W, s
  <2>5. W = G * s + 0 /\ 0 \in 0 .. (G - 1)
    BY <2>1, <2>3, <2>4
  <2>6. W \div G = s
    BY <2>1, <2>5, ModUnique
  <2> QED
    BY <2>6 DEF G, W, s
<1>2. IInv /\ InStep /\ Exact
        => [Restarts /\ lock # None /\ current' # current
            => \A b \in steady : served[b] = Weight[b] \div GcdWeight]_vars
  BY <1>1
<1> QED
  BY <1>2, Inductive, AlwaysInStep, AlwaysExact, PTL DEF WeightedShare
=============================================================================
